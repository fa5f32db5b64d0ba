-------------------------- MODULE SftpClient_proofs --------------------------
(***************************************************************************)
(* The table of pending requests of an SFTPClient is exact, for any number  *)
(* of calls, request ids and requests.  Three facts hold it up: the packets *)
(* that the writer holds are those of the last requests, in order; whoever  *)
(* holds an id is the last request made with it; and a closed client has no *)
(* pending requests.  With the first two, the id that a failed write frees   *)
(* belongs to a request whose own write fails with it.                      *)
(* From them follow the refinement of SftpRequests, how far apart the        *)
(* requests with one id are, and which handles the server keeps.             *)
(***************************************************************************)
EXTENDS SftpClient, FiniteSetTheorems, WellFoundedInduction, TLAPS

ReqKind == DOMAIN Wanted
Promise == [state : {"waiting", "answered", "rejected"}, result : Result \cup {"none"}, of : Nat]
Entry == [op : Ops, kind : ReqKind, id : Id, promise : Promise]
Client == [connect : {"idle", "writing", "version", "open", "closing", "failed"},
           limit : Limits \cup {1},
           aborted : BOOLEAN, version : {"pending", "resolved", "rejected"},
           closed : BOOLEAN, shutdown : {"no", "running", "done"}]
Server == [owed : SUBSET Nat, handles : SUBSET Ops, got : BOOLEAN]

State == [op : [Ops -> Operation], log : Seq(Entry), pending : [next : Id, of : [Id -> Nat]],
          out : Seq(Nat), writer : {"open", "aborting", "errored"}, client : Client,
          server : Server]

\* What refers to a request refers to one that was made.
Bounded(s) ==
  /\ \A id \in Id : s.pending.of[id] <= Len(s.log)
  /\ \A i \in 1 .. Len(s.out) : s.out[i] <= Len(s.log)
  /\ \A o \in Ops : s.op[o].req <= Len(s.log)
  /\ s.server.owed \subseteq 0 .. Len(s.log)
  /\ \A r \in 1 .. Len(s.log) :
       LET promise == s.log[r].promise
       IN  IF promise.state = "answered" THEN promise.of \in 1 .. Len(s.log)
                                         ELSE promise.result = "none"

Holds(s, r) == s.pending.of[s.log[r].id] = r
WaitingHeld(s) ==
  \A r \in 1 .. Len(s.log) : s.log[r].promise.state = "waiting" => Holds(s, r)

Exact(s) ==
  /\ WaitingHeld(s)
  /\ \A r \in 1 .. Len(s.log) : Holds(s, r) => s.log[r].promise.state = "waiting"
  /\ \A id \in Id : s.pending.of[id] # None => s.log[s.pending.of[id]].id = id
  /\ \A r \in 1 .. Len(s.log) :
       LET holder == s.pending.of[s.log[r].id] IN holder # None => r <= holder

\* No request is made before connect.
Fresh(s) == s.client.connect = "idle" => s.log = <<>> /\ \A o \in Ops : s.op[o].at = "idle"

\* The writer holds the packets of the last requests, unless the client is closed.
InLine(s) ==
  IF s.client.closed THEN \A id \in Id : s.pending.of[id] = None
  ELSE \A i \in 1 .. Len(s.out) : s.out[i] = (Len(s.log) - Len(s.out)) + i

Limited(s) == Cardinality(Pending(s)) <= s.client.limit

Good(s) == s \in State /\ Bounded(s) /\ Exact(s) /\ Fresh(s) /\ InLine(s) /\ Limited(s)

IInv == Good(Now)

-----------------------------------------------------------------------------
\* The least of a set of numbers.
LEMMA Smallest ==
  ASSUME NEW T \in SUBSET Nat, T # {}
  PROVE  \E x \in T : \A y \in T : x <= y
<1>1. IsWellFoundedOn(OpToRel(<, Nat), Nat)
  BY NatLessThanWellFounded
<1>2. PICK x \in T : \A y \in T : <<y, x>> \notin OpToRel(<, Nat)
  BY <1>1, WFMin
<1>3. \A y \in T : ~ (y < x)
  BY <1>2 DEF OpToRel
<1> QED
  BY <1>3

LEMMA IdFacts ==
  /\ IdSpace \in Nat /\ IdSpace > 1 /\ Id \in SUBSET Nat /\ 0 \in Id /\ 1 \in Id
  /\ IsFiniteSet(Id) /\ Cardinality(Id) = IdSpace
  /\ \A limit \in Limits \cup {1} : limit \in 1 .. IdSpace - 1
<1>1. IdSpace \in Nat /\ IdSpace > 1 /\ Limits \subseteq 1 .. IdSpace - 1
  BY ClientAssumption
<1>2. IsFiniteSet(0 .. IdSpace - 1) /\ Cardinality(0 .. IdSpace - 1) = IdSpace
  BY <1>1, FS_Interval
<1> QED
  BY <1>1, <1>2 DEF Id

LEMMA PendingFinite ==
  ASSUME NEW s \in State
  PROVE  /\ Pending(s) \subseteq Id /\ IsFiniteSet(Pending(s))
         /\ Cardinality(Pending(s)) \in Nat /\ Cardinality(Pending(s)) <= IdSpace
<1>1. Pending(s) \subseteq Id
  BY DEF Pending
<1> QED
  BY <1>1, IdFacts, FS_Subset, FS_CardinalityType

\* Every id is reached by counting on from another one.
LEMMA Reached ==
  ASSUME NEW n \in Nat, n > 0, NEW x \in 0 .. n - 1, NEW y \in 0 .. n - 1
  PROVE  \E k \in 0 .. n - 1 : (x + k) % n = y
<1>1. CASE y >= x
  <2>1. y - x \in 0 .. n - 1 /\ x + (y - x) = y
    BY <1>1
  <2>2. y % n = y
    BY Z3
  <2> QED
    BY <2>1, <2>2
<1>2. CASE y < x
  <2>1. (y + n) - x \in 0 .. n - 1 /\ x + ((y + n) - x) = y + n
    BY <1>2
  <2>2. (y + n) % n = y
    BY Z3
  <2> QED
    BY <2>1, <2>2
<1> QED
  BY <1>1, <1>2

LEMMA Wrapped ==
  ASSUME NEW n \in Nat, n > 0, NEW x \in Nat
  PROVE  x % n \in 0 .. n - 1
  BY Z3

\* While an id is free, the search of #allocateId finds one (sftp.ts:493-501).
LEMMA AllocatesFree ==
  ASSUME NEW s \in State, Cardinality(Pending(s)) < IdSpace
  PROVE  /\ AllocateId(s) \in Id /\ AllocateId(s) \notin Pending(s)
         /\ \E k \in Id :
              /\ AllocateId(s) = (s.pending.next + k) % IdSpace
              /\ \A i \in 0 .. k - 1 : (s.pending.next + i) % IdSpace \in Pending(s)
<1> DEFINE free(k) == (s.pending.next + k) % IdSpace \notin Pending(s)
           T == {k \in Id : free(k)}
<1>1. s.pending.next \in 0 .. IdSpace - 1 /\ Id = 0 .. IdSpace - 1
  BY DEF State, Id
<1>2. PICK id \in Id : id \notin Pending(s)
  <2> SUFFICES ASSUME Id \subseteq Pending(s) PROVE FALSE
    OBVIOUS
  <2>1. Pending(s) = Id
    BY PendingFinite
  <2> QED
    BY <2>1, IdFacts
<1>3. T # {} /\ T \in SUBSET Nat
  <2>1. PICK k \in 0 .. IdSpace - 1 : (s.pending.next + k) % IdSpace = id
    <3>1. IdSpace > 0 /\ IdSpace \in Nat /\ id \in 0 .. IdSpace - 1
      BY <1>1, <1>2, IdFacts
    <3> QED
      BY <1>1, <3>1, Reached
  <2>2. k \in T
    BY <1>1, <1>2, <2>1
  <2> QED
    BY <2>2, IdFacts
<1>4. PICK k \in T : \A j \in T : k <= j
  BY <1>3, Smallest
<1>5. k \in Id /\ free(k) /\ \A j \in 0 .. k - 1 : ~free(j)
  <2>1. k \in Id /\ free(k)
    BY <1>4
  <2> SUFFICES ASSUME NEW j \in 0 .. k - 1, free(j) PROVE FALSE
    BY <2>1
  <2> HIDE DEF free
  <2>2. j \in Id /\ ~(k <= j)
    BY <1>1, <2>1, IdFacts
  <2> QED
    BY <1>4, <2>2
<1> DEFINE steps == CHOOSE n \in Id : free(n) /\ \A j \in 0 .. n - 1 : ~free(j)
<1>6. steps \in Id /\ free(steps) /\ \A j \in 0 .. steps - 1 : ~free(j)
  <2> HIDE DEF free
  <2> QED
    BY <1>5
<1>7. AllocateId(s) = (s.pending.next + steps) % IdSpace
  BY DEF AllocateId
<1> HIDE DEF steps
<1>8. (s.pending.next + steps) % IdSpace \in Id
  <2> HIDE DEF free
  <2>0. \A a, b \in Id : a + b \in Nat
    BY IdFacts
  <2>1. s.pending.next + steps \in Nat
    BY <1>1, <1>6, <2>0
  <2> QED
    BY <1>1, <2>1, IdFacts, Wrapped
<1> QED
  BY <1>6, <1>7, <1>8

-----------------------------------------------------------------------------
(* What the operators of the table do to a state.                          *)

NoneWaits(s) == \A r \in 1 .. Len(s.log) : s.log[r].promise.state # "waiting"

LEMMA LogFacts ==
  ASSUME NEW s \in State
  PROVE  /\ s.log \in Seq(Entry) /\ Len(s.log) \in Nat /\ DOMAIN s.log = 1 .. Len(s.log)
         /\ \A r \in 1 .. Len(s.log) :
              s.log[r] \in Entry /\ s.log[r].id \in Id /\ s.log[r].promise \in Promise
<1>1. s.log \in Seq(Entry)
  BY DEF State
<1>2. \A r \in 1 .. Len(s.log) : s.log[r] \in Entry
  BY <1>1
<1> QED
  BY <1>1, <1>2 DEF Entry

\* When no request waits and the table is empty, the table is exact.
LEMMA EmptyTable ==
  ASSUME NEW s \in State, NoneWaits(s), \A id \in Id : s.pending.of[id] = None
  PROVE  Exact(s) /\ Cardinality(Pending(s)) = 0
<1>1. Pending(s) = {}
  BY DEF Pending
<1>2. \A r \in 1 .. Len(s.log) : s.log[r].id \in Id /\ ~Holds(s, r)
  <2> TAKE r \in 1 .. Len(s.log)
  <2>1. s.log[r].id \in Id
    BY LogFacts
  <2> QED
    BY <2>1 DEF Holds, None
<1>3. Exact(s)
  BY <1>2 DEF Exact, NoneWaits, WaitingHeld
<1> QED
  BY <1>1, <1>3, FS_EmptySet

LEMMA RejectingFields ==
  ASSUME NEW s \in State, NEW R
  PROVE  LET told == Rejecting(s, R) IN
         /\ told \in Seq(Entry) /\ Len(told) = Len(s.log)
         /\ \A r \in 1 .. Len(s.log) :
              /\ told[r].id = s.log[r].id /\ told[r].kind = s.log[r].kind /\ told[r].op = s.log[r].op
              /\ told[r].promise = IF r \in R THEN Settle(s.log[r].promise, Rejected)
                                             ELSE s.log[r].promise
<1> DEFINE Told(r) == IF r \in R THEN [s.log[r] EXCEPT !.promise = Settle(@, Rejected)] ELSE s.log[r]
<1>1. ASSUME NEW r \in 1 .. Len(s.log)
      PROVE  /\ Told(r) \in Entry /\ Told(r).id = s.log[r].id
             /\ Told(r).kind = s.log[r].kind /\ Told(r).op = s.log[r].op
             /\ Told(r).promise = IF r \in R THEN Settle(s.log[r].promise, Rejected)
                                             ELSE s.log[r].promise
  <2>1. s.log[r] \in Entry
    BY LogFacts
  <2>2. Settle(s.log[r].promise, Rejected) \in Promise
    BY <2>1 DEF Entry, Promise, Settle, Rejected, None
  <2> QED
    BY <2>1, <2>2 DEF Entry
<1>2. Rejecting(s, R) = [r \in 1 .. Len(s.log) |-> Told(r)]
  BY LogFacts DEF Rejecting
<1> QED
  BY <1>1, <1>2, LogFacts

LEMMA TerminatedFields ==
  ASSUME NEW s \in State, ~s.client.closed
  PROVE  LET t == Terminated(s) IN
         /\ t \in State
         /\ t.op = s.op /\ t.out = s.out /\ Len(t.log) = Len(s.log)
         /\ t.client.connect = s.client.connect /\ t.client.limit = s.client.limit /\ t.client.closed
         /\ t.pending.next = s.pending.next
         /\ \A id \in Id : t.pending.of[id] = None
         /\ t.server.owed = {}
         /\ \A r \in 1 .. Len(s.log) :
              /\ t.log[r].id = s.log[r].id
              /\ t.log[r].promise = IF Holds(s, r) THEN Settle(s.log[r].promise, Rejected)
                                                   ELSE s.log[r].promise
<1> DEFINE held == {r \in DOMAIN s.log : s.pending.of[s.log[r].id] = r}
           told == Rejecting(s, held)
           t == Terminated(s)
<1>1. \A r \in 1 .. Len(s.log) : r \in held <=> Holds(s, r)
  BY LogFacts DEF Holds
<1>3. /\ told \in Seq(Entry) /\ Len(told) = Len(s.log)
      /\ \A r \in 1 .. Len(s.log) :
           /\ told[r].id = s.log[r].id
           /\ told[r].promise = IF r \in held THEN Settle(s.log[r].promise, Rejected)
                                              ELSE s.log[r].promise
  <2> HIDE DEF held
  <2> QED
    BY RejectingFields
<1>4. t.log = told
  BY DEF Terminated, State
<1>5. /\ t.op = s.op /\ t.out = s.out
      /\ t.pending = [s.pending EXCEPT !.of = [id \in Id |-> None]]
      /\ t.writer = IF s.out = <<>> THEN "errored" ELSE "aborting"
      /\ t.server = [s.server EXCEPT !.owed = {}, !.handles = {}]
      /\ t.client = [s.client EXCEPT !.closed = TRUE, !.shutdown = "running",
                        !.version = IF @ = "pending" THEN "rejected" ELSE @]
  BY DEF Terminated, State
<1>6. t = [op |-> t.op, log |-> t.log, pending |-> t.pending, out |-> t.out, writer |-> t.writer,
           client |-> t.client, server |-> t.server]
  BY DEF Terminated, State
<1> HIDE DEF t, told
<1>7. /\ t.client \in Client /\ t.client.connect = s.client.connect
      /\ t.client.limit = s.client.limit /\ t.client.closed /\ t.server.owed = {}
  BY <1>5 DEF State, Client, Server
<1>8. t.pending \in [next : Id, of : [Id -> Nat]] /\ t.pending.next = s.pending.next
      /\ \A id \in Id : t.pending.of[id] = None
  <2>1. t.pending = [s.pending EXCEPT !.of = [id \in Id |-> None]]
    BY <1>5
  <2>2. s.pending \in [next : Id, of : [Id -> Nat]]
    BY DEF State
  <2> QED
    BY <2>1, <2>2 DEF None
<1>9. t \in State
  <2>1. s.op \in [Ops -> Operation] /\ s.out \in Seq(Nat)
    BY DEF State
  <2>2. t.server \in Server /\ t.writer \in {"errored", "aborting"}
    BY <1>5 DEF State, Server
  <2> QED
    BY <1>3, <1>4, <1>5, <1>6, <1>7, <1>8, <2>1, <2>2 DEF State
<1> QED
  BY <1>1, <1>3, <1>4, <1>5, <1>7, <1>8, <1>9 DEF t

\* #terminate leaves the table empty and exact: what it needs is that whoever
\* waits is in the table.
LEMMA TerminatedGood ==
  ASSUME NEW s \in State, Bounded(s), Fresh(s), WaitingHeld(s), s.client.closed => Good(s)
  PROVE  Good(Terminated(s)) /\ Terminated(s).client.closed
<1> DEFINE t == Terminated(s)
<1>1. CASE s.client.closed
  BY <1>1 DEF Terminated
<1>2. CASE ~s.client.closed
  <2>1. /\ t \in State
        /\ t.op = s.op /\ t.out = s.out /\ Len(t.log) = Len(s.log)
        /\ t.client.connect = s.client.connect /\ t.client.limit = s.client.limit /\ t.client.closed
        /\ \A id \in Id : t.pending.of[id] = None
        /\ t.server.owed = {}
        /\ \A r \in 1 .. Len(s.log) :
             /\ t.log[r].id = s.log[r].id
             /\ t.log[r].promise = IF Holds(s, r) THEN Settle(s.log[r].promise, Rejected)
                                                  ELSE s.log[r].promise
    BY <1>2, TerminatedFields
  <2> HIDE DEF t
  <2>2. ASSUME NEW r \in 1 .. Len(s.log)
        PROVE  /\ t.log[r].promise.state # "waiting"
               /\ t.log[r].promise = s.log[r].promise \/ t.log[r].promise = Rejected
    <3>1. s.log[r].promise.state = "waiting" => Holds(s, r)
      BY DEF WaitingHeld
    <3> QED
      BY <2>1, <3>1 DEF Settle, Rejected
  <2>3. Exact(t) /\ Cardinality(Pending(t)) = 0
    BY <2>1, <2>2, EmptyTable DEF NoneWaits
  <2>4. Limited(t)
    <3>1. t.client.limit \in Limits \cup {1}
      BY <2>1 DEF State, Client
    <3> QED
      BY <2>3, <3>1, IdFacts DEF Limited
  <2>5. Bounded(t)
    <3>1. \A r \in 1 .. Len(t.log) :
            LET promise == t.log[r].promise
            IN  IF promise.state = "answered" THEN promise.of \in 1 .. Len(t.log)
                                              ELSE promise.result = "none"
      BY <2>1, <2>2 DEF Bounded, Rejected
    <3>2. Len(s.log) \in Nat
      BY LogFacts
    <3> QED
      BY <2>1, <3>1, <3>2 DEF Bounded, None
  <2>6. Fresh(t)
    <3>1. s.log = <<>> => t.log = <<>>
      BY <2>1, LogFacts
    <3> QED
      BY <2>1, <3>1 DEF Fresh
  <2>7. InLine(t)
    BY <2>1 DEF InLine
  <2> QED
    BY <2>1, <2>3, <2>4, <2>5, <2>6, <2>7 DEF Good, t
<1> QED
  BY <1>1, <1>2

\* An operation that goes on, and requests nothing.
LEMMA OpGood ==
  ASSUME NEW s \in State, Good(s), NEW t \in State,
         t.log = s.log, t.pending = s.pending, t.out = s.out,
         t.server.owed \subseteq s.server.owed,
         t.client.closed = s.client.closed, t.client.limit = s.client.limit,
         t.client.connect = "idle" => s.client.connect = "idle" /\ t.op = s.op,
         \A o \in Ops : t.op[o].req = None \/ t.op[o].req = s.op[o].req
  PROVE  Good(t)
<1>1. Pending(t) = Pending(s)
  BY DEF Pending
<1>2. Exact(t)
  BY DEF Good, Exact, WaitingHeld, Holds
<1>3. Len(s.log) \in Nat
  BY LogFacts
<1>4. Bounded(t)
  BY <1>3 DEF Good, Bounded, None
<1>5. Fresh(t)
  BY DEF Good, Fresh
<1>6. InLine(t) /\ Limited(t)
  BY <1>1 DEF Good, InLine, Limited
<1> QED
  BY <1>2, <1>4, <1>5, <1>6 DEF Good

LEMMA BothLonger ==
  ASSUME NEW m \in Nat, NEW n \in Nat, NEW k, NEW l, k = m + 1, l = n + 1
  PROVE  k - l = m - n
  OBVIOUS

\* A request that is made gets a free id and joins the line of the writer.
LEMMA RequestMade ==
  ASSUME NEW s \in State, Good(s), NEW t \in State, NEW o \in Ops, NEW entry \in Entry,
         ~s.client.closed, Cardinality(Pending(s)) < s.client.limit, s.client.connect # "idle",
         entry.id \notin Pending(s), entry.promise = Waiting,
         t.log = Append(s.log, entry), t.out = Append(s.out, Len(s.log) + 1),
         t.pending.of = [s.pending.of EXCEPT ![entry.id] = Len(s.log) + 1],
         t.client = s.client, t.server = s.server,
         \A q \in Ops : t.op[q].req \in {None, s.op[q].req, Len(s.log) + 1}
  PROVE  Good(t)
<1> DEFINE n == Len(s.log)
<1>1. /\ n \in Nat /\ Len(t.log) = n + 1 /\ t.log[n + 1] = entry /\ entry.id \in Id
      /\ \A r \in 1 .. n : t.log[r] = s.log[r] /\ s.log[r].id \in Id
      /\ \A r \in 1 .. n + 1 : r # n + 1 => r \in 1 .. n
  BY LogFacts DEF Entry
<1>2. /\ \A id \in Id : id # entry.id => t.pending.of[id] = s.pending.of[id]
      /\ t.pending.of[entry.id] = n + 1 /\ s.pending.of[entry.id] = None
      /\ \A id \in Id : s.pending.of[id] \in Nat /\ s.pending.of[id] <= n
  BY <1>1 DEF State, Pending, Good, Bounded
<1>a. /\ s.out \in Seq(Nat) /\ n + 1 \in Nat /\ Len(s.out) \in Nat
      /\ Len(t.out) = Len(s.out) + 1 /\ t.out[Len(s.out) + 1] = n + 1
      /\ \A i \in 1 .. Len(s.out) : t.out[i] = s.out[i]
  <2>1. s.out \in Seq(Nat) /\ n + 1 \in Nat
    BY <1>1 DEF State
  <2> QED
    BY <2>1
<1>b. n \in Nat /\ Len(t.log) = n + 1 /\ Len(s.out) \in Nat /\ Len(t.out) = Len(s.out) + 1
  BY <1>1, <1>a
<1>3. Bounded(t)
  <2>1. \A r \in 1 .. Len(t.log) :
          LET promise == t.log[r].promise
          IN  IF promise.state = "answered" THEN promise.of \in 1 .. Len(t.log)
                                            ELSE promise.result = "none"
    BY <1>1 DEF Good, Bounded, Waiting
  <2>2. ASSUME NEW i \in 1 .. Len(t.out)
        PROVE  t.out[i] <= Len(t.log)
    <3>1. \A j \in 1 .. Len(s.out) : s.out[j] \in Nat /\ s.out[j] <= n
      BY <1>a DEF Good, Bounded
    <3>2. i \in 1 .. Len(s.out) \/ i = Len(s.out) + 1
      BY <1>a
    <3>3. t.out[i] = n + 1 \/ (t.out[i] \in Nat /\ t.out[i] <= n)
      BY <1>a, <3>1, <3>2
    <3> QED
      BY <1>1, <3>3
  <2>3. \A q \in Ops : t.op[q].req <= Len(t.log)
    <3>1. \A q \in Ops : s.op[q].req \in Nat /\ s.op[q].req <= n
      BY DEF State, Operation, Good, Bounded
    <3> QED
      BY <1>1, <3>1 DEF None
  <2>4. t.server.owed \subseteq 0 .. Len(t.log)
    BY <1>1 DEF Good, Bounded
  <2>5. \A id \in Id : t.pending.of[id] <= Len(t.log)
    BY <1>1, <1>2
  <2> QED
    BY <2>1, <2>2, <2>3, <2>4, <2>5 DEF Bounded
<1>4. \A r \in 1 .. n : Holds(t, r) <=> Holds(s, r)
  <2> TAKE r \in 1 .. n
  <2>1. CASE s.log[r].id = entry.id
    BY <1>1, <1>2, <2>1 DEF Holds, None
  <2>2. CASE s.log[r].id # entry.id
    BY <1>1, <1>2, <2>2 DEF Holds
  <2> QED
    BY <2>1, <2>2
<1>5. Holds(t, n + 1) /\ t.log[n + 1].promise.state = "waiting"
  BY <1>1, <1>2 DEF Holds, Waiting
<1>6. Exact(t)
  <2>1. \A r \in 1 .. Len(t.log) : t.log[r].promise.state = "waiting" <=> Holds(t, r)
    BY <1>1, <1>4, <1>5 DEF Good, Exact, WaitingHeld
  <2>2. ASSUME NEW id \in Id, t.pending.of[id] # None
        PROVE  t.log[t.pending.of[id]].id = id
    <3>1. CASE id = entry.id
      BY <1>1, <1>2, <3>1
    <3>2. CASE id # entry.id
      <4>1. t.pending.of[id] = s.pending.of[id] /\ s.pending.of[id] \in 1 .. n
        BY <1>1, <1>2, <2>2, <3>2 DEF None
      <4> QED
        BY <1>1, <2>2, <4>1 DEF Good, Exact
    <3> QED
      BY <3>1, <3>2
  <2>3. ASSUME NEW r \in 1 .. Len(t.log), t.pending.of[t.log[r].id] # None
        PROVE  r <= t.pending.of[t.log[r].id]
    <3>1. CASE t.log[r].id = entry.id
      BY <1>1, <1>2, <3>1
    <3>2. CASE t.log[r].id # entry.id
      <4>1. r \in 1 .. n /\ t.log[r] = s.log[r]
        BY <1>1, <3>2
      <4> QED
        BY <1>1, <1>2, <2>3, <3>2, <4>1 DEF Good, Exact
    <3> QED
      BY <3>1, <3>2
  <2> QED
    BY <2>1, <2>2, <2>3 DEF Exact, WaitingHeld
<1>7. InLine(t)
  <2>1. \A i \in 1 .. Len(s.out) : s.out[i] = (n - Len(s.out)) + i
    BY DEF Good, InLine
  <2>2. ASSUME NEW i \in 1 .. Len(t.out)
        PROVE  t.out[i] = (Len(t.log) - Len(t.out)) + i
    <3>1. Len(t.log) - Len(t.out) = n - Len(s.out)
      <4>1. Len(t.log) = n + 1
        BY <1>b
      <4>2. n \in Nat /\ Len(s.out) \in Nat
        BY <1>b
      <4>3. Len(t.out) = Len(s.out) + 1
        BY <1>b
      <4>4. (n + 1) - (Len(s.out) + 1) = n - Len(s.out)
        BY <4>2, BothLonger
      <4> QED
        BY <4>1, <4>3, <4>4
    <3>2. CASE i \in 1 .. Len(s.out)
      BY <1>a, <2>1, <3>1, <3>2
    <3>3. CASE i = Len(s.out) + 1
      BY <1>1, <1>a, <3>1, <3>3
    <3>4. i \in 1 .. Len(s.out) \/ i = Len(s.out) + 1
      BY <1>b
    <3> QED
      BY <3>2, <3>3, <3>4
  <2> QED
    BY <2>2 DEF InLine
<1>8. Limited(t)
  <2>1. Pending(t) = Pending(s) \cup {entry.id}
    BY <1>1, <1>2 DEF Pending, None
  <2>2. Cardinality(Pending(t)) = Cardinality(Pending(s)) + 1
    BY <2>1, PendingFinite, FS_AddElement
  <2>3. s.client.limit \in Nat
    BY IdFacts DEF State, Client
  <2> QED
    BY <2>2, <2>3, PendingFinite DEF Limited
<1> QED
  BY <1>3, <1>6, <1>7, <1>8 DEF Good, Fresh

LEMMA OperationAt ==
  ASSUME NEW e \in Operation, NEW at \in Stage, NEW r \in Nat
  PROVE  /\ [e EXCEPT !.at = at] \in Operation
         /\ [e EXCEPT !.at = at, !.req = r] \in Operation
         /\ [e EXCEPT !.at = at, !.req = r].req = r
  BY DEF Operation

LEMMA OperationFlag ==
  ASSUME NEW e \in Operation, NEW b \in BOOLEAN
  PROVE  /\ [e EXCEPT !.refused = b] \in Operation
         /\ [e EXCEPT !.refused = b].req = e.req
  BY DEF Operation

LEMMA OpTyped ==
  ASSUME NEW s \in State
  PROVE  s.op \in [Ops -> Operation] /\ \A o \in Ops : s.op[o] \in Operation
  BY DEF State

LEMMA OpAt ==
  ASSUME NEW s \in State, NEW o \in Ops, NEW e \in Operation
  PROVE  /\ [s.op EXCEPT ![o] = e] \in [Ops -> Operation]
         /\ [s EXCEPT !.op[o] = e] \in State
         /\ [s EXCEPT !.op[o] = e].op = [s.op EXCEPT ![o] = e]
<1>1. s.op \in [Ops -> Operation]
  BY DEF State
<1>2. [s.op EXCEPT ![o] = e] \in [Ops -> Operation]
  BY <1>1
<1> QED
  BY <1>1, <1>2 DEF State

LEMMA RecordOf ==
  ASSUME NEW s \in State
  PROVE  s = [op |-> s.op, log |-> s.log, pending |-> s.pending, out |-> s.out,
              writer |-> s.writer, client |-> s.client, server |-> s.server]
  BY DEF State

\* #request, refused or made, keeps a good state good (sftp.ts:451-491).
LEMMA RequestGood ==
  ASSUME NEW s \in State, Good(s), NEW o \in Ops, NEW at \in Stage, NEW kind \in ReqKind,
         s.client.connect # "idle"
  PROVE  Good(Request(s, o, at, kind)) /\ Request(s, o, at, kind).client = s.client
<1> DEFINE id == AllocateId(s)
           n == Len(s.log)
           entry == [op |-> o, kind |-> kind, id |-> id, promise |-> Waiting]
           went(req) == [s.op[o] EXCEPT !.at = at, !.req = req]
           t == Request(s, o, at, kind)
<1>1. n \in Nat /\ n + 1 \in Nat /\ None \in Nat
  BY LogFacts DEF None
<1>2. s.op[o] \in Operation
  BY OpTyped
<1>3. /\ went(None) \in Operation /\ went(None).req = None
      /\ went(n + 1) \in Operation /\ went(n + 1).req = n + 1
  <2>1. \A e \in Operation, r \in Nat :
          [e EXCEPT !.at = at, !.req = r] \in Operation /\ [e EXCEPT !.at = at, !.req = r].req = r
    BY OperationAt, ZenonT(60)
  <2> QED
    BY <1>1, <1>2, <2>1
<1> HIDE DEF went
<1>4. CASE Refuses(s, o, kind)
  <2> DEFINE was == went(None).refused
             flag == was \/ (kind = "CLOSE")
             new == [went(None) EXCEPT !.refused = flag]
  <2>1. t = [s EXCEPT !.op[o] = new]
    BY <1>4 DEF Request, went
  <2>2. flag \in BOOLEAN
    OBVIOUS
  <2> HIDE DEF flag
  <2>3. new \in Operation /\ new.req = None
    BY <1>3, <2>2, OperationFlag
  <2> HIDE DEF new
  <2>4. t \in State /\ t.op = [s.op EXCEPT ![o] = new] /\ s.op \in [Ops -> Operation]
    BY <2>1, <2>3, OpAt, OpTyped
  <2>5. /\ t.log = s.log /\ t.pending = s.pending /\ t.out = s.out
        /\ t.server = s.server /\ t.client = s.client
    BY <2>1 DEF State
  <2> HIDE DEF t
  <2>6. \A q \in Ops : t.op[q].req = None \/ t.op[q].req = s.op[q].req
    BY <2>3, <2>4
  <2>7. Good(t)
    BY <2>4, <2>5, <2>6, OpGood
  <2> QED
    BY <2>5, <2>7 DEF t
<1>5. CASE ~Refuses(s, o, kind)
  <2>1. ~s.client.closed /\ ~(Cardinality(Pending(s)) >= s.client.limit)
    BY <1>5 DEF Refuses
  <2>2. s.client.limit \in 1 .. IdSpace - 1
    BY IdFacts DEF State, Client
  <2>3. Cardinality(Pending(s)) < s.client.limit /\ Cardinality(Pending(s)) < IdSpace
    BY <2>1, <2>2, PendingFinite, IdFacts
  <2>4. id \in Id /\ id \notin Pending(s)
    BY <2>3, AllocatesFree
  <2> HIDE DEF id
  <2>5. (id + 1) % IdSpace \in Id
    BY <2>4, IdFacts, Wrapped DEF Id
  <2>6. entry \in Entry
    BY <2>4 DEF Entry, Promise, Waiting, None
  <2> HIDE DEF entry
  <2> DEFINE table == [next |-> (id + 1) % IdSpace, of |-> [s.pending.of EXCEPT ![id] = n + 1]]
  <2>7. /\ t = [s EXCEPT !.op[o] = went(n + 1), !.log = Append(s.log, entry),
                        !.pending = table, !.out = Append(s.out, n + 1)]
    BY <1>5 DEF Request, went, entry, id, State
  <2>8. table \in [next : Id, of : [Id -> Nat]]
    BY <1>1, <2>4, <2>5 DEF State
  <2> HIDE DEF table
  <2>9. /\ t.op = [s.op EXCEPT ![o] = went(n + 1)] /\ t.log = Append(s.log, entry)
        /\ t.pending = table /\ t.out = Append(s.out, n + 1)
        /\ t.client = s.client /\ t.server = s.server /\ t.writer = s.writer
    BY <2>7 DEF State
  <2>10. t \in State
    <3>1. Append(s.log, entry) \in Seq(Entry) /\ Append(s.out, n + 1) \in Seq(Nat)
      BY <1>1, <2>6 DEF State
    <3>2. t = [op |-> t.op, log |-> t.log, pending |-> t.pending, out |-> t.out,
               writer |-> t.writer, client |-> t.client, server |-> t.server]
      BY <2>7, RecordOf
    <3>3. t.op \in [Ops -> Operation]
      BY <1>3, <2>9, OpTyped
    <3> HIDE DEF t
    <3> QED
      BY <2>8, <2>9, <3>1, <3>2, <3>3 DEF State
  <2> HIDE DEF t
  <2>11. \A q \in Ops : t.op[q].req \in {None, s.op[q].req, n + 1}
    BY <1>3, <2>9 DEF State
  <2>12. entry.id = id /\ entry.promise = Waiting
    BY DEF entry
  <2>13. t.pending.of = [s.pending.of EXCEPT ![entry.id] = n + 1]
    BY <2>9, <2>12 DEF table
  <2>14. Good(t)
    BY <2>1, <2>3, <2>4, <2>6, <2>9, <2>10, <2>11, <2>12, <2>13, RequestMade
  <2> QED
    BY <2>9, <2>14 DEF t
<1> QED
  BY <1>4, <1>5

\* A request that is settled leaves the table.
LEMMA SettledGood ==
  ASSUME NEW s \in State, Good(s), NEW t \in State, NEW r \in 1 .. Len(s.log), Holds(s, r),
         NEW p \in Promise, p.state # "waiting",
         IF p.state = "answered" THEN p.of \in 1 .. Len(s.log) ELSE p.result = "none",
         Len(t.log) = Len(s.log),
         \A q \in 1 .. Len(s.log) : /\ t.log[q].id = s.log[q].id
                                    /\ t.log[q].promise = IF q = r THEN p ELSE s.log[q].promise,
         t.pending.of = [s.pending.of EXCEPT ![s.log[r].id] = None],
         t.out = s.out, t.client = s.client, t.server = s.server,
         s.client.connect # "idle",
         \A o \in Ops : t.op[o].req = s.op[o].req
  PROVE  Good(t)
<1> DEFINE n == Len(s.log)
           id == s.log[r].id
<1>1. /\ n \in Nat /\ id \in Id /\ s.pending.of[id] = r
      /\ \A q \in 1 .. n : s.log[q].id \in Id
      /\ \A i \in Id : s.pending.of[i] \in Nat /\ s.pending.of[i] <= n
  <2>1. n \in Nat /\ \A q \in 1 .. n : s.log[q].id \in Id
    BY LogFacts
  <2>2. \A i \in Id : s.pending.of[i] \in Nat /\ s.pending.of[i] <= n
    BY DEF State, Good, Bounded
  <2> QED
    BY <2>1, <2>2 DEF Holds
<1>2. \A i \in Id : t.pending.of[i] = IF i = id THEN None ELSE s.pending.of[i]
  BY <1>1 DEF State
<1>3. ~s.client.closed
  <2> SUFFICES ASSUME s.client.closed PROVE FALSE
    OBVIOUS
  <2>1. \A i \in Id : s.pending.of[i] = None
    BY DEF Good, InLine
  <2> HIDE DEF id
  <2>2. r = None
    BY <1>1, <2>1
  <2> QED
    BY <2>2 DEF None
<1>4. Bounded(t)
  <2>1. \A q \in 1 .. n :
          LET promise == t.log[q].promise
          IN  IF promise.state = "answered" THEN promise.of \in 1 .. n ELSE promise.result = "none"
    BY DEF Good, Bounded
  <2> QED
    BY <1>1, <1>2, <2>1 DEF Good, Bounded, None
<1>5. \A q \in 1 .. n : Holds(t, q) <=> Holds(s, q) /\ q # r
  BY <1>1, <1>2, SMTT(60) DEF Holds, None
<1>6. Exact(t)
  <2>1. \A q \in 1 .. n : t.log[q].promise.state = "waiting" <=> Holds(t, q)
    BY <1>5 DEF Good, Exact, WaitingHeld
  <2>2. \A i \in Id : t.pending.of[i] # None => t.log[t.pending.of[i]].id = i
    <3> TAKE i \in Id
    <3> HAVE t.pending.of[i] # None
    <3>1. t.pending.of[i] = s.pending.of[i] /\ s.pending.of[i] \in 1 .. n
      BY <1>1, <1>2 DEF None
    <3> QED
      BY <3>1 DEF Good, Exact, None
  <2>3. \A q \in 1 .. n : t.pending.of[t.log[q].id] # None => q <= t.pending.of[t.log[q].id]
    BY <1>1, <1>2 DEF Good, Exact
  <2> QED
    BY <2>1, <2>2, <2>3 DEF Exact, WaitingHeld
<1>7. InLine(t)
  BY <1>3 DEF Good, InLine
<1>8. Limited(t)
  <2>1. Pending(t) \subseteq Pending(s)
    BY <1>2 DEF Pending
  <2>2. Cardinality(Pending(t)) <= Cardinality(Pending(s))
    BY <2>1, PendingFinite, FS_Subset
  <2>3. s.client.limit \in Nat
    BY IdFacts DEF State, Client
  <2> QED
    BY <2>2, <2>3, PendingFinite DEF Good, Limited
<1> QED
  BY <1>4, <1>6, <1>7, <1>8 DEF Good, Fresh

LEMMA PromiseSet ==
  ASSUME NEW s \in State, NEW r \in 1 .. Len(s.log), NEW p \in Promise
  PROVE  LET told == [s.log EXCEPT ![r].promise = p] IN
         /\ told \in Seq(Entry) /\ Len(told) = Len(s.log)
         /\ \A q \in 1 .. Len(s.log) :
              /\ told[q].id = s.log[q].id /\ told[q].op = s.log[q].op /\ told[q].kind = s.log[q].kind
              /\ told[q].promise = IF q = r THEN p ELSE s.log[q].promise
<1>1. s.log \in Seq(Entry) /\ s.log[r] \in Entry
  BY LogFacts
<1>2. [s.log[r] EXCEPT !.promise = p] \in Entry
  BY <1>1 DEF Entry
<1>3. /\ [s.log[r] EXCEPT !.promise = p].id = s.log[r].id
      /\ [s.log[r] EXCEPT !.promise = p].op = s.log[r].op
      /\ [s.log[r] EXCEPT !.promise = p].kind = s.log[r].kind
      /\ [s.log[r] EXCEPT !.promise = p].promise = p
  BY <1>1 DEF Entry
<1> QED
  BY <1>1, <1>2, <1>3

LEMMA Started ==
  ASSUME NEW s \in State, Good(s), NEW r \in 1 .. Len(s.log)
  PROVE  s.client.connect # "idle"
<1>1. s.log # <<>>
  OBVIOUS
<1> QED
  BY <1>1 DEF Good, Fresh

\* A response settles whoever holds its id, or nobody (sftp.ts:611-621).
LEMMA DispatchedGood ==
  ASSUME NEW s \in State, Good(s), NEW answered \in 1 .. Len(s.log), NEW result \in Result
  PROVE  Good(Dispatched(s, answered, result))
<1> DEFINE id == s.log[answered].id
           r == s.pending.of[id]
           p == Response(result, answered)
           t == Dispatched(s, answered, result)
<1>1. CASE r = None
  BY <1>1 DEF Dispatched
<1>2. CASE r # None
  <2>1. id \in Id /\ Len(s.log) \in Nat
    BY LogFacts
  <2>2. r \in 1 .. Len(s.log) /\ s.log[r].id = id /\ Holds(s, r)
    <3>1. r \in Nat /\ r <= Len(s.log)
      BY <2>1 DEF State, Good, Bounded
    <3>2. s.log[r].id = id
      BY <1>2, <2>1 DEF Good, Exact
    <3> QED
      BY <1>2, <2>1, <3>1, <3>2 DEF Holds, None
  <2>3. p \in Promise /\ p.state = "answered" /\ p.of = answered
    BY <2>1 DEF Response, Promise
  <2> HIDE DEF p, r
  <2> DEFINE told == [s.log EXCEPT ![r].promise = p]
             table == [s.pending EXCEPT !.of[id] = None]
  <2>4. t = [s EXCEPT !.log = told, !.pending = table]
    BY <1>2 DEF Dispatched, p, r, State
  <2>5. /\ told \in Seq(Entry) /\ Len(told) = Len(s.log)
        /\ \A q \in 1 .. Len(s.log) : /\ told[q].id = s.log[q].id
                                      /\ told[q].promise = IF q = r THEN p ELSE s.log[q].promise
    BY <2>2, <2>3, PromiseSet
  <2>6. table \in [next : Id, of : [Id -> Nat]] /\ table.of = [s.pending.of EXCEPT ![id] = None]
    BY <2>1 DEF State, None
  <2> HIDE DEF told, table
  <2>7. /\ t \in State /\ t.log = told /\ t.pending = table /\ t.op = s.op /\ t.out = s.out
        /\ t.client = s.client /\ t.server = s.server
    BY <2>4, <2>5, <2>6 DEF State
  <2> HIDE DEF t
  <2>8. s.client.connect # "idle"
    BY Started
  <2>9. Good(t)
    <3>1. p.state # "waiting" /\ IF p.state = "answered" THEN p.of \in 1 .. Len(s.log)
                                                        ELSE p.result = "none"
      BY <2>3
    <3>2. t.pending.of = [s.pending.of EXCEPT ![s.log[r].id] = None]
      BY <2>2, <2>6, <2>7
    <3>3. /\ Len(t.log) = Len(s.log)
          /\ \A q \in 1 .. Len(s.log) : /\ t.log[q].id = s.log[q].id
                                        /\ t.log[q].promise = IF q = r THEN p ELSE s.log[q].promise
      BY <2>5, <2>7
    <3>4. \A q \in Ops : t.op[q].req = s.op[q].req
      BY <2>7
    <3> HIDE DEF id
    <3> QED
      BY <2>2, <2>3, <2>7, <2>8, <3>1, <3>2, <3>3, <3>4, SettledGood
  <2> QED
    BY <2>9 DEF t
<1> QED
  BY <1>1, <1>2

\* The first response decides the version, or ends the client.
LEMMA NegotiatedGood ==
  ASSUME NEW s \in State, Good(s), NEW result
  PROVE  Good(Negotiated(s, result))
<1>1. CASE result = "version"
  <2> DEFINE t == [s EXCEPT !.client.version = "resolved"]
  <2>1. /\ t \in State /\ t.log = s.log /\ t.pending = s.pending /\ t.out = s.out /\ t.op = s.op
        /\ t.server = s.server /\ t.client.closed = s.client.closed /\ t.client.limit = s.client.limit
        /\ t.client.connect = s.client.connect
    BY DEF State, Client
  <2> HIDE DEF t
  <2>2. Good(t)
    BY <2>1, OpGood
  <2> QED
    BY <1>1, <2>2 DEF Negotiated, t
<1>2. CASE result # "version"
  BY <1>2, TerminatedGood DEF Negotiated, Good, Exact
<1> QED
  BY <1>1, <1>2

\* The abort listener of a request takes it out of the table (sftp.ts:468-476).
LEMMA AbortedRequestGood ==
  ASSUME NEW s \in State, Good(s), NEW o \in Ops,
         s.op[o].req # None, Holds(s, s.op[o].req)
  PROVE  Good(AbortedRequest(s, o))
<1> DEFINE r == s.op[o].req
           id == s.log[r].id
           new == [s.op[o] EXCEPT !.aborted = TRUE]
           told == [s.log EXCEPT ![r].promise = Rejected]
           table == [s.pending EXCEPT !.of[id] = None]
           t == [s EXCEPT !.op[o] = new, !.pending = table, !.log = told]
<1>1. Len(s.log) \in Nat /\ r \in Nat /\ r <= Len(s.log)
  BY LogFacts, OpTyped DEF Good, Bounded, Operation
<1>2. r \in 1 .. Len(s.log)
  BY <1>1 DEF None
<1>3. id \in Id /\ Rejected \in Promise /\ Rejected.state = "rejected" /\ Rejected.result = "none"
  BY <1>2, LogFacts DEF Rejected, Promise, None
<1>4. s.log[r].promise.state = "waiting"
  BY <1>2 DEF Good, Exact
<1>5. AbortedRequest(s, o) = IF s.log[r].kind = "READ" THEN Terminated(t) ELSE t
  BY <1>4 DEF AbortedRequest, Settle, State, Operation
<1>6. new \in Operation /\ new.req = r
  BY OpTyped DEF Operation
<1> HIDE DEF r
<1>7. /\ told \in Seq(Entry) /\ Len(told) = Len(s.log)
      /\ \A q \in 1 .. Len(s.log) : /\ told[q].id = s.log[q].id
                                    /\ told[q].promise = IF q = r THEN Rejected ELSE s.log[q].promise
  BY <1>2, <1>3, PromiseSet
<1>8. table \in [next : Id, of : [Id -> Nat]] /\ table.of = [s.pending.of EXCEPT ![id] = None]
  BY <1>3 DEF State, None
<1> HIDE DEF told, table, new
<1>9. [s.op EXCEPT ![o] = new] \in [Ops -> Operation]
  BY <1>6, OpTyped
<1>10. /\ t \in State /\ t.log = told /\ t.pending = table /\ t.op = [s.op EXCEPT ![o] = new]
       /\ t.out = s.out /\ t.client = s.client /\ t.server = s.server
  BY <1>7, <1>8, <1>9 DEF State
<1>11. \A q \in Ops : t.op[q].req = s.op[q].req
  BY <1>6, <1>10, OpTyped DEF r
<1> HIDE DEF t
<1>12. s.client.connect # "idle"
  BY <1>2, Started
<1>13. Good(t)
  <2>1. Rejected.state # "waiting" /\ IF Rejected.state = "answered" THEN Rejected.of \in 1 .. Len(s.log)
                                                                   ELSE Rejected.result = "none"
    BY <1>3
  <2>2. t.pending.of = [s.pending.of EXCEPT ![s.log[r].id] = None]
    BY <1>8, <1>10
  <2>3. /\ Len(t.log) = Len(s.log)
        /\ \A q \in 1 .. Len(s.log) : /\ t.log[q].id = s.log[q].id
                                      /\ t.log[q].promise = IF q = r THEN Rejected ELSE s.log[q].promise
    BY <1>7, <1>10
  <2>4. Holds(s, r)
    BY DEF r
  <2> HIDE DEF id
  <2> QED
    BY <1>2, <1>3, <1>10, <1>11, <1>12, <2>1, <2>2, <2>3, <2>4, SettledGood
<1>14. t \in State /\ Bounded(t) /\ Fresh(t) /\ WaitingHeld(t)
  BY <1>13 DEF Good, Exact
<1>15. Good(Terminated(t))
  BY <1>13, <1>14, TerminatedGood
<1> QED
  BY <1>5, <1>13, <1>15

-----------------------------------------------------------------------------
(* The operations.                                                         *)

\* An operation that goes on with another field, but no other request.
LEMMA OpStep ==
  ASSUME NEW s \in State, Good(s), NEW o \in Ops, NEW e \in Operation,
         e.req = None \/ e.req = s.op[o].req, s.client.connect # "idle"
  PROVE  LET t == [s EXCEPT !.op[o] = e]
         IN  Good(t) /\ t \in State /\ t.client = s.client
<1> DEFINE t == [s EXCEPT !.op[o] = e]
<1>1. t \in State /\ t.op = [s.op EXCEPT ![o] = e] /\ s.op \in [Ops -> Operation]
  BY OpAt, OpTyped
<1>2. /\ t.log = s.log /\ t.pending = s.pending /\ t.out = s.out
      /\ t.server = s.server /\ t.client = s.client
  BY DEF State
<1> HIDE DEF t
<1>3. \A q \in Ops : t.op[q].req = None \/ t.op[q].req = s.op[q].req
  BY <1>1
<1>4. Good(t)
  BY <1>1, <1>2, <1>3, OpGood
<1> QED
  BY <1>1, <1>2, <1>4 DEF t

LEMMA CloseHandleGood ==
  ASSUME NEW s \in State, Good(s), NEW o \in Ops, NEW then \in {"done", "failed"},
         s.client.connect # "idle"
  PROVE  Good(CloseHandle(s, o, then))
<1>1. s.op[o] \in Operation /\ then \in Stage
  BY OpTyped DEF Stage
<1>2. CASE s.client.closed
  <2> DEFINE e == [s.op[o] EXCEPT !.at = then]
  <2>1. e \in Operation /\ e.req = s.op[o].req
    BY <1>1 DEF Operation
  <2>2. CloseHandle(s, o, then) = [s EXCEPT !.op[o] = e]
    BY <1>2 DEF CloseHandle, State
  <2> HIDE DEF e
  <2> QED
    BY <2>1, <2>2, OpStep
<1>3. CASE ~s.client.closed
  <2> DEFINE e == [s.op[o] EXCEPT !.then = then]
             t == [s EXCEPT !.op[o] = e]
  <2>1. e \in Operation /\ e.req = s.op[o].req
    BY <1>1 DEF Operation
  <2>2. CloseHandle(s, o, then) = Request(t, o, "close", "CLOSE")
    BY <1>3 DEF CloseHandle, State
  <2> HIDE DEF e
  <2>3. t \in State /\ Good(t) /\ t.client = s.client
    BY <2>1, OpStep
  <2> HIDE DEF t
  <2>4. "close" \in Stage /\ "CLOSE" \in ReqKind
    BY DEF Stage, ReqKind, Wanted
  <2> QED
    BY <2>2, <2>3, <2>4, RequestGood
<1> QED
  BY <1>2, <1>3

LEMMA EndClientGood ==
  ASSUME NEW s \in State, Good(s), NEW o \in Ops, NEW then \in {"done", "failed"},
         s.client.connect # "idle"
  PROVE  Good(EndClient(s, o, then))
<1> DEFINE t == Terminated(s)
           e == [t.op[o] EXCEPT !.at = "terminate", !.then = then]
<1>1. Good(t) /\ t \in State
  BY TerminatedGood DEF Good, Exact
<1>2. t.client.connect # "idle"
  <2>1. CASE s.client.closed
    BY <2>1 DEF Terminated
  <2>2. CASE ~s.client.closed
    BY <2>2, TerminatedFields
  <2> QED
    BY <2>1, <2>2
<1> HIDE DEF t
<1>3. e \in Operation /\ e.req = t.op[o].req
  <2>1. t.op[o] \in Operation
    BY <1>1, OpTyped
  <2>2. "terminate" \in Stage
    BY DEF Stage
  <2> QED
    BY <2>1, <2>2 DEF Operation
<1>4. EndClient(s, o, then) = [t EXCEPT !.op[o] = e]
  BY <1>1 DEF EndClient, State, t
<1> HIDE DEF e
<1> QED
  BY <1>1, <1>2, <1>3, <1>4, OpStep

LEMMA CleanupHandleGood ==
  ASSUME NEW s \in State, Good(s), NEW o \in Ops, s.client.connect # "idle"
  PROVE  Good(CleanupHandle(s, o))
  BY CloseHandleGood, EndClientGood DEF CleanupHandle

\* The variables after a step that leads to a state.
LEMMA Became ==
  ASSUME NEW t \in State, Become(t)
  PROVE  Now' = t
<1>1. t = [op |-> t.op, log |-> t.log, pending |-> t.pending, out |-> t.out,
           writer |-> t.writer, client |-> t.client, server |-> t.server]
  BY RecordOf
<1> QED
  BY <1>1 DEF Become, Now

LEMMA BecameGood ==
  ASSUME NEW t, Good(t), Become(t)
  PROVE  IInv'
<1>1. Now' = t
  BY Became DEF Good
<1> QED
  BY <1>1 DEF IInv

-----------------------------------------------------------------------------
(* The actions.                                                            *)

LEMMA NowFacts ==
  ASSUME IInv
  PROVE  /\ Good(Now) /\ Now \in State
         /\ op \in [Ops -> Operation] /\ (\A o \in Ops : op[o] \in Operation)
         /\ log \in Seq(Entry) /\ Len(log) \in Nat /\ DOMAIN log = 1 .. Len(log)
         /\ pending \in [next : Id, of : [Id -> Nat]]
         /\ out \in Seq(Nat) /\ Len(out) \in Nat
         /\ writer \in {"open", "aborting", "errored"} /\ client \in Client
         /\ server \in Server
<1>1. Good(Now) /\ Now \in State
  BY DEF IInv, Good
<1>2. /\ op \in [Ops -> Operation] /\ log \in Seq(Entry)
      /\ pending \in [next : Id, of : [Id -> Nat]] /\ out \in Seq(Nat)
      /\ writer \in {"open", "aborting", "errored"} /\ client \in Client
      /\ server \in Server
  BY <1>1 DEF Now, State
<1> QED
  BY <1>1, <1>2

\* An operation under way has a client that was connected.
LEMMA Busy ==
  ASSUME IInv, NEW o \in Ops, op[o].at # "idle"
  PROVE  client.connect # "idle"
  BY DEF IInv, Good, Fresh, Now

\* connect() goes on.
LEMMA ClientStep ==
  ASSUME IInv, NEW c \in Client, c.closed = client.closed, c.limit = client.limit,
         c.connect = "idle" => client.connect = "idle",
         client' = c, UNCHANGED <<op, log, pending, out, writer, server>>
  PROVE  IInv'
<1> DEFINE t == [Now EXCEPT !.client = c]
<1>1. Good(Now) /\ Now \in State
  BY NowFacts
<1>2. /\ t \in State /\ t.op = Now.op /\ t.log = Now.log /\ t.pending = Now.pending
      /\ t.out = Now.out /\ t.server = Now.server /\ t.client = c
  BY <1>1 DEF State
<1>3. Become(t) /\ Now.client = client
  BY DEF Become, Now
<1> HIDE DEF t
<1>4. Good(t)
  <2>1. /\ t.server.owed \subseteq Now.server.owed
        /\ t.client.closed = Now.client.closed /\ t.client.limit = Now.client.limit
        /\ t.client.connect = "idle" => Now.client.connect = "idle" /\ t.op = Now.op
        /\ \A o \in Ops : t.op[o].req = None \/ t.op[o].req = Now.op[o].req
    BY <1>2, <1>3
  <2> QED
    BY <1>1, <1>2, <2>1, OpGood
<1> QED
  BY <1>3, <1>4, BecameGood

\* An operation goes on without a request.
LEMMA OpOnly ==
  ASSUME IInv, NEW o \in Ops, NEW e \in Operation, e.req = op[o].req, op[o].at # "idle",
         op' = [op EXCEPT ![o] = e], UNCHANGED <<log, pending, out, writer, client, server>>
  PROVE  IInv'
<1> DEFINE t == [Now EXCEPT !.op[o] = e]
<1>1. Good(Now) /\ Now \in State /\ client.connect # "idle"
  BY NowFacts, Busy
<1>2. Now.client = client /\ Now.op = op
  BY DEF Now
<1>3. Become(t)
  BY DEF Become, Now
<1>4. Good(t)
  BY <1>1, <1>2, OpStep
<1> QED
  BY <1>3, <1>4, BecameGood

LEMMA ConnectKeeps == ASSUME IInv, Connect PROVE IInv'
<1>1. PICK limit \in Limits : client' = [client EXCEPT !.connect = "writing", !.limit = limit]
  BY DEF Connect
<1> DEFINE c == [client EXCEPT !.connect = "writing", !.limit = limit]
           t == [Now EXCEPT !.client = c, !.out = <<None>>]
<1>2. c \in Client /\ c.closed = client.closed /\ c.limit = limit /\ c.connect = "writing"
  BY NowFacts DEF Client
<1>3. Become(t)
  BY <1>1 DEF Connect, Become, Now
<1> HIDE DEF c
<1>4. /\ t.op = op /\ t.log = log /\ t.pending = pending /\ t.out = <<None>> /\ t.writer = writer
      /\ t.client = c /\ t.server = server
  BY DEF Now
<1>5. t \in State
  <2>1. <<None>> \in Seq(Nat)
    BY DEF None
  <2> QED
    BY <1>2, <2>1, NowFacts DEF State
<1> HIDE DEF t
<1>6. log = <<>> /\ (\A o \in Ops : op[o].at = "idle") /\ Pending(t) = Pending(Now)
  BY <1>4 DEF Connect, IInv, Good, Fresh, Now, Pending
<1>7. Cardinality(Pending(t)) = 0
  <2>1. \A id \in Id : pending.of[id] \in Nat /\ pending.of[id] <= 0
    BY <1>6, NowFacts DEF IInv, Good, Bounded, Now
  <2>2. Pending(t) = {}
    BY <1>4, <2>1 DEF Pending, None
  <2> QED
    BY <2>2, FS_EmptySet
<1>8. Bounded(t)
  <2>1. \A i \in 1 .. Len(t.out) : t.out[i] <= Len(t.log)
    BY <1>4, <1>6 DEF None
  <2> QED
    BY <1>4, <1>6, <2>1 DEF IInv, Good, Bounded, Now
<1>9. Exact(t)
  BY <1>4 DEF IInv, Good, Exact, WaitingHeld, Holds, Now
<1>10. InLine(t)
  <2>1. \A i \in 1 .. Len(t.out) : t.out[i] = (Len(t.log) - Len(t.out)) + i
    BY <1>4, <1>6 DEF None
  <2>2. client.closed => \A id \in Id : pending.of[id] = None
    BY DEF IInv, Good, InLine, Now
  <2> QED
    BY <1>2, <1>4, <2>1, <2>2 DEF InLine
<1>11. Limited(t)
  BY <1>1, <1>2, <1>4, <1>7, IdFacts DEF Limited
<1>12. Fresh(t)
  BY <1>2, <1>4 DEF Fresh
<1> QED
  BY <1>3, <1>5, <1>8, <1>9, <1>10, <1>11, <1>12, BecameGood DEF Good

LEMMA ConnectReturnsKeeps == ASSUME IInv, ConnectReturns PROVE IInv'
<1>1. CASE /\ client.version = "resolved" /\ ~client.aborted
           /\ client' = [client EXCEPT !.connect = "open"]
           /\ UNCHANGED <<op, log, pending, out, writer, server>>
  <2> DEFINE c == [client EXCEPT !.connect = "open"]
  <2>1. c \in Client /\ c.closed = client.closed /\ c.limit = client.limit /\ c.connect = "open"
    BY NowFacts DEF Client
  <2>2. client' = c
    BY <1>1
  <2> HIDE DEF c
  <2> QED
    BY <1>1, <2>1, <2>2, ClientStep
<1>2. CASE Become([Terminated(Now) EXCEPT !.client.connect = "closing"])
  <2> DEFINE s == Terminated(Now)
             t == [s EXCEPT !.client.connect = "closing"]
  <2>1. Good(s) /\ s \in State
    BY NowFacts, TerminatedGood DEF Good, Exact
  <2> HIDE DEF s
  <2>2. /\ t \in State /\ t.op = s.op /\ t.log = s.log /\ t.pending = s.pending /\ t.out = s.out
        /\ t.server = s.server /\ t.client.closed = s.client.closed
        /\ t.client.limit = s.client.limit /\ t.client.connect = "closing"
    BY <2>1 DEF State, Client
  <2>3. Become(t)
    BY <1>2 DEF s
  <2> HIDE DEF t
  <2>4. Good(t)
    BY <2>1, <2>2, OpGood
  <2> QED
    BY <2>3, <2>4, BecameGood
<1> QED
  BY <1>1, <1>2 DEF ConnectReturns

LEMMA ClientOnlyKeeps ==
  ASSUME IInv, ConnectFails \/ AbortConnect \/ ShutdownEnds PROVE IInv'
<1>1. CASE ConnectFails
  <2>1. /\ [client EXCEPT !.connect = "failed"] \in Client
        /\ [client EXCEPT !.connect = "failed"].closed = client.closed
        /\ [client EXCEPT !.connect = "failed"].limit = client.limit
        /\ [client EXCEPT !.connect = "failed"].connect # "idle"
    BY NowFacts DEF Client
  <2> QED
    BY <1>1, <2>1, ClientStep DEF ConnectFails
<1>2. CASE AbortConnect
  <2>1. /\ [client EXCEPT !.aborted = TRUE] \in Client
        /\ [client EXCEPT !.aborted = TRUE].closed = client.closed
        /\ [client EXCEPT !.aborted = TRUE].limit = client.limit
        /\ [client EXCEPT !.aborted = TRUE].connect = client.connect
    BY NowFacts DEF Client
  <2> QED
    BY <1>2, <2>1, ClientStep DEF AbortConnect
<1>3. CASE ShutdownEnds
  <2>1. /\ [client EXCEPT !.shutdown = "done"] \in Client
        /\ [client EXCEPT !.shutdown = "done"].closed = client.closed
        /\ [client EXCEPT !.shutdown = "done"].limit = client.limit
        /\ [client EXCEPT !.shutdown = "done"].connect = client.connect
    BY NowFacts DEF Client
  <2> QED
    BY <1>3, <2>1, ClientStep DEF ShutdownEnds
<1> QED
  BY <1>1, <1>2, <1>3

LEMMA TerminateKeeps == ASSUME IInv, Terminate PROVE IInv'
<1>1. Good(Terminated(Now))
  BY NowFacts, TerminatedGood DEF Good, Exact
<1> QED
  BY <1>1, BecameGood DEF Terminate

LEMMA WorkKind == ASSUME NEW kind \in Kind PROVE Work[kind] \in ReqKind
  BY DEF Kind, Work, ReqKind, Wanted

LEMMA StartKeeps == ASSUME IInv, NEW o \in Ops, Start(o) PROVE IInv'
<1>1. PICK kind \in Kinds[o] :
        LET started == [Now EXCEPT !.op[o].kind = kind] IN
        Become(IF kind = "stat" THEN Request(started, o, "work", Work[kind])
                                ELSE Request(started, o, "open", "OPEN"))
  BY DEF Start
<1> DEFINE e == [op[o] EXCEPT !.kind = kind]
           s == [Now EXCEPT !.op[o] = e]
<1>2. kind \in Kind
  BY ClientAssumption
<1>3. e \in Operation /\ e.req = op[o].req
  BY <1>2, NowFacts DEF Operation
<1>4. [Now EXCEPT !.op[o].kind = kind] = s
  BY DEF Now
<1> HIDE DEF e
<1>5. Good(s) /\ s \in State /\ s.client = client
  <2>1. Now.op = op /\ Now.client = client
    BY DEF Now
  <2> QED
    BY <1>3, <2>1, NowFacts, OpStep DEF Start
<1> HIDE DEF s
<1>6. s.client.connect # "idle"
  BY <1>5 DEF Start
<1>7. Work[kind] \in ReqKind /\ "OPEN" \in ReqKind /\ "work" \in Stage /\ "open" \in Stage
  BY <1>2, WorkKind DEF ReqKind, Wanted, Stage
<1>8. Good(Request(s, o, "work", Work[kind])) /\ Good(Request(s, o, "open", "OPEN"))
  BY <1>5, <1>6, <1>7, RequestGood
<1> QED
  BY <1>1, <1>4, <1>8, BecameGood

LEMMA ContinueKeeps == ASSUME IInv, NEW o \in Ops, Continue(o) PROVE IInv'
<1> DEFINE more == op[o].work + 1
           e == [op[o] EXCEPT !.work = more]
           s == [Now EXCEPT !.op[o] = e]
<1>1. Become(Request(s, o, "work", Work[op[o].kind])) /\ op[o].at = "ready" /\ op[o].work < MaxWork
  BY DEF Continue, Now
<1>2. more \in 0 .. MaxWork
  <2>1. op[o].work \in 0 .. MaxWork
    BY NowFacts DEF Operation
  <2> QED
    BY <1>1, <2>1, ClientAssumption
<1> HIDE DEF more
<1>3. e \in Operation /\ e.req = op[o].req /\ op[o].kind \in Kind
  BY <1>2, NowFacts DEF Operation
<1>4. Now.op = op /\ Now.client = client /\ client.connect # "idle"
  BY <1>1, Busy DEF Now
<1> HIDE DEF e
<1>5. Good(s) /\ s \in State /\ s.client = client
  BY <1>3, <1>4, NowFacts, OpStep
<1> HIDE DEF s
<1>6. Work[op[o].kind] \in ReqKind /\ "work" \in Stage
  BY <1>3, WorkKind DEF Stage
<1>7. Good(Request(s, o, "work", Work[op[o].kind]))
  BY <1>4, <1>5, <1>6, RequestGood
<1> QED
  BY <1>1, <1>7, BecameGood

\* What a request that was made returned.
LEMMA AnsweredFor ==
  ASSUME IInv, NEW o \in Ops, Outcome(o) = "good"
  PROVE  /\ op[o].req \in 1 .. Len(log)
         /\ log[op[o].req].promise.of \in 1 .. Len(log)
<1> DEFINE r == op[o].req
<1>1. r # None /\ log[r].promise.result = Wanted[log[r].kind]
  BY DEF Outcome, None
<1>2. r \in 1 .. Len(log)
  <2>1. r \in Nat /\ r <= Len(log) /\ Len(log) \in Nat
    BY NowFacts DEF Good, Bounded, Now, Operation
  <2> QED
    BY <1>1, <2>1 DEF None
<1>3. log[r] \in Entry
  BY <1>2, NowFacts
<1>4. log[r].promise.result # "none"
  BY <1>1, <1>3 DEF Entry, ReqKind, Wanted
<1>5. log[r].promise.state = "answered" /\ log[r].promise.of \in 1 .. Len(log)
  BY <1>2, <1>4, NowFacts DEF Good, Bounded, Now
<1> QED
  BY <1>2, <1>5

LEMMA OpenedKeeps == ASSUME IInv, NEW o \in Ops, Opened(o) PROVE IInv'
<1>1. op[o] \in Operation /\ op[o].at = "open" /\ op \in [Ops -> Operation]
  BY NowFacts DEF Opened
<1>2. CASE Outcome(o) = "good"
  <2> DEFINE h == log[log[op[o].req].promise.of].op
             e == [op[o] EXCEPT !.at = "ready", !.handle = h]
  <2>1. h \in Ops
    <3>1. log[op[o].req].promise.of \in 1 .. Len(log)
      BY <1>2, AnsweredFor
    <3>2. \A r \in 1 .. Len(log) : log[r] \in Entry
      BY NowFacts
    <3> QED
      BY <3>1, <3>2 DEF Entry
  <2>2. op' = [op EXCEPT ![o] = e]
    BY <1>1, <1>2 DEF Opened
  <2> HIDE DEF h
  <2>3. e \in Operation /\ e.req = op[o].req
    BY <1>1, <2>1 DEF Operation, Stage
  <2> HIDE DEF e
  <2> QED
    BY <1>1, <2>2, <2>3, OpOnly DEF Opened
<1>3. CASE Outcome(o) # "good"
  <2> DEFINE e == [op[o] EXCEPT !.at = "failed"]
  <2>1. op' = [op EXCEPT ![o] = e]
    BY <1>1, <1>3 DEF Opened
  <2>2. e \in Operation /\ e.req = op[o].req
    BY <1>1 DEF Operation, Stage
  <2> HIDE DEF e
  <2> QED
    BY <1>1, <2>1, <2>2, OpOnly DEF Opened
<1> QED
  BY <1>2, <1>3

LEMMA SettledOpKeeps == ASSUME IInv, NEW o \in Ops, Closed(o) \/ Ended(o) PROVE IInv'
<1>1. op[o] \in Operation /\ op[o].at # "idle" /\ op \in [Ops -> Operation]
  BY NowFacts DEF Closed, Ended
<1>2. PICK at \in {"done", "failed"} : op' = [op EXCEPT ![o].at = at]
  BY <1>1 DEF Closed, Ended, Operation
<1> DEFINE e == [op[o] EXCEPT !.at = at]
<1>3. op' = [op EXCEPT ![o] = e]
  BY <1>1, <1>2
<1>4. e \in Operation /\ e.req = op[o].req
  BY <1>1 DEF Operation, Stage
<1>5. UNCHANGED <<log, pending, out, writer, client, server>>
  BY DEF Closed, Ended
<1> HIDE DEF e
<1> QED
  BY <1>1, <1>3, <1>4, <1>5, OpOnly

\* An operation moves on, with a state to become.
LEMMA OpMoves ==
  ASSUME IInv, NEW o \in Ops, op[o].at # "idle"
  PROVE  /\ \A at \in Stage : Good([Now EXCEPT !.op[o].at = at])
         /\ \A then \in {"done", "failed"} :
              Good(CloseHandle(Now, o, then)) /\ Good(EndClient(Now, o, then))
         /\ Good(CleanupHandle(Now, o))
<1>1. Good(Now) /\ Now \in State /\ op[o] \in Operation
  BY NowFacts
<1>2. Now.client.connect # "idle" /\ Now.op = op
  BY Busy DEF Now
<1>3. ASSUME NEW at \in Stage PROVE Good([Now EXCEPT !.op[o].at = at])
  <2> DEFINE e == [op[o] EXCEPT !.at = at]
  <2>1. e \in Operation /\ e.req = op[o].req
    BY <1>1 DEF Operation
  <2>2. [Now EXCEPT !.op[o].at = at] = [Now EXCEPT !.op[o] = e]
    BY DEF Now
  <2> HIDE DEF e
  <2> QED
    BY <1>1, <1>2, <2>1, <2>2, OpStep
<1> QED
  BY <1>1, <1>2, <1>3, CloseHandleGood, EndClientGood, CleanupHandleGood

LEMMA WorkedKeeps == ASSUME IInv, NEW o \in Ops, Worked(o) PROVE IInv'
<1>1. op[o].at # "idle" /\ {"done", "failed", "ready"} \subseteq Stage
  BY DEF Worked, Stage
<1>2. CASE op[o].kind = "stat"
  <2>1. Become([Now EXCEPT !.op[o].at = IF Outcome(o) = "good" THEN "done" ELSE "failed"])
    BY <1>2 DEF Worked
  <2> QED
    BY <1>1, <2>1, OpMoves, BecameGood
<1>3. CASE op[o].kind # "stat" /\ Outcome(o) = "good"
  <2>1. Become([Now EXCEPT !.op[o].at = "ready"])
    BY <1>3 DEF Worked
  <2> QED
    BY <1>1, <2>1, OpMoves, BecameGood
<1>4. CASE op[o].kind \in {"readDir", "download"} /\ Outcome(o) = "eof"
  <2>1. Become(CloseHandle(Now, o, "done")) \/ Become(EndClient(Now, o, "done"))
    BY <1>4 DEF Worked
  <2> QED
    BY <1>1, <2>1, OpMoves, BecameGood
<1>5. CASE /\ op[o].kind # "stat" /\ Outcome(o) # "good"
           /\ ~(op[o].kind \in {"readDir", "download"} /\ Outcome(o) = "eof")
  <2>1. Become(CleanupHandle(Now, o))
    BY <1>5 DEF Worked
  <2> QED
    BY <1>1, <2>1, OpMoves, BecameGood
<1> QED
  BY <1>2, <1>3, <1>4, <1>5

LEMMA UserEndsKeeps ==
  ASSUME IInv, NEW o \in Ops, SourceEnds(o) \/ Stop(o) PROVE IInv'
<1>1. op[o].at # "idle"
  BY DEF SourceEnds, Stop
<1>2. \/ Become(CloseHandle(Now, o, "done")) \/ Become(CleanupHandle(Now, o))
      \/ Become(EndClient(Now, o, "done"))
  BY DEF SourceEnds, Stop
<1> QED
  BY <1>1, <1>2, OpMoves, BecameGood

LEMMA AbortKeeps == ASSUME IInv, NEW o \in Ops, Abort(o) PROVE IInv'
<1>1. op[o] \in Operation /\ op[o].at # "idle" /\ Good(Now) /\ Now \in State
  BY NowFacts DEF Abort
<1>2. Now.op = op /\ Now.log = log /\ Now.pending = pending /\ Now.client = client
  BY DEF Now
<1>3. CASE Listening(o)
  <2>1. Good(AbortedRequest(Now, o))
    BY <1>1, <1>2, <1>3, AbortedRequestGood DEF Listening, Holds
  <2> QED
    BY <1>3, <2>1, BecameGood DEF Abort
<1>4. CASE ~Listening(o)
  <2> DEFINE e == [op[o] EXCEPT !.aborted = TRUE]
  <2>1. e \in Operation /\ e.req = op[o].req
    BY <1>1 DEF Operation
  <2>2. Become([Now EXCEPT !.op[o] = e])
    BY <1>4 DEF Abort, Now
  <2> HIDE DEF e
  <2>3. Good([Now EXCEPT !.op[o] = e])
    BY <1>1, <1>2, <2>1, Busy, OpStep
  <2> QED
    BY <2>2, <2>3, BecameGood
<1> QED
  BY <1>3, <1>4

\* The writer moves on: it holds fewer packets, and more may be owed.
LEMMA LineGood ==
  ASSUME NEW s \in State, Good(s), NEW t \in State,
         t.op = s.op, t.log = s.log, t.pending = s.pending,
         \A i \in 1 .. Len(t.out) : t.out[i] <= Len(t.log),
         t.server.owed \subseteq 0 .. Len(s.log),
         s.client.closed \/ \A i \in 1 .. Len(t.out) : t.out[i] = (Len(t.log) - Len(t.out)) + i,
         t.client.closed = s.client.closed, t.client.limit = s.client.limit,
         t.client.connect = "idle" => s.client.connect = "idle"
  PROVE  Good(t)
<1>1. Pending(t) = Pending(s)
  BY DEF Pending
<1>2. Exact(t)
  BY DEF Good, Exact, WaitingHeld, Holds
<1>3. Bounded(t)
  BY DEF Good, Bounded
<1>4. Fresh(t)
  BY DEF Good, Fresh
<1>5. InLine(t) /\ Limited(t)
  BY <1>1 DEF Good, InLine, Limited
<1> QED
  BY <1>2, <1>3, <1>4, <1>5 DEF Good

LEMMA Shorter ==
  ASSUME NEW q \in Seq(Nat), q # <<>>
  PROVE  /\ Head(q) = q[1] /\ Tail(q) \in Seq(Nat) /\ Len(Tail(q)) = Len(q) - 1
         /\ Len(q) \in Nat /\ Len(q) >= 1
         /\ \A i \in 1 .. Len(q) - 1 : Tail(q)[i] = q[i + 1] /\ i + 1 \in 1 .. Len(q)
         /\ \A i \in 1 .. Len(q) : q[i] \in Nat
  OBVIOUS

LEMMA SentKeeps == ASSUME IInv, Sent PROVE IInv'
<1>1. Good(Now) /\ Now \in State /\ out \in Seq(Nat) /\ out # <<>> /\ Len(log) \in Nat
  BY NowFacts DEF Sent
<1>2. /\ Now.op = op /\ Now.log = log /\ Now.pending = pending /\ Now.out = out
      /\ Now.writer = writer /\ Now.client = client /\ Now.server = server
  BY DEF Now
<1> DEFINE has == [server EXCEPT !.got = TRUE,
                     !.owed = IF client.closed THEN @ ELSE @ \cup {Head(out)}]
           t == [Now EXCEPT !.server = has]
<1>3. Become(t)
  BY DEF Sent, Become, Now
<1>4. Head(out) = out[1] /\ 1 \in 1 .. Len(out) /\ out[1] \in Nat
  BY <1>1, Shorter
<1>5. Head(out) \in 0 .. Len(log)
  BY <1>1, <1>2, <1>4 DEF Good, Bounded
<1>6. has \in Server /\ has.owed \subseteq 0 .. Len(log)
  <2>1. server.owed \subseteq 0 .. Len(log)
    BY <1>1, <1>2 DEF Good, Bounded
  <2>2. server \in Server
    BY NowFacts
  <2>3. has = [server EXCEPT !.got = TRUE, !.owed = has.owed]
    BY <2>2 DEF Server
  <2>4. has.owed \subseteq server.owed \cup {Head(out)}
    BY <2>2 DEF Server
  <2> HIDE DEF has
  <2>5. has.owed \subseteq 0 .. Len(log)
    BY <1>5, <2>1, <2>4
  <2>6. has.owed \subseteq Nat
    BY <1>1, <2>5
  <2> QED
    BY <2>2, <2>3, <2>5, <2>6 DEF Server
<1> HIDE DEF has
<1>7. /\ t \in State /\ t.op = Now.op /\ t.log = Now.log /\ t.pending = Now.pending
      /\ t.out = Now.out /\ t.client = Now.client /\ t.server = has
  BY <1>1, <1>6 DEF State
<1> HIDE DEF t
<1>8. Good(t)
  <2>1. \A i \in 1 .. Len(t.out) : t.out[i] <= Len(t.log)
    BY <1>1, <1>7 DEF Good, Bounded
  <2>2. t.server.owed \subseteq 0 .. Len(Now.log)
    BY <1>2, <1>6, <1>7
  <2>3. Now.client.closed \/ \A i \in 1 .. Len(t.out) : t.out[i] = (Len(t.log) - Len(t.out)) + i
    BY <1>1, <1>7 DEF Good, InLine
  <2> QED
    BY <1>1, <1>7, <2>1, <2>2, <2>3, LineGood
<1> QED
  BY <1>3, <1>8, BecameGood

LEMMA WrittenKeeps == ASSUME IInv, Written PROVE IInv'
<1>1. Good(Now) /\ Now \in State /\ out \in Seq(Nat) /\ out # <<>> /\ Len(log) \in Nat
  BY NowFacts DEF Written
<1>2. /\ Now.op = op /\ Now.log = log /\ Now.pending = pending /\ Now.out = out
      /\ Now.writer = writer /\ Now.client = client /\ Now.server = server
  BY DEF Now
<1> DEFINE line == IF writer = "aborting" THEN <<>> ELSE Tail(out)
           state == IF writer = "aborting" THEN "errored" ELSE writer
           c == [client EXCEPT !.connect = IF @ = "writing" THEN "version" ELSE @]
           has == [server EXCEPT !.got = FALSE]
           t == [Now EXCEPT !.out = line, !.writer = state, !.client = c, !.server = has]
<1>3. Become(t)
  BY DEF Written, Become, Now
<1>4. /\ c \in Client /\ c.closed = client.closed /\ c.limit = client.limit
      /\ c.connect = "idle" => client.connect = "idle"
  BY NowFacts DEF Client
<1>5. /\ Head(out) = out[1] /\ Tail(out) \in Seq(Nat) /\ Len(Tail(out)) = Len(out) - 1
      /\ Len(out) \in Nat /\ Len(out) >= 1
      /\ \A i \in 1 .. Len(out) - 1 : Tail(out)[i] = out[i + 1] /\ i + 1 \in 1 .. Len(out)
      /\ \A i \in 1 .. Len(out) : out[i] \in Nat
  BY <1>1, Shorter
<1>6. \A i \in 1 .. Len(out) : out[i] \in Nat /\ out[i] <= Len(log)
  BY <1>1, <1>2, <1>5 DEF Good, Bounded
<1>8. has \in Server /\ has.owed \subseteq 0 .. Len(log)
  <2>1. server.owed \subseteq 0 .. Len(log) /\ server \in Server
    BY <1>1, <1>2, NowFacts DEF Good, Bounded
  <2> QED
    BY <2>1 DEF Server
<1>9. line \in Seq(Nat) /\ \A i \in 1 .. Len(line) : line[i] <= Len(log)
  <2>1. CASE writer = "aborting"
    BY <2>1
  <2>2. CASE writer # "aborting"
    <3>1. line = Tail(out)
      BY <2>2
    <3> HIDE DEF line
    <3> QED
      BY <1>5, <1>6, <3>1
  <2> QED
    BY <2>1, <2>2
<1>10. client.closed \/ \A i \in 1 .. Len(line) : line[i] = (Len(log) - Len(line)) + i
  <2> SUFFICES ASSUME ~client.closed, NEW i \in 1 .. Len(line)
               PROVE  line[i] = (Len(log) - Len(line)) + i
    OBVIOUS
  <2>1. \A j \in 1 .. Len(out) : out[j] = (Len(log) - Len(out)) + j
    BY <1>1, <1>2 DEF Good, InLine
  <2>2. CASE writer = "aborting"
    BY <2>2
  <2>3. CASE writer # "aborting"
    <3>1. line = Tail(out)
      BY <2>3
    <3> HIDE DEF line
    <3>2. i \in 1 .. Len(out) - 1
      BY <1>5, <3>1
    <3>3. i \in Nat /\ line[i] = (Len(log) - Len(out)) + (i + 1)
      BY <1>5, <2>1, <3>1, <3>2
    <3>4. Len(line) = Len(out) - 1
      BY <1>5, <3>1
    <3> HIDE DEF line
    <3> QED
      BY <1>1, <1>5, <3>3, <3>4
  <2> QED
    BY <2>2, <2>3
<1>11. state \in {"open", "aborting", "errored"}
  BY NowFacts
<1> HIDE DEF line, state, c, has
<1>12. /\ t \in State /\ t.op = Now.op /\ t.log = Now.log /\ t.pending = Now.pending
       /\ t.out = line /\ t.client = c /\ t.server = has
  BY <1>1, <1>4, <1>8, <1>9, <1>11 DEF State
<1> HIDE DEF t
<1>13. Good(t)
  <2>1. \A i \in 1 .. Len(t.out) : t.out[i] <= Len(t.log)
    BY <1>2, <1>9, <1>12
  <2>2. t.server.owed \subseteq 0 .. Len(Now.log)
    BY <1>2, <1>8, <1>12
  <2>3. Now.client.closed \/ \A i \in 1 .. Len(t.out) : t.out[i] = (Len(t.log) - Len(t.out)) + i
    BY <1>2, <1>10, <1>12
  <2>4. /\ t.client.closed = Now.client.closed /\ t.client.limit = Now.client.limit
        /\ t.client.connect = "idle" => Now.client.connect = "idle"
    BY <1>2, <1>4, <1>12
  <2> QED
    BY <1>1, <1>12, <2>1, <2>2, <2>3, <2>4, LineGood
<1> QED
  BY <1>3, <1>13, BecameGood

LEMMA LineGone ==
  ASSUME NEW s \in State, NEW c \in Client, NEW has \in Server
  PROVE  [s EXCEPT !.out = <<>>, !.writer = "errored", !.server = has, !.client = c] \in State
<1>1. <<>> \in Seq(Nat) /\ "errored" \in {"open", "aborting", "errored"}
  OBVIOUS
<1> QED
  BY <1>1 DEF State

\* The id of the packet whose write failed is free.
LEMMA Freed ==
  ASSUME IInv, out # <<>>
  PROVE  LET first == Head(out)
             freed == IF first = None THEN Now
                      ELSE [Now EXCEPT !.pending.of[log[first].id] = None]
         IN  /\ freed \in State /\ freed.op = op /\ freed.log = log /\ freed.out = out
             /\ freed.client = client /\ freed.server = server
             /\ \A id \in Id : freed.pending.of[id] =
                   IF first # None /\ id = log[first].id THEN None ELSE pending.of[id]
             /\ first = out[1] /\ 1 \in 1 .. Len(out) /\ first \in Nat /\ first <= Len(log)
             /\ first # None => first \in 1 .. Len(log)
<1> DEFINE first == Head(out)
           freed == IF first = None THEN Now
                    ELSE [Now EXCEPT !.pending.of[log[first].id] = None]
<1>1. /\ Good(Now) /\ Now \in State /\ out \in Seq(Nat) /\ Len(log) \in Nat
      /\ \A r \in 1 .. Len(log) : log[r] \in Entry
  BY NowFacts
<1>2. /\ Now.op = op /\ Now.log = log /\ Now.pending = pending /\ Now.out = out
      /\ Now.client = client /\ Now.server = server
  BY DEF Now
<1>3. first = out[1] /\ 1 \in 1 .. Len(out) /\ first \in Nat /\ first <= Len(log)
  <2>1. first = out[1] /\ 1 \in 1 .. Len(out) /\ first \in Nat
    BY <1>1, Shorter
  <2> QED
    BY <1>1, <1>2, <2>1 DEF Good, Bounded
<1> HIDE DEF first
<1>4. first # None => first \in 1 .. Len(log)
  BY <1>1, <1>3 DEF None
<1>5. first # None => log[first].id \in Id
  BY <1>1, <1>4 DEF Entry
<1>6. CASE first = None
  BY <1>1, <1>2, <1>3, <1>4, <1>6 DEF first
<1>7. CASE first # None
  <2> DEFINE table == [pending EXCEPT !.of[log[first].id] = None]
  <2>1. table \in [next : Id, of : [Id -> Nat]]
    BY NowFacts DEF None
  <2>2. \A id \in Id : table.of[id] = IF id = log[first].id THEN None ELSE pending.of[id]
    BY <1>5, <1>7, NowFacts
  <2>3. freed = [Now EXCEPT !.pending = table]
    BY <1>2, <1>7 DEF Now
  <2> HIDE DEF table, freed
  <2>4. /\ freed \in State /\ freed.op = op /\ freed.log = log /\ freed.out = out
        /\ freed.client = client /\ freed.server = server /\ freed.pending = table
    BY <1>1, <1>2, <2>1, <2>3 DEF State
  <2> QED
    BY <1>3, <1>4, <1>7, <2>2, <2>4 DEF first, freed
<1> QED
  BY <1>6, <1>7

\* A write that fails takes with it all that is in line, and frees an id whose
\* holder is in line as well, so nobody else loses a place (sftp.ts:481-489).
LEMMA WriteFailsKeeps == ASSUME IInv, WriteFails PROVE IInv'
<1> DEFINE n == Len(log)
           queued == {out[i] : i \in DOMAIN out}
           first == Head(out)
           freed == IF first = None THEN Now
                    ELSE [Now EXCEPT !.pending.of[log[first].id] = None]
           told == [freed EXCEPT !.log = Rejecting(freed, queued)]
           ended == Terminated(told)
           t == [ended EXCEPT !.out = <<>>, !.writer = "errored", !.server.got = FALSE,
                   !.client.connect = IF @ = "writing" THEN "closing" ELSE @]
<1>1. Become(t) /\ out # <<>>
  BY DEF WriteFails
<1>2. /\ Good(Now) /\ Now \in State /\ out \in Seq(Nat) /\ n \in Nat /\ Len(out) \in Nat
      /\ DOMAIN out = 1 .. Len(out) /\ log \in Seq(Entry)
      /\ \A r \in 1 .. n : log[r] \in Entry /\ log[r].id \in Id
  <2>1. /\ Good(Now) /\ Now \in State /\ out \in Seq(Nat) /\ n \in Nat /\ Len(out) \in Nat
        /\ log \in Seq(Entry)
    BY NowFacts
  <2>2. DOMAIN out = 1 .. Len(out)
    BY <2>1
  <2>3. \A r \in 1 .. n : log[r] \in Entry
    BY <2>1
  <2> QED
    BY <2>1, <2>2, <2>3 DEF Entry
<1>3. /\ Now.op = op /\ Now.log = log /\ Now.pending = pending /\ Now.out = out
      /\ Now.writer = writer /\ Now.client = client /\ Now.server = server
  BY DEF Now
<1>6. /\ freed \in State /\ freed.op = op /\ freed.log = log /\ freed.out = out
      /\ freed.client = client /\ freed.server = server
      /\ \A id \in Id : freed.pending.of[id] =
            IF first # None /\ id = log[first].id THEN None ELSE pending.of[id]
      /\ first = out[1] /\ 1 \in 1 .. Len(out) /\ first \in Nat /\ first <= n
      /\ first # None => first \in 1 .. n
  BY <1>1, Freed
<1>4. first = out[1] /\ 1 \in 1 .. Len(out) /\ first \in Nat /\ first <= n
  BY <1>6
<1>5. first # None => first \in 1 .. n /\ log[first].id \in Id
  BY <1>2, <1>6
<1> HIDE DEF first, queued, freed
<1> DEFINE rejected == Rejecting(freed, queued)
<1>7. /\ rejected \in Seq(Entry) /\ Len(rejected) = n
      /\ \A r \in 1 .. n : /\ rejected[r].id = log[r].id
                           /\ rejected[r].promise = IF r \in queued THEN Settle(log[r].promise, Rejected)
                                                                    ELSE log[r].promise
  BY <1>6, RejectingFields
<1> HIDE DEF rejected
<1>8. /\ told \in State /\ told.op = op /\ told.log = rejected /\ told.out = out
      /\ told.client = client /\ told.server = server /\ told.pending = freed.pending
  BY <1>6, <1>7 DEF State, rejected
<1> HIDE DEF told
<1>9. Bounded(told)
  <2>1. \A r \in 1 .. n :
          LET promise == rejected[r].promise
          IN  IF promise.state = "answered" THEN promise.of \in 1 .. n ELSE promise.result = "none"
    BY <1>2, <1>3, <1>7 DEF Good, Bounded, Settle, Rejected
  <2>2. \A id \in Id : told.pending.of[id] <= n
    BY <1>2, <1>3, <1>6, <1>8 DEF Good, Bounded, None
  <2> QED
    BY <1>2, <1>3, <1>7, <1>8, <2>1, <2>2 DEF Good, Bounded
<1>10. Fresh(told)
  <2>1. Fresh(Now)
    BY <1>2 DEF Good
  <2>2. log = <<>> => rejected = <<>>
    <3>1. log = <<>> => n = 0
      OBVIOUS
    <3> QED
      BY <1>7, <3>1
  <2> QED
    BY <1>3, <1>8, <2>1, <2>2 DEF Fresh
<1>11. WaitingHeld(told)
  <2> SUFFICES ASSUME NEW r \in 1 .. n, told.log[r].promise.state = "waiting"
               PROVE  told.pending.of[told.log[r].id] = r
    BY <1>7, <1>8 DEF WaitingHeld, Holds
  <2>1. r \notin queued /\ log[r].promise.state = "waiting" /\ told.log[r].id = log[r].id
    BY <1>7, <1>8 DEF Settle, Rejected
  <2>2. pending.of[log[r].id] = r
    BY <1>2, <1>3, <2>1 DEF Good, Exact, WaitingHeld, Holds
  <2>3. ~(first # None /\ log[r].id = log[first].id)
    <3> SUFFICES ASSUME first # None, log[r].id = log[first].id PROVE FALSE
      OBVIOUS
    <3>1. ~client.closed
      BY <1>2, <1>3, <2>2 DEF Good, InLine, None
    <3>2. first <= r
      BY <1>2, <1>3, <1>5, <2>2 DEF Good, Exact, None
    <3>3. \A i \in 1 .. Len(out) : out[i] = (n - Len(out)) + i
      BY <1>2, <1>3, <3>1 DEF Good, InLine
    <3> DEFINE i == r - (n - Len(out))
    <3>4. i \in 1 .. Len(out) /\ (n - Len(out)) + i = r
      BY <1>2, <1>4, <3>2, <3>3
    <3>5. out[i] = r
      BY <3>3, <3>4
    <3> QED
      BY <1>2, <2>1, <3>4, <3>5 DEF queued
  <2> QED
    BY <1>2, <1>6, <1>8, <2>1, <2>2, <2>3
<1>12. told.client.closed => Good(told)
  <2> HAVE told.client.closed
  <2>1. \A id \in Id : told.pending.of[id] = None
    BY <1>2, <1>3, <1>6, <1>8 DEF Good, InLine
  <2>2. NoneWaits(told)
    <3>1. \A r \in 1 .. Len(told.log) : told.log[r].id \in Id
      BY <1>8, LogFacts
    <3> QED
      BY <1>11, <2>1, <3>1 DEF NoneWaits, WaitingHeld, Holds, None
  <2>3. Exact(told) /\ Cardinality(Pending(told)) = 0
    BY <1>8, <2>1, <2>2, EmptyTable
  <2>4. told.client.limit \in 1 .. IdSpace - 1
    BY <1>8, IdFacts DEF State, Client
  <2> QED
    BY <1>8, <1>9, <1>10, <2>1, <2>3, <2>4, IdFacts DEF Good, InLine, Limited
<1>13. Good(ended) /\ ended.client.closed
  BY <1>8, <1>9, <1>10, <1>11, <1>12, TerminatedGood
<1> HIDE DEF ended
<1>14. ended \in State /\ Len(ended.log) \in Nat
  BY <1>13, LogFacts DEF Good
<1> DEFINE c == [ended.client EXCEPT !.connect = IF @ = "writing" THEN "closing" ELSE @]
           has == [ended.server EXCEPT !.got = FALSE]
<1>a. has \in Server /\ has.owed = ended.server.owed
  BY <1>14 DEF State, Server
<1>15. /\ c \in Client /\ c.closed = ended.client.closed /\ c.limit = ended.client.limit
       /\ c.connect = "idle" => ended.client.connect = "idle"
  BY <1>14 DEF State, Client
<1>16. t = [ended EXCEPT !.out = <<>>, !.writer = "errored", !.server = has, !.client = c]
  BY <1>14 DEF State
<1> HIDE DEF c, has, t
<1>17. /\ t \in State /\ t.op = ended.op /\ t.log = ended.log /\ t.pending = ended.pending
       /\ t.out = <<>> /\ t.client = c /\ t.server = has
  <2>1. /\ t.op = ended.op /\ t.log = ended.log /\ t.pending = ended.pending /\ t.out = <<>>
        /\ t.writer = "errored" /\ t.client = c /\ t.server = has
    BY <1>14, <1>16 DEF State
  <2>4. t \in State
    BY <1>14, <1>15, <1>16, <1>a, LineGone
  <2> QED
    BY <2>1, <2>4
<1>18. Good(t)
  <2>1. t.server.owed \subseteq 0 .. Len(ended.log)
    BY <1>13, <1>17, <1>a DEF Good, Bounded
  <2>2. \A i \in 1 .. Len(t.out) : t.out[i] <= Len(t.log)
    BY <1>17
  <2> QED
    BY <1>13, <1>14, <1>15, <1>17, <2>1, <2>2, LineGood
<1> QED
  BY <1>1, <1>18, BecameGood

\* The state after the server has answered, before the client looks at it.
GivenBy(r, result) ==
  [Now EXCEPT !.server.owed = @ \ {r},
     !.server.handles =
       CASE result = "handle" -> @ \cup {log[r].op}
         [] r # None /\ log[r].kind = "CLOSE" /\ result = "ok" -> @ \ {op[log[r].op].handle}
         [] OTHER -> @]

LEMMA Given ==
  ASSUME IInv, NEW r \in server.owed, NEW result \in Results(r)
  PROVE  LET given == GivenBy(r, result) IN
         /\ Good(given) /\ given \in State /\ given.op = Now.op /\ given.log = Now.log
         /\ given.pending = Now.pending /\ given.out = Now.out /\ given.client = Now.client
         /\ given.server.owed = server.owed \ {r} /\ given.server.got = server.got
<1>2. /\ Good(Now) /\ Now \in State /\ Len(log) \in Nat
      /\ server \in Server
      /\ \A q \in 1 .. Len(log) : log[q] \in Entry
  BY NowFacts
<1>3. /\ Now.op = op /\ Now.log = log /\ Now.pending = pending /\ Now.out = out
      /\ Now.writer = writer /\ Now.client = client /\ Now.server = server
  BY DEF Now
<1>4. r \in 0 .. Len(log)
  BY <1>2, <1>3 DEF Good, Bounded
<1> DEFINE handles == CASE result = "handle" -> server.handles \cup {log[r].op}
                        [] r # None /\ log[r].kind = "CLOSE" /\ result = "ok" ->
                             server.handles \ {op[log[r].op].handle}
                        [] OTHER -> server.handles
           has == [server EXCEPT !.owed = server.owed \ {r}, !.handles = handles]
           given == [Now EXCEPT !.server = has]
<1>5. handles \in SUBSET Ops
  <2>1. CASE r = None
    <3>1. result # "handle"
      BY <2>1 DEF Results
    <3>2. handles = server.handles
      BY <2>1, <3>1
    <3> QED
      BY <1>2, <3>2 DEF Server
  <2>2. CASE r # None
    <3>1. log[r].op \in Ops
      BY <1>2, <1>4, <2>2 DEF Entry, None
    <3>2. handles \subseteq server.handles \cup {log[r].op}
      OBVIOUS
    <3> QED
      BY <1>2, <3>1, <3>2 DEF Server
  <2> QED
    BY <2>1, <2>2
<1>6. GivenBy(r, result) = given
  BY <1>2 DEF Now, GivenBy
<1> HIDE DEF handles
<1>7. has \in Server /\ has.owed = server.owed \ {r} /\ has.got = server.got
  BY <1>2, <1>5 DEF Server
<1> HIDE DEF has
<1>8. /\ given \in State /\ given.op = Now.op /\ given.log = Now.log /\ given.pending = Now.pending
      /\ given.out = Now.out /\ given.client = Now.client /\ given.server = has
  BY <1>2, <1>7 DEF State
<1> HIDE DEF given
<1>9. Good(given)
  <2>1. given.server.owed \subseteq Now.server.owed
    BY <1>3, <1>7, <1>8
  <2>2. \A o \in Ops : given.op[o].req = None \/ given.op[o].req = Now.op[o].req
    BY <1>8
  <2>3. /\ given.client.closed = Now.client.closed /\ given.client.limit = Now.client.limit
        /\ given.client.connect = "idle" => Now.client.connect = "idle" /\ given.op = Now.op
    BY <1>8
  <2> QED
    BY <1>2, <1>8, <2>1, <2>2, <2>3, OpGood
<1> QED
  BY <1>6, <1>7, <1>8, <1>9 DEF given

LEMMA AnswerKeeps == ASSUME IInv, NEW r \in server.owed, Answer(r) PROVE IInv'
<1>1. PICK result \in Results(r) :
        LET given == [Now EXCEPT !.server.owed = @ \ {r},
                        !.server.handles =
                          CASE result = "handle" -> @ \cup {log[r].op}
                            [] r # None /\ log[r].kind = "CLOSE" /\ result = "ok" ->
                                 @ \ {op[log[r].op].handle}
                            [] OTHER -> @]
        IN  Become(IF r = None THEN Negotiated(given, result) ELSE Dispatched(given, r, result))
  BY DEF Answer
<1>2. /\ Good(Now) /\ Now \in State /\ Len(log) \in Nat
      /\ server \in Server
      /\ \A q \in 1 .. Len(log) : log[q] \in Entry
  BY NowFacts
<1>3. /\ Now.op = op /\ Now.log = log /\ Now.pending = pending /\ Now.out = out
      /\ Now.writer = writer /\ Now.client = client /\ Now.server = server
  BY DEF Now
<1>4. r \in 0 .. Len(log)
  BY <1>2, <1>3 DEF Good, Bounded
<1> DEFINE given == GivenBy(r, result)
<1>6. Become(IF r = None THEN Negotiated(given, result) ELSE Dispatched(given, r, result))
  BY <1>1 DEF GivenBy
<1>8. given \in State /\ given.log = Now.log /\ Good(given)
  BY Given
<1> HIDE DEF given
<1>10. CASE r = None
  BY <1>6, <1>8, <1>10, NegotiatedGood, BecameGood
<1>11. CASE r # None
  <2>1. r \in 1 .. Len(given.log)
    BY <1>2, <1>3, <1>4, <1>8, <1>11 DEF None
  <2>2. result \in Result
    <3>1. log[r].kind \in ReqKind
      BY <1>2, <1>3, <1>8, <2>1 DEF Entry
    <3> QED
      BY <1>1, <1>11, <3>1 DEF Results, Result, ReqKind, Wanted
  <2>3. Good(Dispatched(given, r, result))
    BY <1>8, <2>1, <2>2, DispatchedGood
  <2> QED
    BY <1>6, <1>11, <2>3, BecameGood
<1> QED
  BY <1>10, <1>11

-----------------------------------------------------------------------------
(* The invariant, and what follows from it.                                *)

\* Every step of the client keeps the table exact.
LEMMA Inductive == IInv /\ [Next]_vars => IInv'
<1> SUFFICES ASSUME IInv, [Next]_vars PROVE IInv'
  OBVIOUS
<1>1. CASE Connect
  BY <1>1, ConnectKeeps
<1>2. CASE ConnectReturns
  BY <1>2, ConnectReturnsKeeps
<1>3. CASE ConnectFails \/ AbortConnect \/ ShutdownEnds
  BY <1>3, ClientOnlyKeeps
<1>4. CASE \E o \in Ops : Resume(o) \/ User(o)
  <2>1. PICK o \in Ops : Resume(o) \/ User(o)
    BY <1>4
  <2>2. CASE Resume(o)
    BY <2>2, OpenedKeeps, WorkedKeeps, SettledOpKeeps DEF Resume
  <2>3. CASE User(o)
    BY <2>3, StartKeeps, ContinueKeeps, UserEndsKeeps, AbortKeeps DEF User
  <2> QED
    BY <2>1, <2>2, <2>3
<1>5. CASE Terminate
  BY <1>5, TerminateKeeps
<1>6. CASE Sent \/ Written
  BY <1>6, SentKeeps, WrittenKeeps
<1>7. CASE WriteFails
  BY <1>7, WriteFailsKeeps
<1>8. CASE \E r \in server.owed : Answer(r)
  BY <1>8, AnswerKeeps
<1>9. CASE UNCHANGED vars
  <2>1. Now' = Now
    BY <1>9 DEF vars, Now
  <2> QED
    BY <2>1 DEF IInv
<1> QED
  BY <1>1, <1>2, <1>3, <1>4, <1>5, <1>6, <1>7, <1>8, <1>9 DEF Next

LEMMA Initial == Init => IInv
<1> SUFFICES ASSUME Init PROVE IInv
  OBVIOUS
<1> DEFINE idle == [kind |-> "stat", at |-> "idle", req |-> None, work |-> 0, aborted |-> FALSE,
                    handle |-> "none", then |-> "done", refused |-> FALSE]
<1>1. idle \in Operation /\ idle.at = "idle" /\ idle.req = 0
  <2>1. 0 \in 0 .. MaxWork
    BY ClientAssumption
  <2> QED
    BY <2>1 DEF Operation, Kind, Stage, None
<1>2. op = [o \in Ops |-> idle]
  BY DEF Init
<1> HIDE DEF idle
<1>3. op \in [Ops -> Operation] /\ \A o \in Ops : op[o].at = "idle" /\ op[o].req = 0
  BY <1>1, <1>2
<1>4. /\ log = <<>> /\ log \in Seq(Entry) /\ Len(log) = 0
      /\ out = <<>> /\ out \in Seq(Nat) /\ Len(out) = 0
  BY DEF Init
<1>5. pending \in [next : Id, of : [Id -> Nat]] /\ \A id \in Id : pending.of[id] = 0
  BY IdFacts DEF Init, None
<1>6. /\ client \in Client /\ client.limit = 1 /\ ~client.closed
      /\ server \in Server /\ server.owed = {}
      /\ writer \in {"open", "aborting", "errored"}
  BY DEF Init, Client, Server
<1>7. /\ Now.op = op /\ Now.log = log /\ Now.pending = pending /\ Now.out = out
      /\ Now.client = client /\ Now.server = server
  BY DEF Now
<1>8. Now \in State
  BY <1>3, <1>4, <1>5, <1>6 DEF Now, State
<1>9. Exact(Now) /\ Cardinality(Pending(Now)) = 0
  BY <1>4, <1>5, <1>7, <1>8, EmptyTable DEF NoneWaits, None
<1>10. Bounded(Now)
  BY <1>3, <1>4, <1>5, <1>6, <1>7 DEF Bounded
<1>11. Fresh(Now) /\ InLine(Now) /\ Limited(Now)
  BY <1>3, <1>4, <1>6, <1>7, <1>9 DEF Fresh, InLine, Limited
<1> QED
  BY <1>8, <1>9, <1>10, <1>11 DEF IInv, Good

LEMMA Invariant == Spec => []IInv
<1> QED
  BY Initial, Inductive, PTL DEF Spec

\* A request waits for its response exactly while the table holds it under its
\* id: no abort, failed write or end of the client forgets one, and none that is
\* settled keeps its place (sftp.ts:451-491 and 611-637).
THEOREM TableExact == Spec => []PendingExact
<1>1. IInv => PendingExact
  <2> SUFFICES ASSUME IInv, NEW r \in DOMAIN log
               PROVE  (log[r].promise.state = "waiting") <=> (pending.of[log[r].id] = r)
    BY DEF PendingExact
  <2>1. r \in 1 .. Len(log) /\ Now.log = log /\ Now.pending = pending
    BY NowFacts DEF Now
  <2> QED
    BY <2>1 DEF IInv, Good, Exact, WaitingHeld, Holds
<1> QED
  BY <1>1, Invariant, PTL

\* The variables keep their types, the table never holds more requests than the
\* user allows, and every reference to a request is to one that was made
\* (sftp.ts:456-467).
THEOREM ClientTyped == Spec => []TypeOK
<1>1. IInv => TypeOK
  <2> SUFFICES ASSUME IInv PROVE TypeOK
    OBVIOUS
  <2>1. /\ op \in [Ops -> Operation] /\ writer \in {"open", "aborting", "errored"}
        /\ client \in Client /\ server \in Server
        /\ pending \in [next : Id, of : [Id -> Nat]] /\ out \in Seq(Nat) /\ Len(log) \in Nat
        /\ DOMAIN log = 1 .. Len(log)
    BY NowFacts
  <2>2. \A r \in 1 .. Len(log) : log[r] \in Entry
    BY NowFacts
  <2>3. /\ Now.op = op /\ Now.log = log /\ Now.pending = pending /\ Now.out = out
        /\ Now.client = client /\ Now.server = server
    BY DEF Now
  <2>4. Bounded(Now) /\ Limited(Now)
    BY DEF IInv, Good
  <2>5. \A r \in DOMAIN log : log[r].op \in Ops /\ log[r].id \in Id
    BY <2>1, <2>2 DEF Entry
  <2>6. pending.next \in Id /\ pending.of \in [Id -> 0 .. Len(log)]
    <3>1. \A id \in Id : pending.of[id] \in 0 .. Len(log)
      BY <2>1, <2>3, <2>4 DEF Bounded
    <3> QED
      BY <2>1, <3>1
  <2>7. \A i \in DOMAIN out : out[i] \in 0 .. Len(log)
    <3>1. DOMAIN out = 1 .. Len(out) /\ \A i \in 1 .. Len(out) : out[i] \in Nat
      BY <2>1
    <3>2. \A i \in 1 .. Len(out) : out[i] <= Len(log)
      BY <2>3, <2>4 DEF Bounded
    <3> QED
      BY <2>1, <3>1, <3>2
  <2>8. Cardinality(Pending(Now)) <= client.limit
    BY <2>3, <2>4 DEF Limited
  <2>9. server.owed \subseteq 0 .. Len(log) /\ server.handles \subseteq Ops
    BY <2>1, <2>3, <2>4 DEF Bounded, Server
  <2> QED
    BY <2>1, <2>5, <2>6, <2>7, <2>8, <2>9 DEF TypeOK, Client, Server
<1> QED
  BY <1>1, Invariant, PTL

-----------------------------------------------------------------------------
(* The SFTPClient implements SftpRequests.  Its steps are of four sorts:    *)
(* they reject some of the requests that wait, make one, send one, or       *)
(* answer one.  A response is used at most once since the server owes it    *)
(* once: what is still in line or owed has not been used.                   *)

\* The requests in line that the server has not got, and may still come to owe.
In(s) ==
  IF s.client.closed THEN {}
  ELSE {s.out[i] : i \in {j \in 1 .. Len(s.out) : s.server.got => j # 1}} \ {None}

Unused(s) ==
  /\ \A r \in 1 .. Len(s.log) :
       LET promise == s.log[r].promise
       IN  IF promise.state = "answered"
           THEN promise.of \notin s.server.owed /\ promise.of \notin In(s)
           ELSE promise.of = None
  /\ \A r \in s.server.owed : r \notin In(s)

\* No id is given away, and none taken that was free.
Stays(s, t) ==
  /\ Len(t.log) = Len(s.log) /\ \A r \in 1 .. Len(s.log) : t.log[r].id = s.log[r].id
  /\ t.pending.next = s.pending.next /\ Pending(t) \subseteq Pending(s)
  /\ t.client.limit = s.client.limit \/ Len(s.log) = 0
  /\ s.client.closed => t.client.closed

\* The new request takes the first free id from the next one on.
Allocates(s, t) ==
  /\ Cardinality(Pending(s)) < s.client.limit
  /\ t.client.limit = s.client.limit /\ t.client.closed = s.client.closed
  /\ t.log[Len(s.log) + 1].id = AllocateId(s)
  /\ t.pending.next = (AllocateId(s) + 1) % IdSpace
  /\ Pending(t) = Pending(s) \cup {AllocateId(s)}

\* Some of the requests that wait are rejected; it may be none.
Rejects(s, t) ==
  /\ Len(t.log) = Len(s.log)
  /\ \A r \in 1 .. Len(s.log) :
       \/ t.log[r].promise = s.log[r].promise
       \/ s.log[r].promise.state = "waiting" /\ t.log[r].promise = Rejected

Keeps(s, t) ==
  /\ Rejects(s, t) /\ Stays(s, t)
  /\ t.server.owed \subseteq s.server.owed /\ In(t) \subseteq In(s)

Asks(s, t) ==
  /\ Len(t.log) = Len(s.log) + 1 /\ t.log[Len(s.log) + 1].promise = Waiting
  /\ \A r \in 1 .. Len(s.log) : t.log[r] = s.log[r]
  /\ Allocates(s, t)
  /\ t.server.owed \subseteq s.server.owed /\ In(t) \subseteq In(s) \cup {Len(s.log) + 1}

Sends(s, t) ==
  /\ t.log = s.log /\ Stays(s, t)
  /\ \E r \in In(s) \cup {None} :
       t.server.owed \subseteq s.server.owed \cup {r} /\ In(t) \subseteq In(s) \ {r}

\* The response to a request reaches another one, later, only when the first
\* waits no more.
Answers(s, t) ==
  \E r \in s.server.owed, q \in 1 .. Len(s.log) :
    /\ r \in 1 .. Len(s.log) /\ Stays(s, t) /\ s.log[r].id = s.log[q].id
    /\ s.log[q].promise.state = "waiting"
    /\ r = q \/ (r < q /\ s.log[r].promise.state # "waiting")
    /\ Len(t.log) = Len(s.log)
    /\ t.log[q].promise.state = "answered" /\ t.log[q].promise.of = r
    /\ \A p \in 1 .. Len(s.log) : p # q => t.log[p].promise = s.log[p].promise
    /\ t.server.owed \subseteq s.server.owed \ {r} /\ In(t) \subseteq In(s)

Step(s, t) == Keeps(s, t) \/ Asks(s, t) \/ Sends(s, t) \/ Answers(s, t)

-----------------------------------------------------------------------------
(* The four sorts of steps.                                                *)

LEMMA InRange ==
  ASSUME NEW s \in State, Good(s)
  PROVE  /\ Len(s.log) \in Nat /\ None \notin In(s)
         /\ \A r \in In(s) : r \in 1 .. Len(s.log)
         /\ \A r \in s.server.owed : r \in 0 .. Len(s.log)
<1>1. Len(s.log) \in Nat /\ s.server.owed \subseteq 0 .. Len(s.log)
  BY LogFacts DEF Good, Bounded
<1>2. \A i \in 1 .. Len(s.out) : s.out[i] \in Nat /\ s.out[i] <= Len(s.log)
  <2>1. s.out \in Seq(Nat)
    BY DEF State
  <2>2. \A i \in 1 .. Len(s.out) : s.out[i] \in Nat
    BY <2>1
  <2> QED
    BY <2>2 DEF Good, Bounded
<1>3. ASSUME NEW r \in In(s) PROVE r \in 1 .. Len(s.log)
  <2>1. PICK i \in 1 .. Len(s.out) : r = s.out[i] /\ r # None
    BY <1>3 DEF In
  <2> QED
    BY <1>1, <1>2, <2>1 DEF None
<1>4. None \notin In(s)
  BY DEF In
<1> QED
  BY <1>1, <1>3, <1>4

LEMMA UnusedKept ==
  ASSUME NEW s \in State, NEW t \in State, Good(s), Good(t), Unused(s), Step(s, t)
  PROVE  Unused(t)
<1>1. /\ Len(s.log) \in Nat /\ None \notin In(s)
      /\ \A r \in In(s) : r \in 1 .. Len(s.log)
      /\ \A r \in s.server.owed : r \in 0 .. Len(s.log)
  BY InRange
<1>2. \A r \in 1 .. Len(s.log) :
        s.log[r].promise.state = "answered" => s.log[r].promise.of \in 1 .. Len(s.log)
  BY DEF Good, Bounded
<1>3. CASE Keeps(s, t)
  BY <1>3 DEF Keeps, Rejects, Unused, Rejected
<1>4. CASE Asks(s, t)
  <2>1. \A r \in 1 .. Len(t.log) : r \in 1 .. Len(s.log) \/ r = Len(s.log) + 1
    BY <1>1, <1>4 DEF Asks
  <2>2. Len(s.log) + 1 \notin 0 .. Len(s.log)
    BY <1>1
  <2> QED
    BY <1>1, <1>2, <1>4, <2>1, <2>2, SMTT(60) DEF Asks, Unused, Waiting
<1>5. CASE Sends(s, t)
  <2>1. None \notin In(t) /\ t.log = s.log
    BY <1>5, InRange DEF Sends
  <2>2. PICK r \in In(s) \cup {None} :
          t.server.owed \subseteq s.server.owed \cup {r} /\ In(t) \subseteq In(s) \ {r}
    BY <1>5 DEF Sends
  <2>3. \A q \in 1 .. Len(s.log) :
          s.log[q].promise.state = "answered" => s.log[q].promise.of # None
    BY <1>2 DEF None
  <2> QED
    BY <2>1, <2>2, <2>3 DEF Unused
<1>6. CASE Answers(s, t)
  <2>1. PICK r \in s.server.owed, q \in 1 .. Len(s.log) :
          /\ r \in 1 .. Len(s.log)
          /\ Len(t.log) = Len(s.log)
          /\ t.log[q].promise.state = "answered" /\ t.log[q].promise.of = r
          /\ \A p \in 1 .. Len(s.log) : p # q => t.log[p].promise = s.log[p].promise
          /\ t.server.owed \subseteq s.server.owed \ {r} /\ In(t) \subseteq In(s)
    BY <1>6 DEF Answers
  <2> QED
    BY <2>1 DEF Unused
<1> QED
  BY <1>3, <1>4, <1>5, <1>6 DEF Step

LEMMA SameKeeps ==
  ASSUME NEW s, NEW t, t.log = s.log, t.out = s.out, t.client.closed = s.client.closed,
         t.client.limit = s.client.limit, t.pending = s.pending,
         t.server.owed \subseteq s.server.owed, t.server.got = s.server.got
  PROVE  Keeps(s, t)
  BY DEF Keeps, Rejects, In, Stays, Pending

LEMMA KeepsOn ==
  ASSUME NEW s, NEW t, NEW u, Keeps(s, t), Keeps(t, u)
  PROVE  Keeps(s, u)
<1>1. Rejects(s, u)
  BY DEF Keeps, Rejects, Rejected
<1>2. Stays(s, u)
  BY DEF Keeps, Stays
<1> QED
  BY <1>1, <1>2 DEF Keeps

LEMMA TerminatedKeeps ==
  ASSUME NEW s \in State
  PROVE  Keeps(s, Terminated(s))
<1> DEFINE t == Terminated(s)
<1>1. CASE s.client.closed
  BY <1>1, SameKeeps DEF Terminated
<1>2. CASE ~s.client.closed
  <2>1. /\ Len(t.log) = Len(s.log) /\ t.client.closed /\ t.server.owed = {}
        /\ t.client.limit = s.client.limit /\ t.pending.next = s.pending.next
        /\ \A id \in Id : t.pending.of[id] = None
        /\ \A r \in 1 .. Len(s.log) :
             /\ t.log[r].id = s.log[r].id
             /\ t.log[r].promise = IF Holds(s, r) THEN Settle(s.log[r].promise, Rejected)
                                                  ELSE s.log[r].promise
    BY <1>2, TerminatedFields
  <2> HIDE DEF t
  <2>2. Rejects(s, t)
    BY <2>1 DEF Rejects, Settle
  <2>3. Stays(s, t)
    BY <2>1 DEF Stays, Pending
  <2>4. Keeps(s, t)
    BY <2>1, <2>2, <2>3 DEF Keeps, In
  <2> QED
    BY <2>4 DEF t
<1> QED
  BY <1>1, <1>2

\* The same, of two states of which an operation is the only difference.
LEMMA OpDiffers ==
  ASSUME NEW s, NEW t, NEW u, t.log = s.log, t.out = s.out, t.client = s.client,
         t.server = s.server, t.pending = s.pending
  PROVE  /\ Keeps(s, t)
         /\ Keeps(t, u) => Keeps(s, u)
         /\ Asks(t, u) => Asks(s, u)
<1>1. Pending(t) = Pending(s) /\ In(t) = In(s)
  BY DEF Pending, In
<1>2. AllocateId(t) = AllocateId(s)
  BY <1>1 DEF AllocateId
<1>3. Keeps(s, t)
  BY SameKeeps
<1>4. ASSUME Keeps(t, u) PROVE Keeps(s, u)
  BY <1>1, <1>4 DEF Keeps, Rejects, Stays
<1>5. ASSUME Asks(t, u) PROVE Asks(s, u)
  BY <1>1, <1>2, <1>5 DEF Asks, Allocates
<1> QED
  BY <1>3, <1>4, <1>5

LEMMA OpSet ==
  ASSUME NEW s \in State, NEW o, NEW e
  PROVE  LET t == [s EXCEPT !.op[o] = e]
         IN  /\ t.log = s.log /\ t.out = s.out /\ t.client = s.client /\ t.server = s.server
             /\ t.pending = s.pending
  BY DEF State

LEMMA RequestSteps ==
  ASSUME NEW s \in State, Good(s), NEW o \in Ops, NEW at \in Stage, NEW kind \in ReqKind
  PROVE  Keeps(s, Request(s, o, at, kind)) \/ Asks(s, Request(s, o, at, kind))
<1> DEFINE t == Request(s, o, at, kind)
           n == Len(s.log)
<1>1. CASE Refuses(s, o, kind)
  <2>1. /\ t.log = s.log /\ t.out = s.out /\ t.client = s.client /\ t.server = s.server
        /\ t.pending = s.pending
    BY <1>1 DEF Request, State
  <2> HIDE DEF t
  <2>2. Keeps(s, t)
    BY <2>1, SameKeeps
  <2> QED
    BY <2>2 DEF t
<1>2. CASE ~Refuses(s, o, kind)
  <2> DEFINE entry == [op |-> o, kind |-> kind, id |-> AllocateId(s), promise |-> Waiting]
  <2>1. /\ t.log = Append(s.log, entry) /\ t.out = Append(s.out, n + 1)
        /\ t.client = s.client /\ t.server = s.server
        /\ t.pending = [next |-> (AllocateId(s) + 1) % IdSpace,
                        of |-> [s.pending.of EXCEPT ![AllocateId(s)] = n + 1]]
    BY <1>2 DEF Request, State
  <2>2. entry.promise = Waiting /\ entry.id = AllocateId(s)
    OBVIOUS
  <2> HIDE DEF entry, t
  <2>3. s.log \in Seq(Entry) /\ n \in Nat
    BY LogFacts
  <2>4. Len(t.log) = n + 1 /\ t.log[n + 1] = entry /\ \A r \in 1 .. n : t.log[r] = s.log[r]
    BY <2>1, <2>3
  <2>5. s.out \in Seq(Nat)
    BY DEF State
  <2>6. ASSUME NEW i \in 1 .. Len(t.out)
        PROVE  t.out[i] = n + 1 \/ (i \in 1 .. Len(s.out) /\ t.out[i] = s.out[i])
    BY <2>1, <2>3, <2>5
  <2>7. In(t) \subseteq In(s) \cup {n + 1}
    BY <2>1, <2>6 DEF In
  <2>8. Cardinality(Pending(s)) < s.client.limit /\ AllocateId(s) \in Id
    <3>1. s.client.limit \in 1 .. IdSpace - 1
      BY IdFacts DEF State, Client
    <3>2. Cardinality(Pending(s)) < s.client.limit
      BY <1>2, <3>1, PendingFinite DEF Refuses
    <3>3. Cardinality(Pending(s)) < IdSpace
      BY <3>1, <3>2, PendingFinite, IdFacts
    <3> QED
      BY <3>2, <3>3, AllocatesFree
  <2>9. /\ t.pending.next = (AllocateId(s) + 1) % IdSpace
        /\ t.pending.of = [s.pending.of EXCEPT ![AllocateId(s)] = n + 1]
        /\ s.pending.of \in [Id -> Nat]
    BY <2>1 DEF State
  <2>10. Pending(t) = Pending(s) \cup {AllocateId(s)}
    BY <2>3, <2>8, <2>9 DEF Pending, None
  <2>11. Allocates(s, t)
    BY <2>1, <2>2, <2>4, <2>8, <2>9, <2>10 DEF Allocates
  <2>12. Asks(s, t)
    BY <2>1, <2>2, <2>4, <2>7, <2>11 DEF Asks
  <2> QED
    BY <2>12 DEF t
<1> QED
  BY <1>1, <1>2

LEMMA EndClientKeeps ==
  ASSUME NEW s \in State, Good(s), NEW o \in Ops, NEW then
  PROVE  Keeps(s, EndClient(s, o, then))
<1> DEFINE t == Terminated(s)
           u == EndClient(s, o, then)
<1>1. Keeps(s, t) /\ t \in State
  BY TerminatedKeeps, TerminatedGood DEF Good, Exact
<1> HIDE DEF t
<1>2. /\ u.log = t.log /\ u.out = t.out /\ u.client = t.client /\ u.server = t.server
      /\ u.pending = t.pending
  BY <1>1 DEF EndClient, State, t
<1> HIDE DEF u
<1>3. Keeps(s, u)
  BY <1>1, <1>2, OpDiffers, KeepsOn
<1> QED
  BY <1>3 DEF u

LEMMA CloseHandleSteps ==
  ASSUME NEW s \in State, Good(s), NEW o \in Ops, NEW then \in {"done", "failed"},
         s.client.connect # "idle"
  PROVE  Keeps(s, CloseHandle(s, o, then)) \/ Asks(s, CloseHandle(s, o, then))
<1>1. s.op[o] \in Operation
  BY OpTyped
<1>2. CASE s.client.closed
  <2> DEFINE t == CloseHandle(s, o, then)
  <2>1. /\ t.log = s.log /\ t.out = s.out /\ t.client = s.client /\ t.server = s.server
        /\ t.pending = s.pending
    BY <1>2 DEF CloseHandle, State
  <2> HIDE DEF t
  <2>2. Keeps(s, t)
    BY <2>1, SameKeeps
  <2> QED
    BY <2>2 DEF t
<1>3. CASE ~s.client.closed
  <2> DEFINE e == [s.op[o] EXCEPT !.then = then]
             t == [s EXCEPT !.op[o] = e]
             u == Request(t, o, "close", "CLOSE")
  <2>1. e \in Operation /\ e.req = s.op[o].req
    BY <1>1 DEF Operation
  <2>2. CloseHandle(s, o, then) = u
    BY <1>3 DEF CloseHandle, State
  <2> HIDE DEF e
  <2>3. /\ t \in State /\ Good(t)
        /\ t.log = s.log /\ t.out = s.out /\ t.client = s.client /\ t.server = s.server
        /\ t.pending = s.pending
    BY <2>1, OpStep, OpSet
  <2> HIDE DEF t
  <2>4. "close" \in Stage /\ "CLOSE" \in ReqKind
    BY DEF Stage, ReqKind, Wanted
  <2>5. Keeps(t, u) \/ Asks(t, u)
    BY <2>3, <2>4, RequestSteps
  <2> HIDE DEF u
  <2>6. Keeps(s, u) \/ Asks(s, u)
    BY <2>3, <2>5, OpDiffers
  <2> QED
    BY <2>2, <2>6
<1> QED
  BY <1>2, <1>3

LEMMA CleanupHandleSteps ==
  ASSUME NEW s \in State, Good(s), NEW o \in Ops, s.client.connect # "idle"
  PROVE  Keeps(s, CleanupHandle(s, o)) \/ Asks(s, CleanupHandle(s, o))
  BY CloseHandleSteps, EndClientKeeps DEF CleanupHandle

LEMMA AbortedRequestKeeps ==
  ASSUME NEW s \in State, Good(s), NEW o \in Ops,
         s.op[o].req # None, Holds(s, s.op[o].req)
  PROVE  Keeps(s, AbortedRequest(s, o))
<1> DEFINE r == s.op[o].req
           told == [s EXCEPT !.op[o].aborted = TRUE,
                             !.pending.of[s.log[r].id] = None,
                             !.log[r].promise = Settle(@, Rejected)]
           log2 == [s.log EXCEPT ![r].promise = Rejected]
<1>1. Len(s.log) \in Nat /\ r \in Nat /\ r <= Len(s.log)
  BY LogFacts, OpTyped DEF Good, Bounded, Operation
<1>2. r \in 1 .. Len(s.log) /\ s.log[r].promise.state = "waiting"
  BY <1>1 DEF None, Good, Exact
<1>3. Rejected \in Promise
  BY DEF Rejected, Promise, None
<1>4. /\ Len(log2) = Len(s.log)
      /\ \A q \in 1 .. Len(s.log) :
           /\ log2[q].promise = IF q = r THEN Rejected ELSE s.log[q].promise
           /\ log2[q].id = s.log[q].id
  BY <1>2, <1>3, PromiseSet
<1>5. /\ told.log = log2 /\ told.out = s.out /\ told.client = s.client /\ told.server = s.server
  BY <1>2 DEF State, Settle
<1>a. told.pending = [s.pending EXCEPT !.of[s.log[r].id] = None]
  BY DEF State
<1>b. told.pending.next = s.pending.next /\ Pending(told) \subseteq Pending(s)
  BY <1>a DEF State, Pending, None
<1>6. AbortedRequest(s, o) = IF s.log[r].kind = "READ" THEN Terminated(told) ELSE told
  BY DEF AbortedRequest
<1>7. told \in State
  <2> DEFINE new == [s.op[o] EXCEPT !.aborted = TRUE]
             table == [s.pending EXCEPT !.of[s.log[r].id] = None]
  <2>1. new \in Operation
    BY OpTyped DEF Operation
  <2>2. [s.op EXCEPT ![o] = new] \in [Ops -> Operation]
    BY <2>1, OpTyped
  <2>3. table \in [next : Id, of : [Id -> Nat]]
    BY <1>2, LogFacts DEF State, None
  <2>4. log2 \in Seq(Entry)
    BY <1>2, <1>3, PromiseSet
  <2>5. told = [s EXCEPT !.op = [s.op EXCEPT ![o] = new], !.pending = table, !.log = log2]
    BY <1>2 DEF State, Settle
  <2> HIDE DEF new, table, log2, told
  <2> QED
    BY <2>2, <2>3, <2>4, <2>5 DEF State
<1> HIDE DEF told, log2, r
<1>8. Keeps(s, told)
  <2>1. Stays(s, told)
    BY <1>4, <1>5, <1>b DEF Stays
  <2> QED
    BY <1>2, <1>4, <1>5, <2>1 DEF Keeps, Rejects, In
<1>9. Keeps(s, Terminated(told))
  BY <1>7, <1>8, TerminatedKeeps, KeepsOn
<1> QED
  BY <1>6, <1>8, <1>9

\* A response finds the request it answers, or the one that has its id since.
LEMMA DispatchedSteps ==
  ASSUME NEW s \in State, Good(s), NEW t \in State,
         t.op = s.op, t.log = s.log, t.pending = s.pending, t.out = s.out, t.client = s.client,
         NEW r \in 1 .. Len(s.log), r \in s.server.owed, t.server.owed = s.server.owed \ {r},
         t.server.got = s.server.got, NEW result \in Result
  PROVE  Step(s, Dispatched(t, r, result))
<1> DEFINE id == t.log[r].id
           q == t.pending.of[id]
           p == Response(result, r)
           u == Dispatched(t, r, result)
<1>1. CASE q = None
  <2>1. Keeps(s, t)
    BY SameKeeps
  <2> QED
    BY <1>1, <2>1 DEF Dispatched, Step
<1>2. CASE q # None
  <2>1. id \in Id /\ Len(s.log) \in Nat
    BY LogFacts
  <2>2. q \in 1 .. Len(s.log) /\ s.log[q].id = id
    <3>1. q \in Nat /\ q <= Len(s.log)
      BY <2>1 DEF State, Good, Bounded
    <3>2. s.log[q].id = id
      BY <1>2, <2>1 DEF Good, Exact
    <3> QED
      BY <1>2, <2>1, <3>1, <3>2 DEF None
  <2>3. s.log[q].promise.state = "waiting" /\ r <= q
    BY <1>2, <2>2 DEF Good, Exact, Holds
  <2>4. r # q => s.log[r].promise.state # "waiting"
    BY DEF Good, Exact, WaitingHeld, Holds
  <2>5. p \in Promise /\ p.state = "answered" /\ p.of = r
    BY <2>1 DEF Response, Promise
  <2> HIDE DEF p, q
  <2> DEFINE log2 == [s.log EXCEPT ![q].promise = p]
  <2>6. /\ u.log = log2 /\ u.out = s.out /\ u.client = s.client /\ u.server = t.server
        /\ u.pending = [s.pending EXCEPT !.of[id] = None]
    BY <1>2 DEF Dispatched, p, q, State
  <2>7. /\ Len(log2) = Len(s.log)
        /\ \A x \in 1 .. Len(s.log) :
             log2[x].promise = (IF x = q THEN p ELSE s.log[x].promise) /\ log2[x].id = s.log[x].id
    BY <2>2, <2>5, PromiseSet
  <2> HIDE DEF log2, u
  <2>8. In(u) = In(s) /\ u.server.owed = s.server.owed \ {r}
    <3>1. u.out = s.out /\ u.client = s.client /\ u.server = t.server
      BY <2>6
    <3> QED
      BY <3>1 DEF In
  <2>9. r = q \/ (r < q /\ s.log[r].promise.state # "waiting")
    BY <2>1, <2>2, <2>3, <2>4
  <2>10. u.pending.next = s.pending.next /\ Pending(u) \subseteq Pending(s)
    BY <2>6 DEF State, Pending, None
  <2>11. Stays(s, u)
    BY <2>6, <2>7, <2>10 DEF Stays
  <2>12. s.log[r].id = s.log[q].id
    BY <2>2
  <2>13. Answers(s, u)
    BY <2>2, <2>3, <2>5, <2>6, <2>7, <2>8, <2>9, <2>11, <2>12 DEF Answers
  <2> QED
    BY <2>13 DEF Step, u
<1> QED
  BY <1>1, <1>2

-----------------------------------------------------------------------------
(* Every action is a step of one of these sorts.                           *)

NowStep == Step(Now, Now')

LEMMA BecameStep ==
  ASSUME NEW t, Good(t), Become(t), Keeps(Now, t) \/ Asks(Now, t)
  PROVE  NowStep
<1>1. Now' = t
  BY Became DEF Good
<1> QED
  BY <1>1 DEF NowStep, Step

\* A step that leaves log, writer and what is owed alone.
LEMMA QuietStep ==
  ASSUME log' = log, out' = out, server' = server, client'.closed = client.closed,
         client'.limit = client.limit, pending' = pending
  PROVE  NowStep
<1>1. /\ Now'.log = Now.log /\ Now'.out = Now.out /\ Now'.client.closed = Now.client.closed
      /\ Now'.server = Now.server /\ Now'.client.limit = Now.client.limit
      /\ Now'.pending = Now.pending
  BY DEF Now
<1>2. Keeps(Now, Now')
  BY <1>1, SameKeeps
<1> QED
  BY <1>2 DEF NowStep, Step

LEMMA ConnectSteps ==
  ASSUME IInv, Connect \/ ConnectReturns \/ ConnectFails \/ AbortConnect \/ ShutdownEnds
  PROVE  NowStep
<1>1. Good(Now) /\ Now \in State /\ client \in Client
  BY NowFacts
<1>2. CASE Connect
  <2>1. Now'.log = Now.log /\ Now'.server = Now.server /\ Now'.out = <<None>>
    BY <1>2 DEF Connect, Now
  <2>2. In(Now') = {}
    BY <2>1 DEF In
  <2>a. Len(Now.log) = 0 /\ Now'.pending = Now.pending
    BY <1>1, <1>2 DEF Good, Fresh, Connect, Now
  <2>c. Now'.client.closed = Now.client.closed
    BY <1>1, <1>2 DEF Connect, Client, Now
  <2>b. Stays(Now, Now')
    BY <2>1, <2>a, <2>c DEF Stays, Pending
  <2>3. Keeps(Now, Now')
    BY <2>1, <2>2, <2>b DEF Keeps, Rejects
  <2> QED
    BY <2>3 DEF NowStep, Step
<1>3. CASE ConnectReturns
  <2>1. CASE client' = [client EXCEPT !.connect = "open"] /\ UNCHANGED <<op, log, pending, out, writer, server>>
    BY <1>1, <2>1, QuietStep DEF Client
  <2>2. CASE Become([Terminated(Now) EXCEPT !.client.connect = "closing"])
    <3> DEFINE s == Terminated(Now)
               t == [s EXCEPT !.client.connect = "closing"]
    <3>1. Keeps(Now, s) /\ s \in State
      BY <1>1, TerminatedKeeps, TerminatedGood DEF Good, Exact
    <3>2. Become(t)
      BY <2>2
    <3> HIDE DEF s
    <3>3. t \in State /\ t.log = s.log /\ t.out = s.out /\ t.server = s.server
          /\ t.client.closed = s.client.closed /\ t.client.limit = s.client.limit
          /\ t.pending = s.pending
      BY <3>1 DEF State, Client
    <3> HIDE DEF t
    <3>4. Keeps(Now, t)
      BY <3>1, <3>3, SameKeeps, KeepsOn
    <3>5. Now' = t
      BY <3>2, <3>3, Became
    <3> QED
      BY <3>4, <3>5 DEF NowStep, Step
  <2> QED
    BY <1>3, <2>1, <2>2 DEF ConnectReturns
<1>4. CASE ConnectFails
  BY <1>1, <1>4, QuietStep DEF ConnectFails, Client
<1>5. CASE AbortConnect
  BY <1>1, <1>5, QuietStep DEF AbortConnect, Client
<1>6. CASE ShutdownEnds
  BY <1>1, <1>6, QuietStep DEF ShutdownEnds, Client
<1> QED
  BY <1>2, <1>3, <1>4, <1>5, <1>6

LEMMA OpMovesSteps ==
  ASSUME IInv, NEW o \in Ops, op[o].at # "idle"
  PROVE  /\ \A then \in {"done", "failed"} :
              /\ Keeps(Now, CloseHandle(Now, o, then)) \/ Asks(Now, CloseHandle(Now, o, then))
              /\ Keeps(Now, EndClient(Now, o, then))
         /\ Keeps(Now, CleanupHandle(Now, o)) \/ Asks(Now, CleanupHandle(Now, o))
<1>1. Good(Now) /\ Now \in State /\ Now.client.connect # "idle"
  BY NowFacts, Busy DEF Now
<1> QED
  BY <1>1, CloseHandleSteps, EndClientKeeps, CleanupHandleSteps

LEMMA ResumeSteps == ASSUME IInv, NEW o \in Ops, Resume(o) PROVE NowStep
<1>1. CASE Opened(o) \/ Closed(o) \/ Ended(o)
  BY <1>1, QuietStep DEF Opened, Closed, Ended
<1>2. CASE Worked(o)
  <2>1. op[o].at # "idle" /\ {"done", "failed", "ready"} \subseteq Stage
    BY <1>2 DEF Worked, Stage
  <2>2. ASSUME NEW at \in Stage, Become([Now EXCEPT !.op[o].at = at]) PROVE NowStep
    BY <2>2, QuietStep DEF Become, Now
  <2>3. CASE op[o].kind = "stat"
    <3>1. Become([Now EXCEPT !.op[o].at = IF Outcome(o) = "good" THEN "done" ELSE "failed"])
      BY <1>2, <2>3 DEF Worked
    <3> QED
      BY <2>1, <2>2, <3>1
  <2>4. CASE op[o].kind # "stat" /\ Outcome(o) = "good"
    <3>1. Become([Now EXCEPT !.op[o].at = "ready"])
      BY <1>2, <2>4 DEF Worked
    <3> QED
      BY <2>1, <2>2, <3>1
  <2>5. CASE op[o].kind \in {"readDir", "download"} /\ Outcome(o) = "eof"
    <3>1. Become(CloseHandle(Now, o, "done")) \/ Become(EndClient(Now, o, "done"))
      BY <1>2, <2>5 DEF Worked
    <3> QED
      BY <2>1, <3>1, OpMoves, OpMovesSteps, BecameStep
  <2>6. CASE /\ op[o].kind # "stat" /\ Outcome(o) # "good"
             /\ ~(op[o].kind \in {"readDir", "download"} /\ Outcome(o) = "eof")
    <3>1. Become(CleanupHandle(Now, o))
      BY <1>2, <2>6 DEF Worked
    <3> QED
      BY <2>1, <3>1, OpMoves, OpMovesSteps, BecameStep
  <2> QED
    BY <2>3, <2>4, <2>5, <2>6
<1> QED
  BY <1>1, <1>2 DEF Resume

\* A request of an operation whose kind or count is new.
LEMMA RequestFrom ==
  ASSUME IInv, NEW o \in Ops, NEW e \in Operation, e.req = op[o].req, client.connect # "idle",
         NEW at \in Stage, NEW kind \in ReqKind,
         Become(Request([Now EXCEPT !.op[o] = e], o, at, kind))
  PROVE  NowStep
<1> DEFINE s == [Now EXCEPT !.op[o] = e]
           u == Request(s, o, at, kind)
<1>1. Good(Now) /\ Now \in State /\ Now.op = op /\ Now.client = client
  BY NowFacts DEF Now
<1>2. /\ Good(s) /\ s \in State
      /\ s.log = Now.log /\ s.out = Now.out /\ s.client = Now.client /\ s.server = Now.server
      /\ s.pending = Now.pending
  BY <1>1, OpStep, OpSet
<1>3. Become(u)
  OBVIOUS
<1> HIDE DEF s
<1>4. Good(u)
  BY <1>1, <1>2, RequestGood
<1>5. Keeps(s, u) \/ Asks(s, u)
  BY <1>2, RequestSteps
<1> HIDE DEF u
<1>6. Keeps(Now, u) \/ Asks(Now, u)
  BY <1>2, <1>5, OpDiffers
<1> QED
  BY <1>3, <1>4, <1>6, BecameStep

LEMMA StartSteps == ASSUME IInv, NEW o \in Ops, Start(o) PROVE NowStep
<1>1. PICK kind \in Kinds[o] :
        LET started == [Now EXCEPT !.op[o].kind = kind] IN
        Become(IF kind = "stat" THEN Request(started, o, "work", Work[kind])
                                ELSE Request(started, o, "open", "OPEN"))
  BY DEF Start
<1> DEFINE e == [op[o] EXCEPT !.kind = kind]
<1>2. kind \in Kind
  BY ClientAssumption
<1>3. e \in Operation /\ e.req = op[o].req
  BY <1>2, NowFacts DEF Operation
<1>4. [Now EXCEPT !.op[o].kind = kind] = [Now EXCEPT !.op[o] = e]
  BY DEF Now
<1> HIDE DEF e
<1>5. Work[kind] \in ReqKind /\ "OPEN" \in ReqKind /\ "work" \in Stage /\ "open" \in Stage
  BY <1>2, WorkKind DEF ReqKind, Wanted, Stage
<1>6. client.connect # "idle"
  BY DEF Start
<1> QED
  BY <1>1, <1>3, <1>4, <1>5, <1>6, RequestFrom

LEMMA ContinueSteps == ASSUME IInv, NEW o \in Ops, Continue(o) PROVE NowStep
<1> DEFINE more == op[o].work + 1
           e == [op[o] EXCEPT !.work = more]
<1>1. /\ Become(Request([Now EXCEPT !.op[o] = e], o, "work", Work[op[o].kind]))
      /\ op[o].at = "ready" /\ op[o].work < MaxWork
  BY DEF Continue, Now
<1>2. more \in 0 .. MaxWork
  <2>1. op[o].work \in 0 .. MaxWork
    BY NowFacts DEF Operation
  <2> QED
    BY <1>1, <2>1, ClientAssumption
<1> HIDE DEF more
<1>3. e \in Operation /\ e.req = op[o].req /\ op[o].kind \in Kind
  BY <1>2, NowFacts DEF Operation
<1> HIDE DEF e
<1>4. Work[op[o].kind] \in ReqKind /\ "work" \in Stage /\ client.connect # "idle"
  BY <1>1, <1>3, WorkKind, Busy DEF Stage
<1> QED
  BY <1>1, <1>3, <1>4, RequestFrom

LEMMA UserSteps == ASSUME IInv, NEW o \in Ops, User(o) PROVE NowStep
<1>1. CASE Start(o) \/ Continue(o)
  BY <1>1, StartSteps, ContinueSteps
<1>2. CASE SourceEnds(o) \/ Stop(o)
  <2>1. op[o].at # "idle"
    BY <1>2 DEF SourceEnds, Stop
  <2>2. \/ Become(CloseHandle(Now, o, "done")) \/ Become(CleanupHandle(Now, o))
        \/ Become(EndClient(Now, o, "done"))
    BY <1>2 DEF SourceEnds, Stop
  <2> QED
    BY <2>1, <2>2, OpMoves, OpMovesSteps, BecameStep
<1>3. CASE Abort(o)
  <2>1. Good(Now) /\ Now \in State /\ Now.op = op /\ Now.log = log /\ Now.pending = pending
    BY NowFacts DEF Now
  <2>2. CASE Listening(o)
    <3>1. Now.op[o].req # None /\ Holds(Now, Now.op[o].req) /\ Become(AbortedRequest(Now, o))
      BY <1>3, <2>1, <2>2 DEF Abort, Listening, Holds
    <3> QED
      BY <2>1, <3>1, AbortedRequestGood, AbortedRequestKeeps, BecameStep
  <2>3. CASE ~Listening(o)
    <3>1. log' = log /\ out' = out /\ server' = server /\ client' = client /\ pending' = pending
      BY <1>3, <2>3 DEF Abort, Become, Now
    <3> QED
      BY <3>1, QuietStep
  <2> QED
    BY <2>2, <2>3
<1> QED
  BY <1>1, <1>2, <1>3 DEF User

LEMMA TerminateSteps == ASSUME IInv, Terminate PROVE NowStep
<1>1. Good(Now) /\ Now \in State /\ Good(Terminated(Now))
  BY NowFacts, TerminatedGood DEF Good, Exact
<1> QED
  BY <1>1, TerminatedKeeps, BecameStep DEF Terminate

LEMMA SentSteps == ASSUME IInv, Sent PROVE NowStep
<1>1. Good(Now) /\ Now \in State /\ out \in Seq(Nat) /\ out # <<>> /\ Len(log) \in Nat
      /\ server \in Server /\ ~server.got
  BY NowFacts DEF Sent
<1>2. /\ Now.log = log /\ Now.out = out /\ Now.client = client /\ Now.server = server
      /\ Now'.log = log /\ Now'.out = out /\ Now'.client = client /\ Now'.server = server'
      /\ Now'.pending = Now.pending
  BY DEF Now, Sent
<1>3. /\ server'.got
      /\ server'.owed = IF client.closed THEN server.owed ELSE server.owed \cup {Head(out)}
  BY <1>1 DEF Sent, Server
<1>4. Stays(Now, Now')
  BY <1>2 DEF Stays, Pending
<1>5. CASE client.closed
  <2>1. Keeps(Now, Now')
    BY <1>2, <1>3, <1>4, <1>5 DEF Keeps, Rejects, In
  <2> QED
    BY <2>1 DEF NowStep, Step
<1>6. CASE ~client.closed
  <2>1. Head(out) = out[1] /\ 1 \in 1 .. Len(out) /\ Len(out) \in Nat
    BY <1>1, Shorter
  <2>2. \A i \in 1 .. Len(out) : out[i] = (Len(log) - Len(out)) + i
    BY <1>1, <1>2, <1>6 DEF Good, InLine
  <2>3. \A i \in 1 .. Len(out) : i # 1 => out[i] # Head(out)
    BY <1>1, <2>1, <2>2
  <2>4. Head(out) \in In(Now) \cup {None}
    BY <1>1, <1>2, <1>6, <2>1 DEF In
  <2>5. In(Now') \subseteq In(Now) \ {Head(out)}
    <3>1. SUFFICES ASSUME NEW r \in In(Now') PROVE r \in In(Now) \ {Head(out)}
      OBVIOUS
    <3>2. PICK i \in 1 .. Len(out) : r = out[i] /\ r # None /\ i # 1
      BY <1>2, <1>3, <1>6 DEF In
    <3>3. r \in In(Now)
      BY <1>1, <1>2, <1>6, <3>2 DEF In
    <3> QED
      BY <2>3, <3>2, <3>3
  <2>6. Sends(Now, Now')
    BY <1>2, <1>3, <1>4, <1>6, <2>4, <2>5 DEF Sends
  <2> QED
    BY <2>6 DEF NowStep, Step
<1> QED
  BY <1>5, <1>6

LEMMA WrittenSteps == ASSUME IInv, Written PROVE NowStep
<1>1. /\ out \in Seq(Nat) /\ out # <<>> /\ client \in Client /\ server \in Server
      /\ server.got
  BY NowFacts DEF Written
<1>2. /\ Now.log = log /\ Now.out = out /\ Now.client = client /\ Now.server = server
      /\ Now'.log = log /\ Now'.out = out' /\ Now'.client = client' /\ Now'.server = server'
      /\ Now'.pending = Now.pending
  BY DEF Now, Written
<1>3. /\ client'.closed = client.closed /\ client'.limit = client.limit
      /\ server'.owed = server.owed
      /\ out' = IF writer = "aborting" THEN <<>> ELSE Tail(out)
  BY <1>1 DEF Written, Client, Server
<1>4. Stays(Now, Now')
  BY <1>2, <1>3 DEF Stays, Pending
<1>5. In(Now') \subseteq In(Now)
  <2>1. SUFFICES ASSUME NEW r \in In(Now') PROVE r \in In(Now)
    OBVIOUS
  <2>2. ~client.closed /\ \E i \in 1 .. Len(out') : r = out'[i] /\ r # None
    BY <1>2, <1>3 DEF In
  <2>3. out' = Tail(out)
    BY <1>3, <2>2
  <2>4. /\ Len(Tail(out)) = Len(out) - 1 /\ Len(out) \in Nat
        /\ \A i \in 1 .. Len(out) - 1 : Tail(out)[i] = out[i + 1] /\ i + 1 \in 1 .. Len(out)
    BY <1>1, Shorter
  <2>5. PICK i \in 1 .. Len(out) - 1 : r = out[i + 1] /\ r # None
    BY <2>2, <2>3, <2>4
  <2>6. i + 1 \in 1 .. Len(out) /\ i + 1 # 1
    BY <2>4
  <2> QED
    BY <1>2, <2>2, <2>5, <2>6 DEF In
<1>6. Keeps(Now, Now')
  BY <1>2, <1>3, <1>4, <1>5 DEF Keeps, Rejects
<1> QED
  BY <1>6 DEF NowStep, Step

LEMMA WriteFailsSteps == ASSUME IInv, WriteFails PROVE NowStep
<1> DEFINE queued == {out[i] : i \in DOMAIN out}
           first == Head(out)
           freed == IF first = None THEN Now
                    ELSE [Now EXCEPT !.pending.of[log[first].id] = None]
           told == [freed EXCEPT !.log = Rejecting(freed, queued)]
           ended == Terminated(told)
           t == [ended EXCEPT !.out = <<>>, !.writer = "errored", !.server.got = FALSE,
                   !.client.connect = IF @ = "writing" THEN "closing" ELSE @]
<1>1. Become(t) /\ out # <<>>
  BY DEF WriteFails
<1>2. /\ freed \in State /\ freed.op = op /\ freed.log = log /\ freed.out = out
      /\ freed.client = client /\ freed.server = server
  BY <1>1, Freed
<1>a. freed.pending.next = pending.next /\ Pending(freed) \subseteq Pending(Now)
  BY NowFacts DEF Now, Pending, None
<1> HIDE DEF freed, queued
<1> DEFINE rejected == Rejecting(freed, queued)
<1>3. /\ rejected \in Seq(Entry) /\ Len(rejected) = Len(log)
      /\ \A r \in 1 .. Len(log) :
           /\ rejected[r].id = log[r].id
           /\ rejected[r].promise = IF r \in queued THEN Settle(log[r].promise, Rejected)
                                                    ELSE log[r].promise
  BY <1>2, RejectingFields
<1> HIDE DEF rejected
<1>4. /\ told \in State /\ told.log = rejected /\ told.out = out
      /\ told.client = client /\ told.server = server /\ told.pending = freed.pending
  BY <1>2, <1>3 DEF State, rejected
<1> HIDE DEF told
<1>5. Keeps(Now, told)
  <2>1. Now.log = log /\ Now.out = out /\ Now.client = client /\ Now.server = server
    BY DEF Now
  <2>2. \A r \in 1 .. Len(log) :
          \/ told.log[r].promise = log[r].promise
          \/ log[r].promise.state = "waiting" /\ told.log[r].promise = Rejected
    BY <1>3, <1>4 DEF Settle
  <2>3. Stays(Now, told)
    <3>1. Now.pending = pending /\ Pending(told) = Pending(freed)
      BY <1>4 DEF Now, Pending
    <3> QED
      BY <1>3, <1>4, <1>a, <2>1, <3>1 DEF Stays
  <2> QED
    BY <1>3, <1>4, <2>1, <2>2, <2>3 DEF Keeps, Rejects, In
<1>6. Keeps(Now, ended)
  BY <1>4, <1>5, TerminatedKeeps, KeepsOn
<1>7. /\ Now'.log = ended.log /\ Now'.out = <<>> /\ Now'.server.owed = ended.server.owed
      /\ Now'.pending = ended.pending /\ Now'.client.limit = ended.client.limit
      /\ Now'.client.closed = ended.client.closed
  <2>1. /\ log' = t.log /\ out' = t.out /\ server' = t.server
        /\ pending' = t.pending /\ client' = t.client
    BY <1>1 DEF Become
  <2>2. /\ t.log = ended.log /\ t.out = <<>> /\ t.server.owed = ended.server.owed
        /\ t.pending = ended.pending /\ t.client.limit = ended.client.limit
        /\ t.client.closed = ended.client.closed
    <3>1. ended \in State
      <4>1. CASE told.client.closed
        BY <1>4, <4>1 DEF Terminated
      <4>2. CASE ~told.client.closed
        BY <1>4, <4>2, TerminatedFields
      <4> QED
        BY <4>1, <4>2
    <3> HIDE DEF ended
    <3> QED
      BY <3>1 DEF State, Client, Server
  <2> QED
    BY <2>1, <2>2 DEF Now
<1> HIDE DEF ended
<1>8. In(Now') = {}
  BY <1>7 DEF In
<1>b. Stays(Now, Now')
  BY <1>6, <1>7 DEF Keeps, Stays, Pending
<1>9. Keeps(Now, Now')
  BY <1>6, <1>7, <1>8, <1>b DEF Keeps, Rejects
<1> QED
  BY <1>9 DEF NowStep, Step

LEMMA AnswerSteps == ASSUME IInv, NEW r \in server.owed, Answer(r) PROVE NowStep
<1>1. PICK result \in Results(r) :
        LET given == [Now EXCEPT !.server.owed = @ \ {r},
                        !.server.handles =
                          CASE result = "handle" -> @ \cup {log[r].op}
                            [] r # None /\ log[r].kind = "CLOSE" /\ result = "ok" ->
                                 @ \ {op[log[r].op].handle}
                            [] OTHER -> @]
        IN  Become(IF r = None THEN Negotiated(given, result) ELSE Dispatched(given, r, result))
  BY DEF Answer
<1> DEFINE given == GivenBy(r, result)
<1>2. /\ Good(Now) /\ Now \in State /\ Now.log = log /\ Now.server = server /\ Len(log) \in Nat
      /\ \A q \in 1 .. Len(log) : log[q] \in Entry
  BY NowFacts DEF Now
<1>3. Become(IF r = None THEN Negotiated(given, result) ELSE Dispatched(given, r, result))
  BY <1>1 DEF GivenBy
<1>4. /\ Good(given) /\ given \in State /\ given.op = Now.op /\ given.log = Now.log
      /\ given.pending = Now.pending /\ given.out = Now.out /\ given.client = Now.client
      /\ given.server.owed = server.owed \ {r} /\ given.server.got = server.got
  BY Given
<1> HIDE DEF given
<1>5. Keeps(Now, given)
  BY <1>2, <1>4, SameKeeps
<1>6. CASE r = None
  <2>1. CASE result = "version"
    <3>1. Become([given EXCEPT !.client.version = "resolved"])
      BY <1>3, <1>6, <2>1 DEF Negotiated
    <3> DEFINE t == [given EXCEPT !.client.version = "resolved"]
    <3>2. t \in State /\ t.log = given.log /\ t.out = given.out /\ t.server = given.server
          /\ t.client.closed = given.client.closed /\ t.client.limit = given.client.limit
          /\ t.pending = given.pending
      BY <1>4 DEF State, Client
    <3>3. Become(t)
      BY <3>1
    <3> HIDE DEF t
    <3>4. Keeps(Now, t) /\ Now' = t
      BY <1>5, <3>2, <3>3, SameKeeps, KeepsOn, Became
    <3> QED
      BY <3>4 DEF NowStep, Step
  <2>2. CASE result # "version"
    <3>1. Become(Terminated(given))
      BY <1>3, <1>6, <2>2 DEF Negotiated
    <3>2. Good(Terminated(given)) /\ Keeps(Now, Terminated(given))
      BY <1>4, <1>5, TerminatedGood, TerminatedKeeps, KeepsOn DEF Good, Exact
    <3> QED
      BY <3>1, <3>2, BecameStep
  <2> QED
    BY <2>1, <2>2
<1>7. CASE r # None
  <2>1. r \in 1 .. Len(log)
    BY <1>2, <1>7 DEF Good, Bounded, None
  <2>2. result \in Result
    <3>1. log[r].kind \in ReqKind
      BY <1>2, <2>1 DEF Entry
    <3> QED
      BY <1>1, <1>7, <3>1 DEF Results, Result, ReqKind, Wanted
  <2>3. r \in 1 .. Len(Now.log) /\ r \in Now.server.owed
        /\ given.server.owed = Now.server.owed \ {r} /\ given.server.got = Now.server.got
    BY <1>2, <1>4, <2>1
  <2>4. Step(Now, Dispatched(given, r, result))
    BY <1>2, <1>4, <2>2, <2>3, DispatchedSteps
  <2>5. Good(Dispatched(given, r, result))
    BY <1>4, <2>2, <2>3, DispatchedGood
  <2>6. Now' = Dispatched(given, r, result)
    BY <1>3, <1>7, <2>5, Became DEF Good
  <2> QED
    BY <2>4, <2>6 DEF NowStep
<1> QED
  BY <1>6, <1>7

LEMMA EveryStep == ASSUME IInv, [Next]_vars PROVE NowStep
<1>1. CASE Connect \/ ConnectReturns \/ ConnectFails \/ AbortConnect \/ ShutdownEnds
  BY <1>1, ConnectSteps
<1>2. CASE \E o \in Ops : Resume(o) \/ User(o)
  BY <1>2, ResumeSteps, UserSteps
<1>3. CASE Terminate
  BY <1>3, TerminateSteps
<1>4. CASE Sent \/ Written
  BY <1>4, SentSteps, WrittenSteps
<1>5. CASE WriteFails
  BY <1>5, WriteFailsSteps
<1>6. CASE \E r \in server.owed : Answer(r)
  BY <1>6, AnswerSteps
<1>7. CASE UNCHANGED vars
  BY <1>7, QuietStep DEF vars
<1> QED
  BY <1>1, <1>2, <1>3, <1>4, <1>5, <1>6, <1>7 DEF Next

-----------------------------------------------------------------------------
(* What SftpRequests sees of a step.                                       *)

Abs == [r \in DOMAIN log |-> [state |-> log[r].promise.state, of |-> log[r].promise.of]]

LEMMA Appended ==
  ASSUME NEW S, NEW f \in Seq(S), NEW g \in Seq(S), NEW x,
         Len(g) = Len(f) + 1, g[Len(f) + 1] = x, \A i \in 1 .. Len(f) : g[i] = f[i]
  PROVE  g = Append(f, x)
  OBVIOUS

LEMMA Updated ==
  ASSUME NEW S, NEW f \in Seq(S), NEW g \in Seq(S), NEW q \in 1 .. Len(f), NEW x,
         Len(g) = Len(f), g[q] = x, \A i \in 1 .. Len(f) : i # q => g[i] = f[i]
  PROVE  g = [f EXCEPT ![q] = x]
  OBVIOUS

\* The calls of SftpRequests are those of the log.
LEMMA AbsIs ==
  ASSUME NEW l \in Seq(Entry)
  PROVE  LET calls == [r \in DOMAIN l |-> [state |-> l[r].promise.state, of |-> l[r].promise.of]]
         IN  /\ calls \in Seq([state : {"waiting", "answered", "rejected"}, of : Nat])
             /\ Len(calls) = Len(l) /\ DOMAIN calls = 1 .. Len(l) /\ Len(l) \in Nat
             /\ \A r \in 1 .. Len(l) :
                  calls[r] = [state |-> l[r].promise.state, of |-> l[r].promise.of]
<1>1. DOMAIN l = 1 .. Len(l) /\ Len(l) \in Nat
  OBVIOUS
<1>2. \A r \in 1 .. Len(l) :
        [state |-> l[r].promise.state, of |-> l[r].promise.of]
          \in [state : {"waiting", "answered", "rejected"}, of : Nat]
  <2>1. \A r \in 1 .. Len(l) : l[r] \in Entry
    OBVIOUS
  <2> QED
    BY <2>1 DEF Entry, Promise
<1> QED
  BY <1>1, <1>2

LEMMA Seen ==
  ASSUME IInv, IInv', Unused(Now), NowStep
  PROVE  [Table!Next]_Abs
<1> DEFINE n == Len(log)
           n2 == Len(log')
<1>1. Now.log = log /\ Now'.log = log' /\ Now.server = server
  BY DEF Now
<1>2. /\ Abs \in Seq([state : {"waiting", "answered", "rejected"}, of : Nat])
      /\ Len(Abs) = n /\ DOMAIN Abs = 1 .. n /\ n \in Nat
      /\ \A r \in 1 .. n : Abs[r] = [state |-> log[r].promise.state, of |-> log[r].promise.of]
  BY NowFacts, AbsIs DEF Abs
<1>3. /\ Abs' \in Seq([state : {"waiting", "answered", "rejected"}, of : Nat])
      /\ Len(Abs') = n2 /\ DOMAIN Abs' = 1 .. n2 /\ n2 \in Nat
      /\ \A r \in 1 .. n2 : Abs'[r] = [state |-> log'[r].promise.state, of |-> log'[r].promise.of]
  <2>1. log' \in Seq(Entry)
    BY LogFacts, <1>1 DEF IInv, Good
  <2> QED
    BY <2>1, AbsIs DEF Abs
<1>4. \A r \in 1 .. n : log[r].promise.state # "answered" => log[r].promise.of = 0
  BY <1>1 DEF Unused, None
<1>5. \A r \in 1 .. n : Abs[r] = [state |-> "waiting", of |-> 0] <=> log[r].promise.state = "waiting"
  BY <1>2, <1>4
<1>6. CASE Keeps(Now, Now')
  <2>1. n2 = n
    BY <1>1, <1>6 DEF Keeps, Rejects
  <2>2. \A r \in 1 .. n : \/ log'[r].promise = log[r].promise
                          \/ log[r].promise.state = "waiting" /\ log'[r].promise = Rejected
    BY <1>1, <1>6 DEF Keeps, Rejects
  <2> DEFINE R == {r \in 1 .. n : Abs'[r] # Abs[r]}
  <2>3. \A r \in R : /\ Abs[r] = [state |-> "waiting", of |-> 0]
                     /\ Abs'[r] = [state |-> "rejected", of |-> 0]
    BY <1>2, <1>3, <1>5, <2>1, <2>2, SMTT(60) DEF Rejected, None
  <2>4. Abs' = [r \in DOMAIN Abs |-> IF r \in R THEN [state |-> "rejected", of |-> 0] ELSE Abs[r]]
    BY <1>2, <1>3, <2>1, <2>3
  <2>5. CASE R = {}
    <3>1. Abs' = Abs
      BY <1>2, <1>3, <2>1, <2>5, SMTT(60)
    <3> QED
      BY <3>1
  <2>6. CASE R # {}
    <3>1. R \in (SUBSET {r \in DOMAIN Abs : Abs[r] = [state |-> "waiting", of |-> 0]}) \ {{}}
      BY <1>2, <2>3, <2>6
    <3> HIDE DEF R
    <3>2. Table!Reject
      BY <2>4, <3>1 DEF Table!Reject, Table!Calls, Table!Waiting, Table!Rejected, Abs
    <3> QED
      BY <3>2 DEF Table!Next
  <2> QED
    BY <2>5, <2>6
<1>7. CASE Asks(Now, Now')
  <2>1. n2 = n + 1 /\ log'[n + 1].promise = Waiting /\ \A r \in 1 .. n : log'[r] = log[r]
    BY <1>1, <1>7 DEF Asks
  <2>2. Abs'[n + 1] = [state |-> "waiting", of |-> 0]
    BY <1>2, <1>3, <2>1 DEF Waiting, None
  <2>3. ASSUME NEW r \in 1 .. n PROVE Abs'[r] = Abs[r]
    <3>1. r \in 1 .. n2
      BY <1>2, <2>1
    <3> QED
      BY <1>2, <1>3, <2>1, <3>1
  <2>4. Abs' = Append(Abs, [state |-> "waiting", of |-> 0])
    BY <1>2, <1>3, <2>1, <2>2, <2>3, Appended
  <2>5. Table!Ask
    BY <2>4 DEF Table!Ask, Table!Waiting, Abs
  <2> QED
    BY <2>5 DEF Table!Next
<1>8. CASE Sends(Now, Now')
  <2>1. log' = log
    BY <1>1, <1>8 DEF Sends
  <2> QED
    BY <2>1 DEF Abs
<1>9. CASE Answers(Now, Now')
  <2>1. PICK r \in server.owed, q \in 1 .. n :
          /\ r \in 1 .. n
          /\ log[q].promise.state = "waiting"
          /\ r = q \/ (r < q /\ log[r].promise.state # "waiting")
          /\ n2 = n
          /\ log'[q].promise.state = "answered" /\ log'[q].promise.of = r
          /\ \A p \in 1 .. n : p # q => log'[p].promise = log[p].promise
    BY <1>1, <1>9 DEF Answers
  <2>2. Abs[q] = [state |-> "waiting", of |-> 0]
    BY <1>5, <2>1
  <2>3. r = q \/ (r < q /\ Abs[r] # [state |-> "waiting", of |-> 0])
    BY <1>5, <2>1
  <2>4. \A p \in DOMAIN Abs : Abs[p].state = "answered" => Abs[p].of # r
    BY <1>1, <1>2, <2>1, SMTT(60) DEF Unused
  <2>5. Abs' = [Abs EXCEPT ![q] = [state |-> "answered", of |-> r]]
    <3>1. Len(Abs') = Len(Abs) /\ q \in 1 .. Len(Abs)
      BY <1>2, <1>3, <2>1
    <3>2. Abs'[q] = [state |-> "answered", of |-> r]
      BY <1>2, <1>3, <2>1
    <3>3. ASSUME NEW p \in 1 .. Len(Abs), p # q PROVE Abs'[p] = Abs[p]
      <4>1. p \in 1 .. n /\ p \in 1 .. n2 /\ log'[p].promise = log[p].promise
        BY <1>2, <2>1, <3>3
      <4> QED
        BY <1>2, <1>3, <4>1
    <3> QED
      BY <1>2, <1>3, <3>1, <3>2, <3>3, Updated
  <2>6. Table!Answer(q, r)
    BY <2>2, <2>3, <2>4, <2>5
       DEF Table!Answer, Table!Answered, Table!AnsweredBy, Table!Calls, Table!Waiting, Abs
  <2>7. q \in Table!Calls /\ r \in Table!Calls
    BY <1>2, <2>1 DEF Table!Calls, Abs
  <2> QED
    BY <2>6, <2>7 DEF Table!Next
<1> QED
  BY <1>6, <1>7, <1>8, <1>9 DEF NowStep, Step

\* The client implements SftpRequests: every promise is settled once, with the
\* response to its own request or to one whose caller had given up, and no
\* response is used twice, however ids are reused (sftp.ts:451-501 and 611-637).
THEOREM ImplementsRequests == Spec => RequestTable
<1>1. Init => Unused(Now) /\ Table!Init
  <2> SUFFICES ASSUME Init PROVE Unused(Now) /\ Table!Init
    OBVIOUS
  <2>1. log = <<>> /\ server.owed = {}
    BY DEF Init
  <2>2. Abs = <<>>
    BY <2>1 DEF Abs
  <2> QED
    BY <2>1, <2>2 DEF Unused, Now, Table!Init, Abs
<1>2. IInv /\ IInv' /\ Unused(Now) /\ [Next]_vars => Unused(Now)' /\ [Table!Next]_Abs
  <2> SUFFICES ASSUME IInv, IInv', Unused(Now), [Next]_vars
               PROVE  Unused(Now)' /\ [Table!Next]_Abs
    OBVIOUS
  <2>1. NowStep
    BY EveryStep
  <2>2. Good(Now) /\ Now \in State /\ Good(Now') /\ Now' \in State
    BY DEF IInv, Good
  <2>3. Unused(Now')
    BY <2>1, <2>2, UnusedKept DEF NowStep
  <2>4. [Table!Next]_Abs
    BY <2>1, Seen
  <2> QED
    BY <2>3, <2>4
<1>3. [Table!Next]_Abs => [Table!Next]_([r \in DOMAIN log |->
             [state |-> log[r].promise.state, of |-> log[r].promise.of]])
  BY DEF Abs
<1> QED
  BY <1>1, <1>2, <1>3, Invariant, PTL DEF Spec, RequestTable, Table!Spec

-----------------------------------------------------------------------------
(* How far apart two requests with the same id are.  The ids go round, and  *)
(* between two requests with one id every other id was given away or was    *)
(* skipped, by #allocateId, because it was pending.  An id that is skipped  *)
(* in the round after request j was pending already when j was made, so    *)
(* there are fewer of them than the limit.                                 *)

\* The steps after x, more than d and less than a round, to a pending id.
Ahead(s, x, d) == {k \in d + 1 .. IdSpace - 1 : (x + k) % IdSpace \in Pending(s)}

\* K are the steps after the id of request j that have been skipped since.
Round(s, j, K) ==
  LET x == s.log[j].id
      d == (Len(s.log) - j) + Cardinality(K) IN
  /\ d < IdSpace /\ K \subseteq 1 .. d
  /\ s.pending.next = (x + d + 1) % IdSpace
  /\ Cardinality(K \cup Ahead(s, x, d)) < s.client.limit

Near(s, j) == Len(s.log) - j <= IdSpace - s.client.limit
Rounds(s) == \A j \in 1 .. Len(s.log) : Near(s, j) => \E K \in SUBSET (1 .. IdSpace - 1) : Round(s, j, K)
Apart(s) ==
  \A i, j \in 1 .. Len(s.log) :
    i < j /\ s.log[i].id = s.log[j].id => j - i > IdSpace - s.client.limit
\* A response is that to the request itself, or to an earlier one with its id.
OneId(s) ==
  \A r \in 1 .. Len(s.log) :
    LET promise == s.log[r].promise IN
    promise.state = "answered" => promise.of <= r /\ s.log[promise.of].id = s.log[r].id

Far(s) == Rounds(s) /\ Apart(s) /\ OneId(s)

LEMMA OnlyRemainder ==
  ASSUME NEW n \in Nat, n > 0, NEW k \in Nat, NEW r \in 0 .. n - 1
  PROVE  (n * k + r) % n = r
<1> DEFINE m == (n * k + r) % n
<1>1. m \in 0 .. n - 1
  BY Z3
<1>2. PICK q \in Int : n * k + r = n * q + m
  BY Z3
<1> HIDE DEF m
<1>3. n * (k - q) = m - r
  BY <1>1, <1>2, Z3
<1>4. CASE k - q >= 1
  BY <1>1, <1>3, <1>4, Z3
<1>5. CASE k - q = 0
  <2>1. m - r = 0
    BY <1>3, <1>5, Z3
  <2>2. m = r
    BY <1>1, <2>1
  <2> QED
    BY <2>2 DEF m
<1>6. CASE k - q <= -1
  BY <1>1, <1>3, <1>6, Z3
<1> QED
  BY <1>2, <1>4, <1>5, <1>6, Z3

LEMMA Shift ==
  ASSUME NEW n \in Nat, n > 0, NEW a \in Nat, NEW b \in Nat
  PROVE  ((a % n) + b) % n = (a + b) % n
<1> DEFINE r == a % n
           e == (r + b) % n
<1>1. r \in 0 .. n - 1
  BY Z3
<1>2. PICK q \in Nat : a = n * q + r
  BY Z3
<1> HIDE DEF r
<1>3. e \in 0 .. n - 1
  BY <1>1, Z3
<1>4. PICK p \in Nat : r + b = n * p + e
  BY <1>1, Z3
<1> HIDE DEF e
<1>5. a + b = n * (q + p) + e
  BY <1>1, <1>2, <1>3, <1>4, Z3
<1>6. q + p \in Nat
  OBVIOUS
<1>7. (n * (q + p) + e) % n = e
  BY <1>3, <1>6, OnlyRemainder
<1> QED
  BY <1>5, <1>7 DEF e, r

LEMMA Wrapping == \A a, b \in Nat : ((a % IdSpace) + b) % IdSpace = (a + b) % IdSpace
<1>1. IdSpace \in Nat /\ IdSpace > 0
  BY IdFacts
<1> QED
  BY <1>1, Shift, Zenon

LEMMA OneStep ==
  ASSUME NEW n \in Nat, n > 0, NEW x \in Nat, NEW k \in 0 .. n - 1, NEW l \in 0 .. n - 1,
         (x + k) % n = (x + l) % n
  PROVE  k = l
<1> DEFINE r == (x + k) % n
<1>1. r \in 0 .. n - 1
  BY Z3
<1>2. PICK p \in Nat : x + k = n * p + r
  BY Z3
<1>3. PICK q \in Nat : x + l = n * q + r
  BY Z3
<1> HIDE DEF r
<1>4. n * (p - q) = k - l
  BY <1>1, <1>2, <1>3, Z3
<1>5. CASE p - q >= 1
  BY <1>4, <1>5, Z3
<1>6. CASE p - q = 0
  <2>1. k - l = 0
    BY <1>4, <1>6, Z3
  <2> QED
    BY <2>1
<1>7. CASE p - q <= -1
  BY <1>4, <1>7, Z3
<1> QED
  BY <1>5, <1>6, <1>7, Z3

LEMMA AheadFinite ==
  ASSUME NEW s, NEW x, NEW d \in Nat
  PROVE  /\ Ahead(s, x, d) \subseteq d + 1 .. IdSpace - 1
         /\ IsFiniteSet(Ahead(s, x, d)) /\ Cardinality(Ahead(s, x, d)) \in Nat
<1>1. Ahead(s, x, d) \subseteq d + 1 .. IdSpace - 1
  BY DEF Ahead
<1>2. d + 1 \in Int /\ IdSpace - 1 \in Int
  BY IdFacts
<1>3. IsFiniteSet(d + 1 .. IdSpace - 1)
  BY <1>2, FS_Interval
<1> QED
  BY <1>1, <1>3, FS_Subset, FS_CardinalityType

LEMMA Numbers ==
  ASSUME NEW s \in State, NEW j \in 1 .. Len(s.log)
  PROVE  /\ IdSpace \in Nat /\ IdSpace > 1 /\ Len(s.log) \in Nat /\ Len(s.log) - j \in Nat
         /\ s.log[j].id \in 0 .. IdSpace - 1 /\ s.client.limit \in 1 .. IdSpace - 1
<1>1. s.client.limit \in 1 .. IdSpace - 1
  BY IdFacts DEF State, Client
<1>2. s.log[j].id \in 0 .. IdSpace - 1
  BY LogFacts DEF Id
<1> QED
  BY <1>1, <1>2, LogFacts, IdFacts

\* d ids into the round after request j: K of them skipped, and ahead still to come.
Rounding(s, j, K, d, ahead) ==
  /\ s \in State /\ j \in 1 .. Len(s.log) /\ K \in SUBSET (1 .. IdSpace - 1) /\ Round(s, j, K)
  /\ d = (Len(s.log) - j) + Cardinality(K)
  /\ ahead = Ahead(s, s.log[j].id, d)

\* What a round has: fewer steps than ids, and fewer ids of others than the limit.
Short(s, K, d, ahead) ==
  /\ IsFiniteSet(K) /\ Cardinality(K) \in Nat /\ d \in 0 .. IdSpace - 1 /\ K \subseteq 1 .. d
  /\ IsFiniteSet(K \cup ahead) /\ Cardinality(K \cup ahead) < s.client.limit
  /\ Cardinality(K \cup ahead) = Cardinality(K) + Cardinality(ahead)

\* A round is short.
LEMMA RoundFacts ==
  ASSUME NEW s, NEW j, NEW K, NEW d, NEW ahead, Rounding(s, j, K, d, ahead)
  PROVE  Short(s, K, d, ahead)
<1>0. /\ s \in State /\ j \in 1 .. Len(s.log) /\ K \in SUBSET (1 .. IdSpace - 1) /\ Round(s, j, K)
      /\ d = (Len(s.log) - j) + Cardinality(K)
      /\ ahead = Ahead(s, s.log[j].id, d)
  BY DEF Rounding
<1>1. IdSpace \in Nat /\ IdSpace > 1 /\ Len(s.log) - j \in Nat
  BY <1>0, Numbers
<1>2. IsFiniteSet(K) /\ Cardinality(K) \in Nat
  <2>1. IdSpace - 1 \in Int /\ 1 \in Int
    BY <1>1
  <2> QED
    BY <1>0, <2>1, FS_Interval, FS_Subset, FS_CardinalityType
<1>3. d < IdSpace /\ K \subseteq 1 .. d /\ Cardinality(K \cup ahead) < s.client.limit
  BY <1>0 DEF Round
<1>4. d \in 0 .. IdSpace - 1
  <2>1. d = (Len(s.log) - j) + Cardinality(K) /\ d < IdSpace
    BY <1>0, <1>3
  <2> QED
    BY <1>1, <1>2, <2>1
<1>5. ahead \subseteq d + 1 .. IdSpace - 1 /\ IsFiniteSet(ahead) /\ Cardinality(ahead) \in Nat
  BY <1>0, <1>1, <1>4, AheadFinite
<1>6. K \cap ahead = {}
  <2> SUFFICES ASSUME NEW k \in K, k \in ahead PROVE FALSE
    OBVIOUS
  <2>1. k \in 1 .. d /\ k \in d + 1 .. IdSpace - 1
    BY <1>3, <1>5
  <2> QED
    BY <1>4, <2>1
<1>7. /\ IsFiniteSet(K \cup ahead)
      /\ Cardinality(K \cup ahead) = Cardinality(K) + Cardinality(ahead) - Cardinality(K \cap ahead)
  BY <1>2, <1>5, FS_Union
<1>8. Cardinality(K \cap ahead) = 0
  BY <1>6, FS_EmptySet
<1> QED
  BY <1>2, <1>3, <1>4, <1>5, <1>7, <1>8 DEF Short

\* A round that stays short enough goes on with the next request (sftp.ts:493-501).
LEMMA RoundGoesOn ==
  ASSUME NEW s \in State, NEW t \in State, Asks(s, t),
         NEW j \in 1 .. Len(s.log), NEW K \in SUBSET (1 .. IdSpace - 1), Round(s, j, K), Near(t, j)
  PROVE  /\ \E L \in SUBSET (1 .. IdSpace - 1) : Round(t, j, L)
         /\ t.log[Len(s.log) + 1].id # s.log[j].id
<1> DEFINE n == Len(s.log)
           x == s.log[j].id
           c == Cardinality(K)
           d == (n - j) + c
           ahead == Ahead(s, x, d)
           lim == s.client.limit
           id == AllocateId(s)
<1>1. /\ IdSpace \in Nat /\ IdSpace > 1 /\ n \in Nat /\ n - j \in Nat
      /\ x \in 0 .. IdSpace - 1 /\ lim \in 1 .. IdSpace - 1
  BY Numbers
<1>2. /\ IsFiniteSet(K) /\ c \in Nat /\ d \in 0 .. IdSpace - 1 /\ K \subseteq 1 .. d
      /\ IsFiniteSet(K \cup ahead) /\ Cardinality(K \cup ahead) < lim
      /\ Cardinality(K \cup ahead) = c + Cardinality(ahead)
  <2>1. Rounding(s, j, K, d, ahead)
    BY DEF Rounding
  <2> HIDE DEF d, ahead
  <2>2. Short(s, K, d, ahead)
    BY <2>1, RoundFacts
  <2> QED
    BY <2>2 DEF Short
<1>3. s.pending.next = (x + d + 1) % IdSpace
  BY DEF Round
<1>4. /\ Cardinality(Pending(s)) < lim /\ t.client.limit = lim
      /\ t.log[n + 1].id = id /\ t.pending.next = (id + 1) % IdSpace
      /\ Pending(t) = Pending(s) \cup {id} /\ Len(t.log) = n + 1
      /\ t.log[j] = s.log[j]
  BY DEF Asks, Allocates
<1>5. PICK k \in 0 .. IdSpace - 1 :
        /\ id = (s.pending.next + k) % IdSpace
        /\ \A i \in 0 .. k - 1 : (s.pending.next + i) % IdSpace \in Pending(s)
  <2>1. Cardinality(Pending(s)) < IdSpace
    BY <1>1, <1>4, PendingFinite
  <2> QED
    BY <2>1, AllocatesFree DEF Id
<1>6. (n + 1) - j <= IdSpace - lim
  BY <1>4 DEF Near
<1> HIDE DEF n, x, lim, id
<1>7. \A i \in Nat : (s.pending.next + i) % IdSpace = (x + (d + 1 + i)) % IdSpace
  <2> TAKE i \in Nat
  <2>1. x + d + 1 \in Nat /\ (x + d + 1) + i = x + (d + 1 + i)
    BY <1>1, <1>2, SMTT(60)
  <2>2. \A a \in Nat : ((a % IdSpace) + i) % IdSpace = (a + i) % IdSpace
    BY Wrapping
  <2> QED
    BY <1>3, <2>1, <2>2
<1> HIDE DEF c
<1> HIDE DEF d
<1>8. ASSUME NEW p \in d + 1 .. d + k, p <= IdSpace - 1 PROVE p \in ahead
  <2>1. p - (d + 1) \in 0 .. k - 1 /\ p - (d + 1) \in Nat /\ d + 1 + (p - (d + 1)) = p
    BY <1>2
  <2>2. (x + p) % IdSpace \in Pending(s)
    BY <1>5, <1>7, <2>1
  <2>3. p \in d + 1 .. IdSpace - 1
    BY <1>2, <1>8
  <2> QED
    BY <2>2, <2>3 DEF Ahead
<1>9. d + 1 + k <= IdSpace - 1
  <2> SUFFICES ASSUME d + 1 + k > IdSpace - 1 PROVE FALSE
    BY <1>1, <1>2
  <2>1. \A p \in d + 1 .. IdSpace - 1 : p \in ahead
    BY <1>1, <1>2, <1>8
  <2>2. ahead = d + 1 .. IdSpace - 1
    <3>1. d \in Nat
      BY <1>1, <1>2
    <3>2. ahead \subseteq d + 1 .. IdSpace - 1
      BY <3>1, AheadFinite
    <3> QED
      BY <2>1, <3>2
  <2> HIDE DEF ahead
  <2>3. Cardinality(d + 1 .. IdSpace - 1) = IF d + 1 > IdSpace - 1 THEN 0 ELSE (IdSpace - 1) - (d + 1) + 1
    <3>1. d + 1 \in Int /\ IdSpace - 1 \in Int
      BY <1>1, <1>2
    <3> QED
      BY <3>1, FS_Interval
  <2>4. Cardinality(ahead) = (IdSpace - 1) - d
    BY <1>1, <1>2, <2>2, <2>3
  <2>5. c + Cardinality(ahead) = (IdSpace - 1) - (n - j)
    BY <1>1, <1>2, <2>4 DEF d
  <2> QED
    BY <1>1, <1>2, <1>6, <2>5
<1> DEFINE S == d + 1 .. d + k
           L == K \cup S
           e == d + 1 + k
<1>10. e \in 1 .. IdSpace - 1 /\ id = (x + e) % IdSpace /\ k \in Nat
  <2>1. k \in Nat /\ e \in 1 .. IdSpace - 1
    BY <1>1, <1>2, <1>9
  <2>2. (s.pending.next + k) % IdSpace = (x + (d + 1 + k)) % IdSpace
    BY <1>7, <2>1
  <2> QED
    BY <1>5, <2>1, <2>2
<1>11. S \subseteq ahead
  <2> HIDE DEF ahead
  <2> QED
    BY <1>1, <1>2, <1>8, <1>9
<1>12. IsFiniteSet(L) /\ Cardinality(L) = c + k
  <2>1. d + 1 \in Int /\ d + k \in Int
    BY <1>2, <1>10
  <2>2. IsFiniteSet(S) /\ Cardinality(S) = IF d + 1 > d + k THEN 0 ELSE (d + k) - (d + 1) + 1
    BY <2>1, FS_Interval
  <2>3. Cardinality(S) = k
    BY <1>2, <1>10, <2>2
  <2>4. K \cap S = {}
    BY <1>2
  <2> HIDE DEF S
  <2>5. IsFiniteSet(K \cup S) /\ Cardinality(K \cup S) = Cardinality(K) + Cardinality(S) - Cardinality(K \cap S)
    BY <1>2, <2>2, FS_Union
  <2>6. Cardinality(K \cap S) = 0
    BY <2>4, FS_EmptySet
  <2> QED
    BY <1>2, <2>3, <2>5, <2>6 DEF c
<1>13. L \in SUBSET (1 .. IdSpace - 1) /\ L \subseteq 1 .. e
  BY <1>1, <1>2, <1>9, <1>10
<1>14. ((n + 1) - j) + Cardinality(L) = e
  BY <1>1, <1>2, <1>10, <1>12 DEF d
<1>15. t.pending.next = (x + e + 1) % IdSpace
  <2>1. \A a \in Nat : ((a % IdSpace) + 1) % IdSpace = (a + 1) % IdSpace
    BY Wrapping
  <2>2. x + e \in Nat
    BY <1>1, <1>10
  <2> QED
    BY <1>4, <1>10, <2>1, <2>2
<1>16. Ahead(t, x, e) \subseteq ahead
  <2> SUFFICES ASSUME NEW p \in e + 1 .. IdSpace - 1, (x + p) % IdSpace \in Pending(t)
               PROVE  p \in ahead
    BY DEF Ahead
  <2>1. p \in 0 .. IdSpace - 1 /\ e \in 0 .. IdSpace - 1 /\ p # e /\ x \in Nat /\ IdSpace > 0
    BY <1>1, <1>10
  <2>2. (x + p) % IdSpace # id
    BY <1>1, <1>10, <2>1, OneStep
  <2>3. (x + p) % IdSpace \in Pending(s) /\ p \in d + 1 .. IdSpace - 1
    BY <1>2, <1>4, <1>10, <2>2
  <2> QED
    BY <2>3 DEF Ahead
<1> HIDE DEF S, L, e, ahead
<1>17. Cardinality(L \cup Ahead(t, x, e)) < lim
  <2>1. L \cup Ahead(t, x, e) \subseteq K \cup ahead
    BY <1>11, <1>16 DEF L
  <2>2. /\ Cardinality(L \cup Ahead(t, x, e)) <= Cardinality(K \cup ahead)
        /\ IsFiniteSet(L \cup Ahead(t, x, e))
    BY <1>2, <2>1, FS_Subset
  <2>3. Cardinality(L \cup Ahead(t, x, e)) \in Nat /\ Cardinality(K \cup ahead) \in Nat
    BY <1>2, <2>2, FS_CardinalityType
  <2> QED
    BY <1>1, <1>2, <2>2, <2>3
<1>18. Round(t, j, L)
  <2>1. t.log[j].id = x /\ Len(t.log) = n + 1
    BY <1>4 DEF x
  <2>2. e < IdSpace
    BY <1>1, <1>10
  <2> QED
    BY <1>4, <1>13, <1>14, <1>15, <1>17, <2>1, <2>2 DEF Round
<1>19. id # x
  <2>1. x = (x + 0) % IdSpace
    BY <1>1, Z3
  <2>2. 0 \in 0 .. IdSpace - 1 /\ e \in 0 .. IdSpace - 1 /\ e # 0 /\ x \in Nat /\ IdSpace > 0
    BY <1>1, <1>10
  <2> QED
    BY <1>1, <1>10, <2>1, <2>2, OneStep
<1> QED
  BY <1>4, <1>13, <1>18, <1>19 DEF x, n

\* The steps from the id of a request to those pending are as many as the other
\* pending requests.
LEMMA RoundBegins ==
  ASSUME NEW s \in State, NEW t \in State, Asks(s, t)
  PROVE  Round(t, Len(s.log) + 1, {})
<1> DEFINE n == Len(s.log)
           id == AllocateId(s)
           ahead == Ahead(t, id, 0)
           others == Pending(t) \ {id}
           f == [k \in ahead |-> (id + k) % IdSpace]
<1>1. /\ IdSpace \in Nat /\ IdSpace > 1 /\ n \in Nat /\ s.client.limit \in 1 .. IdSpace - 1
  <2>1. s.client.limit \in 1 .. IdSpace - 1
    BY IdFacts DEF State, Client
  <2> QED
    BY <2>1, LogFacts, IdFacts
<1>2. /\ Cardinality(Pending(s)) < s.client.limit /\ t.client.limit = s.client.limit
      /\ t.log[n + 1].id = id /\ t.pending.next = (id + 1) % IdSpace
      /\ Pending(t) = Pending(s) \cup {id} /\ Len(t.log) = n + 1
  BY DEF Asks, Allocates
<1>3. id \in 0 .. IdSpace - 1 /\ id \notin Pending(s)
  <2>1. Cardinality(Pending(s)) < IdSpace
    BY <1>1, <1>2, PendingFinite
  <2> QED
    BY <2>1, AllocatesFree DEF Id
<1> HIDE DEF id
<1>4. others = Pending(s)
  BY <1>2, <1>3
<1>5. ASSUME NEW k \in ahead PROVE f[k] \in others /\ k \in 1 .. IdSpace - 1
  <2>1. k \in 1 .. IdSpace - 1 /\ (id + k) % IdSpace \in Pending(t)
    BY <1>1, <1>5 DEF Ahead
  <2>2. k \in 0 .. IdSpace - 1 /\ 0 \in 0 .. IdSpace - 1 /\ k # 0 /\ id \in Nat /\ IdSpace > 0
    BY <1>1, <1>3, <2>1
  <2>3. (id + k) % IdSpace # (id + 0) % IdSpace
    BY <1>1, <2>2, OneStep
  <2>4. (id + 0) % IdSpace = id
    BY <1>1, <1>3, Z3
  <2> QED
    BY <1>5, <2>1, <2>3, <2>4
<1>6. ASSUME NEW k \in ahead, NEW l \in ahead, f[k] = f[l] PROVE k = l
  <2>1. k \in 0 .. IdSpace - 1 /\ l \in 0 .. IdSpace - 1 /\ id \in Nat /\ IdSpace > 0
    BY <1>1, <1>3, <1>5
  <2>2. (id + k) % IdSpace = (id + l) % IdSpace
    BY <1>6
  <2> QED
    BY <1>1, <2>1, <2>2, OneStep
<1>7. f \in Injection(ahead, others)
  <2> HIDE DEF ahead, others
  <2>1. f \in [ahead -> others]
    BY <1>5
  <2> HIDE DEF f
  <2> QED
    BY <1>6, <2>1 DEF Injection, IsInjective
<1>8. Cardinality(ahead) <= Cardinality(others)
  <2>1. IsFiniteSet(others)
    BY <1>4, PendingFinite
  <2> HIDE DEF f, ahead, others
  <2> QED
    BY <1>7, <2>1, FS_Injection
<1>9. IsFiniteSet(ahead) /\ Cardinality(ahead) \in Nat
  BY AheadFinite
<1>10. Cardinality(ahead) < t.client.limit
  <2>1. Cardinality(Pending(s)) \in Nat
    BY PendingFinite
  <2> HIDE DEF ahead, others
  <2> QED
    BY <1>1, <1>2, <1>4, <1>8, <1>9, <2>1
<1> QED
  <2>1. Cardinality({}) = 0 /\ {} \cup ahead = ahead
    BY FS_EmptySet
  <2> DEFINE d == (Len(t.log) - (n + 1)) + Cardinality({})
  <2>2. d = 0
    BY <1>1, <1>2, <2>1
  <2> HIDE DEF d
  <2>3. id + d + 1 = id + 1
    BY <1>3, <2>2
  <2>4. {} \subseteq 1 .. d /\ d < IdSpace
    BY <1>1, <2>2
  <2>5. t.pending.next = (id + d + 1) % IdSpace
    BY <1>2, <2>3
  <2>6. Cardinality({} \cup Ahead(t, id, d)) < t.client.limit
    BY <1>10, <2>1, <2>2
  <2> QED
    BY <1>2, <2>4, <2>5, <2>6 DEF Round, d

\* A round is as it was when ids are only given back.
LEMMA RoundStays ==
  ASSUME NEW s \in State, NEW t \in State, Stays(s, t),
         NEW j \in 1 .. Len(s.log), NEW K \in SUBSET (1 .. IdSpace - 1), Round(s, j, K)
  PROVE  Round(t, j, K)
<1> DEFINE d == (Len(s.log) - j) + Cardinality(K)
           x == s.log[j].id
           ahead == Ahead(s, x, d)
<1>1. /\ IsFiniteSet(K \cup ahead) /\ Cardinality(K \cup ahead) < s.client.limit
      /\ d \in 0 .. IdSpace - 1 /\ s.client.limit \in Nat
  <2>1. s.client.limit \in Nat
    BY Numbers
  <2>2. Rounding(s, j, K, d, ahead)
    BY DEF Rounding
  <2> HIDE DEF d, ahead
  <2>3. Short(s, K, d, ahead)
    BY <2>2, RoundFacts
  <2> QED
    BY <2>1, <2>3 DEF Short
<1>2. /\ Len(t.log) = Len(s.log) /\ t.log[j].id = x
      /\ t.pending.next = s.pending.next /\ Pending(t) \subseteq Pending(s)
      /\ t.client.limit = s.client.limit
  BY LogFacts DEF Stays
<1>3. K \cup Ahead(t, x, d) \subseteq K \cup ahead
  BY <1>2 DEF Ahead
<1> HIDE DEF ahead
<1>4. Cardinality(K \cup Ahead(t, x, d)) < t.client.limit
  <2>1. /\ Cardinality(K \cup Ahead(t, x, d)) <= Cardinality(K \cup ahead)
        /\ IsFiniteSet(K \cup Ahead(t, x, d))
    BY <1>1, <1>3, FS_Subset
  <2>2. Cardinality(K \cup Ahead(t, x, d)) \in Nat /\ Cardinality(K \cup ahead) \in Nat
    BY <1>1, <2>1, FS_CardinalityType
  <2> QED
    BY <1>1, <1>2, <2>1, <2>2
<1> QED
  BY <1>2, <1>4 DEF Round

LEMMA FarStays ==
  ASSUME NEW s \in State, NEW t \in State, Rounds(s), Apart(s), Stays(s, t)
  PROVE  Rounds(t) /\ Apart(t)
<1>1. /\ Len(t.log) = Len(s.log) /\ Len(s.log) \in Nat
      /\ \A r \in 1 .. Len(s.log) : t.log[r].id = s.log[r].id
      /\ \A r \in 1 .. Len(s.log) : t.client.limit = s.client.limit
  BY LogFacts DEF Stays
<1>2. Apart(t)
  BY <1>1 DEF Apart
<1>3. ASSUME NEW j \in 1 .. Len(t.log), Near(t, j)
      PROVE  \E K \in SUBSET (1 .. IdSpace - 1) : Round(t, j, K)
  <2>1. j \in 1 .. Len(s.log) /\ Near(s, j)
    BY <1>1, <1>3 DEF Near
  <2>2. PICK K \in SUBSET (1 .. IdSpace - 1) : Round(s, j, K)
    BY <2>1 DEF Rounds
  <2> QED
    BY <2>1, <2>2, RoundStays
<1> QED
  BY <1>2, <1>3 DEF Rounds

LEMMA FarAsks ==
  ASSUME NEW s \in State, NEW t \in State, Rounds(s), Apart(s), Asks(s, t)
  PROVE  Rounds(t) /\ Apart(t)
<1> DEFINE n == Len(s.log)
<1>1. /\ n \in Nat /\ Len(t.log) = n + 1 /\ t.client.limit = s.client.limit
      /\ \A r \in 1 .. n : t.log[r] = s.log[r]
  BY LogFacts DEF Asks, Allocates
<1>2. IdSpace \in Nat /\ s.client.limit \in 1 .. IdSpace - 1
  BY IdFacts DEF State, Client
<1>3. ASSUME NEW j \in 1 .. n, Near(t, j)
      PROVE  /\ \E L \in SUBSET (1 .. IdSpace - 1) : Round(t, j, L)
             /\ t.log[n + 1].id # s.log[j].id
  <2>1. Near(s, j)
    BY <1>1, <1>2, <1>3 DEF Near
  <2>2. PICK K \in SUBSET (1 .. IdSpace - 1) : Round(s, j, K)
    BY <2>1 DEF Rounds
  <2> QED
    BY <1>3, <2>2, RoundGoesOn
<1>4. Round(t, n + 1, {})
  BY RoundBegins
<1> HIDE DEF n
<1>5. Rounds(t)
  <2> SUFFICES ASSUME NEW j \in 1 .. n + 1, Near(t, j)
               PROVE  \E K \in SUBSET (1 .. IdSpace - 1) : Round(t, j, K)
    BY <1>1 DEF Rounds
  <2>1. CASE j \in 1 .. n
    BY <1>3, <2>1
  <2>2. CASE j = n + 1
    BY <1>4, <2>2
  <2> QED
    <3>1. j \in 1 .. n \/ j = n + 1
      BY <1>1
    <3> QED
      BY <2>1, <2>2, <3>1, ZenonT(60)
<1>6. Apart(t)
  <2> SUFFICES ASSUME NEW i \in 1 .. n + 1, NEW j \in 1 .. n + 1, i < j, t.log[i].id = t.log[j].id
               PROVE  j - i > IdSpace - s.client.limit
    BY <1>1 DEF Apart
  <2>1. i \in 1 .. n /\ t.log[i] = s.log[i]
    BY <1>1
  <2>2. CASE j \in 1 .. n
    BY <1>1, <2>1, <2>2 DEF Apart, n
  <2>3. CASE j = n + 1
    <3>1. ~Near(t, i)
      BY <1>3, <2>1, <2>3
    <3> QED
      BY <1>1, <1>2, <2>1, <2>3, <3>1 DEF Near
  <2> QED
    BY <1>1, <2>2, <2>3
<1> QED
  BY <1>5, <1>6

LEMMA FarKept ==
  ASSUME NEW s \in State, NEW t \in State, Good(s), Far(s), Step(s, t)
  PROVE  Far(t)
<1>1. /\ Len(s.log) \in Nat
      /\ \A r \in 1 .. Len(s.log) :
           s.log[r].promise.state = "answered" => s.log[r].promise.of \in 1 .. Len(s.log)
  BY LogFacts DEF Good, Bounded
<1>2. CASE Keeps(s, t)
  <2>1. Rounds(t) /\ Apart(t)
    BY <1>2, FarStays DEF Far, Keeps
  <2>2. OneId(t)
    BY <1>1, <1>2, SMTT(60) DEF Far, OneId, Keeps, Stays, Rejects, Rejected
  <2> QED
    BY <2>1, <2>2 DEF Far
<1>3. CASE Asks(s, t)
  <2>1. Rounds(t) /\ Apart(t)
    BY <1>3, FarAsks DEF Far
  <2>2. /\ Len(t.log) = Len(s.log) + 1 /\ t.log[Len(s.log) + 1].promise = Waiting
        /\ \A r \in 1 .. Len(s.log) : t.log[r] = s.log[r]
    BY <1>3 DEF Asks
  <2>3. ASSUME NEW r \in 1 .. Len(t.log), t.log[r].promise.state = "answered"
        PROVE  t.log[r].promise.of <= r /\ t.log[t.log[r].promise.of].id = t.log[r].id
    <3>1. r \in 1 .. Len(s.log) \/ r = Len(s.log) + 1
      BY <1>1, <2>2
    <3>2. r \in 1 .. Len(s.log) /\ t.log[r] = s.log[r]
      BY <2>2, <2>3, <3>1 DEF Waiting
    <3>3. s.log[r].promise.of \in 1 .. Len(s.log)
      BY <1>1, <2>3, <3>2
    <3> QED
      BY <2>2, <2>3, <3>2, <3>3 DEF Far, OneId
  <2>4. OneId(t)
    BY <2>3 DEF OneId
  <2> QED
    BY <2>1, <2>4 DEF Far
<1>4. CASE Sends(s, t)
  <2>1. Rounds(t) /\ Apart(t)
    BY <1>4, FarStays DEF Far, Sends
  <2>2. OneId(t)
    BY <1>4 DEF Far, OneId, Sends
  <2> QED
    BY <2>1, <2>2 DEF Far
<1>5. CASE Answers(s, t)
  <2>1. PICK r \in 1 .. Len(s.log), q \in 1 .. Len(s.log) :
          /\ Stays(s, t) /\ s.log[r].id = s.log[q].id /\ r <= q
          /\ t.log[q].promise.of = r
          /\ \A p \in 1 .. Len(s.log) : p # q => t.log[p].promise = s.log[p].promise
    BY <1>5 DEF Answers
  <2>2. Rounds(t) /\ Apart(t)
    BY <2>1, FarStays DEF Far
  <2>3. /\ Len(t.log) = Len(s.log)
        /\ \A p \in 1 .. Len(s.log) : t.log[p].id = s.log[p].id
    BY <2>1 DEF Stays
  <2>4. ASSUME NEW p \in 1 .. Len(s.log), t.log[p].promise.state = "answered"
        PROVE  t.log[p].promise.of <= p /\ t.log[t.log[p].promise.of].id = t.log[p].id
    <3>1. CASE p = q
      BY <2>1, <2>3, <3>1
    <3>2. CASE p # q
      <4>1. s.log[p].promise.of \in 1 .. Len(s.log) /\ t.log[p].promise = s.log[p].promise
        BY <1>1, <2>1, <2>4, <3>2
      <4> QED
        BY <2>3, <2>4, <4>1 DEF Far, OneId
    <3> QED
      BY <3>1, <3>2
  <2>5. OneId(t)
    BY <2>3, <2>4 DEF OneId
  <2> QED
    BY <2>2, <2>5 DEF Far
<1> QED
  BY <1>2, <1>3, <1>4, <1>5 DEF Step

\* A request gets a response that is not its own only when more requests than
\* there are ids, less the limit on those pending, were made between the two: with
\* the ids and the limit of the code, about 2^32 (sftp.ts:493-501 and 611).
THEOREM ResponsesClose == Spec => []StaleDistance
<1>1. Init => Far(Now)
  <2> SUFFICES ASSUME Init PROVE Far(Now)
    OBVIOUS
  <2>1. Len(Now.log) = 0
    BY DEF Init, Now
  <2> QED
    BY <2>1 DEF Far, Rounds, Apart, OneId
<1>2. IInv /\ IInv' /\ Far(Now) /\ [Next]_vars => Far(Now)'
  <2> SUFFICES ASSUME IInv, IInv', Far(Now), [Next]_vars PROVE Far(Now')
    OBVIOUS
  <2>1. Step(Now, Now')
    BY EveryStep DEF NowStep
  <2> QED
    BY <2>1, FarKept DEF IInv, Good
<1>3. IInv /\ Far(Now) => StaleDistance
  <2> SUFFICES ASSUME IInv, Far(Now), NEW r \in DOMAIN log, log[r].promise.state = "answered",
                      log[r].promise.of # r
               PROVE  r - log[r].promise.of > IdSpace - client.limit
    BY DEF StaleDistance
  <2>1. r \in 1 .. Len(log) /\ Len(log) \in Nat /\ Now.log = log /\ Now.client = client
    BY NowFacts DEF Now
  <2>2. log[r].promise.of \in 1 .. Len(log)
    BY <2>1 DEF IInv, Good, Bounded
  <2>3. log[r].promise.of <= r /\ log[log[r].promise.of].id = log[r].id
    BY <2>1 DEF Far, OneId
  <2> QED
    BY <2>1, <2>2, <2>3 DEF Far, Apart
<1> QED
  BY <1>1, <1>2, <1>3, Invariant, PTL DEF Spec

-----------------------------------------------------------------------------
(* The handles of the server.                                              *)

\* The requests whose response is still to come.
Coming(s) == s.server.owed \cup In(s)
CrossedIn(s) == \E r \in 1 .. Len(s.log) : s.log[r].promise.of \notin {None, r}

\* The request of an operation is of the kind that its place tells, and only its
\* signal ends the wait for the OPEN early.
Asked(s, o) ==
  LET e == s.op[o]
      entry == s.log[e.req]
  IN  IF e.req = None THEN e.at = "close" => e.refused
      ELSE /\ entry.op = o
           /\ e.at = "open" => /\ entry.kind = "OPEN"
                               /\ entry.promise.state = "rejected" => e.aborted
           /\ e.at = "work" => entry.kind \notin {"OPEN", "CLOSE"}
           /\ e.at = "close" => entry.kind = "CLOSE"

\* It has its own handle, unless its OPEN has not returned.
Placed(s, o) ==
  LET e == s.op[o] IN
  /\ e.at # "terminate"
  /\ e.at \in {"idle", "open"} => e.handle = "none"
  /\ e.at \in {"open", "ready", "close"} => e.kind # "stat"
  /\ e.kind # "stat" /\ e.at \in {"ready", "work", "close"} => e.handle = o

\* Of the requests it made, the response to the OPEN comes while it opens or after
\* that was aborted, and the CLOSE is the last.
Before(s, o) ==
  \A r \in 1 .. Len(s.log) : s.log[r].op = o =>
    LET e == s.op[o] IN
    /\ e.at # "idle"
    /\ e.kind = "stat" => s.log[r].kind \notin {"OPEN", "CLOSE"}
    /\ s.log[r].kind = "OPEN" /\ r \in Coming(s) =>
         \/ e.at = "open" /\ e.req = r
         \/ e.at = "failed" /\ e.aborted /\ e.handle = "none"
    /\ s.log[r].kind = "CLOSE" =>
         e.req = r /\ e.handle = o /\ e.at \in {"close", "done", "failed"}

Excused(s, o) ==
  LET e == s.op[o] IN
  \/ e.aborted /\ e.handle = "none"
  \/ e.refused
  \/ e.req # None /\ s.log[e.req].kind = "CLOSE" /\ s.log[e.req].promise.result = "refused"

\* What is known of an operation whose handle the server holds open.
Kept(s, o) ==
  o \in s.server.handles =>
    LET e == s.op[o]
        promise == s.log[e.req].promise
    IN  /\ e.at # "idle" /\ e.kind # "stat"
        /\ e.at = "open" => /\ e.req # None /\ promise.state # "waiting"
                            /\ promise.state = "answered" => promise.result = "handle"
        /\ e.at = "close" => e.refused \/ promise.state = "waiting" \/ promise.result = "refused"
        /\ e.at \in {"done", "failed"} => Excused(s, o)

Mine(s, o) == Asked(s, o) /\ Placed(s, o) /\ Before(s, o) /\ Kept(s, o)
Handled(s) == s.client.closed \/ CrossedIn(s) \/ \A o \in Ops : Mine(s, o)

\* A step that leaves an operation and its requests alone.
Spares(s, t, o) ==
  /\ t.op[o] = s.op[o] /\ (o \in t.server.handles => o \in s.server.handles)
  /\ \A r \in 1 .. Len(s.log) : s.log[r].op = o =>
       /\ r \in 1 .. Len(t.log)
       /\ t.log[r].op = o /\ t.log[r].kind = s.log[r].kind /\ t.log[r].promise = s.log[r].promise
  /\ \A r \in 1 .. Len(t.log) : t.log[r].op = o =>
       r \in 1 .. Len(s.log) /\ s.log[r].op = o /\ (r \in Coming(t) => r \in Coming(s))

\* The request of an operation was made.
LEMMA RequestIn ==
  ASSUME NEW s \in State, Good(s), NEW o \in Ops
  PROVE  /\ Len(s.log) \in Nat /\ s.op[o] \in Operation
         /\ s.op[o].req # None => s.op[o].req \in 1 .. Len(s.log)
<1>1. Len(s.log) \in Nat /\ s.op[o] \in Operation /\ s.op[o].req <= Len(s.log)
  BY LogFacts, OpTyped DEF Good, Bounded
<1> QED
  BY <1>1 DEF Operation, None

LEMMA SparedMine ==
  ASSUME NEW s \in State, Good(s), NEW t, NEW o \in Ops, Mine(s, o), Spares(s, t, o)
  PROVE  Mine(t, o)
<1> DEFINE e == s.op[o]
<1>1. e.req # None => e.req \in 1 .. Len(s.log)
  BY RequestIn
<1>2. t.op[o] = e /\ (o \in t.server.handles => o \in s.server.handles)
  BY DEF Spares
<1>3. \A r \in 1 .. Len(s.log) : s.log[r].op = o =>
        t.log[r].op = o /\ t.log[r].kind = s.log[r].kind /\ t.log[r].promise = s.log[r].promise
  BY DEF Spares
<1>4. e.req # None =>
        /\ s.log[e.req].op = o /\ t.log[e.req].op = o
        /\ t.log[e.req].kind = s.log[e.req].kind /\ t.log[e.req].promise = s.log[e.req].promise
  BY <1>1, <1>3 DEF Mine, Asked
<1>5. Asked(t, o)
  BY <1>2, <1>4 DEF Mine, Asked
<1>6. Placed(t, o)
  BY <1>2 DEF Mine, Placed
<1>7. Before(t, o)
  BY <1>2, <1>3 DEF Mine, Before, Spares
<1>8. Kept(t, o)
  <2>1. Excused(s, o) => Excused(t, o)
    BY <1>2, <1>4 DEF Excused
  <2>2. e.at = "close" => e.refused \/ e.req # None
    BY DEF Mine, Asked
  <2> QED
    BY <1>2, <1>4, <2>1, <2>2 DEF Mine, Kept
<1> QED
  BY <1>5, <1>6, <1>7, <1>8 DEF Mine

\* A response once given to another request stays so, and so does the end of the
\* client.
LEMMA CrossedStays ==
  ASSUME NEW s \in State, Good(s), Unused(s), NEW t, Step(s, t)
  PROVE  /\ CrossedIn(s) => CrossedIn(t)
         /\ s.client.closed => t.client.closed
<1>1. \A r \in 1 .. Len(s.log) :
        s.log[r].promise.of \notin {None, r} => s.log[r].promise.state = "answered"
  BY DEF Unused
<1>2. Len(s.log) \in Nat
  BY LogFacts
<1>3. CASE Keeps(s, t)
  BY <1>1, <1>3 DEF Keeps, Stays, Rejects, CrossedIn
<1>4. CASE Asks(s, t)
  <2>1. \A r \in 1 .. Len(s.log) : r \in 1 .. Len(t.log) /\ t.log[r] = s.log[r]
    BY <1>2, <1>4 DEF Asks
  <2> QED
    BY <1>4, <2>1 DEF Asks, Allocates, CrossedIn
<1>5. CASE Sends(s, t)
  BY <1>5 DEF Sends, Stays, CrossedIn
<1>6. CASE Answers(s, t)
  <2>1. PICK q \in 1 .. Len(s.log) :
          /\ Stays(s, t) /\ s.log[q].promise.state = "waiting" /\ Len(t.log) = Len(s.log)
          /\ \A p \in 1 .. Len(s.log) : p # q => t.log[p].promise = s.log[p].promise
    BY <1>6 DEF Answers
  <2> QED
    BY <1>1, <2>1 DEF Stays, CrossedIn
<1> QED
  BY <1>3, <1>4, <1>5, <1>6 DEF Step

\* So it is enough to look at the operations while neither has come about.
LEMMA HandledIf ==
  ASSUME IInv, Unused(Now), Handled(Now), NowStep,
         ~client'.closed /\ ~CrossedIn(Now') /\ ~CrossedIn(Now) /\ (\A o \in Ops : Mine(Now, o))
         => \A o \in Ops : Mine(Now', o)
  PROVE  Handled(Now')
<1>1. /\ CrossedIn(Now) => CrossedIn(Now')
      /\ Now.client.closed => Now'.client.closed
  BY NowFacts, CrossedStays DEF NowStep
<1>2. Now'.client = client'
  BY DEF Now
<1> QED
  BY <1>1, <1>2 DEF Handled

\* A step that changes neither the operations nor the log, nor adds a handle.
LEMMA QuietHandled ==
  ASSUME IInv, Unused(Now), Handled(Now), NowStep,
         op' = op, log' = log, server'.handles \subseteq server.handles
  PROVE  Handled(Now')
<1>0. Keeps(Now, Now') \/ Sends(Now, Now')
  <2>1. Now'.log = Now.log /\ Len(Now.log) \in Nat
    BY NowFacts DEF Now
  <2>2. ~Asks(Now, Now') /\ ~Answers(Now, Now')
    BY <2>1 DEF Asks, Answers
  <2> QED
    BY <2>2 DEF NowStep, Step
<1>1. Now'.op = Now.op /\ Now'.log = Now.log /\ Now'.server.handles \subseteq Now.server.handles
  BY DEF Now
<1>2. \A r \in 1 .. Len(Now.log) : r \in Coming(Now') => r \in Coming(Now)
  <2>1. CASE Keeps(Now, Now')
    BY <2>1 DEF Keeps, Coming
  <2>2. CASE Sends(Now, Now')
    <3>1. PICK r \in In(Now) \cup {None} :
            Now'.server.owed \subseteq Now.server.owed \cup {r} /\ In(Now') \subseteq In(Now)
      BY <2>2 DEF Sends
    <3> QED
      BY <3>1 DEF Coming, None
  <2> QED
    BY <1>0, <2>1, <2>2
<1>3. \A o \in Ops : Spares(Now, Now', o)
  BY <1>1, <1>2 DEF Spares
<1>4. Good(Now) /\ Now \in State
  BY NowFacts
<1>5. \A o \in Ops : Mine(Now, o) => Mine(Now', o)
  BY <1>3, <1>4, SparedMine
<1> QED
  BY <1>5, HandledIf

\* What is new in an operation alone says nothing of the others.
LEMMA OpSpares ==
  ASSUME NEW s \in State, NEW o \in Ops, NEW e \in Operation
  PROVE  LET t == [s EXCEPT !.op[o] = e] IN
         /\ t.op[o] = e /\ t.log = s.log /\ t.server = s.server /\ Coming(t) = Coming(s)
         /\ \A p \in Ops : p # o => Spares(s, t, p)
<1> DEFINE t == [s EXCEPT !.op[o] = e]
<1>1. t.op = [s.op EXCEPT ![o] = e] /\ s.op \in [Ops -> Operation]
  BY OpAt, OpTyped
<1>2. /\ t.log = s.log /\ t.out = s.out /\ t.client = s.client /\ t.server = s.server
      /\ t.pending = s.pending
  BY OpSet
<1> HIDE DEF t
<1>3. Coming(t) = Coming(s)
  BY <1>2 DEF Coming, In
<1>4. \A p \in Ops : p # o => Spares(s, t, p)
  BY <1>1, <1>2, <1>3 DEF Spares
<1> QED
  BY <1>1, <1>2, <1>3, <1>4 DEF t

\* An operation goes on without a request.
LEMMA OpHandled ==
  ASSUME IInv, Unused(Now), Handled(Now), NowStep, NEW o \in Ops, NEW e \in Operation,
         op' = [op EXCEPT ![o] = e], UNCHANGED <<log, pending, out, writer, client, server>>,
         NEW t, t = [Now EXCEPT !.op[o] = e],
         ~client.closed /\ ~CrossedIn(Now) /\ Mine(Now, o) => Mine(t, o)
  PROVE  Handled(Now')
<1>1. Good(Now) /\ Now \in State
  BY NowFacts
<1>2. \A p \in Ops : p # o => Spares(Now, t, p)
  BY <1>1, OpSpares
<1>3. \A p \in Ops : p # o /\ Mine(Now, p) => Mine(t, p)
  BY <1>1, <1>2, SparedMine
<1>4. Now' = t
  BY DEF Now
<1> QED
  BY <1>3, <1>4, HandledIf

-----------------------------------------------------------------------------
(* Requests.                                                               *)

\* An operation that may make this request.
Ready(s, e, o, at, kind) ==
  /\ \A r \in 1 .. Len(s.log) : s.log[r].op = o =>
       /\ s.log[r].kind # "CLOSE" /\ (s.log[r].kind = "OPEN" => r \notin Coming(s))
       /\ e.kind = "stat" => s.log[r].kind # "OPEN"
  /\ at \in {"open", "work", "close"}
  /\ (kind = "OPEN" <=> at = "open") /\ (kind = "CLOSE" <=> at = "close")
  /\ at = "open" => e.handle = "none" /\ o \notin s.server.handles
  /\ e.kind = "stat" => at = "work" /\ o \notin s.server.handles
  /\ e.kind # "stat" /\ at \in {"work", "close"} => e.handle = o

LEMMA RequestMine ==
  ASSUME NEW s \in State, Good(s), NEW o \in Ops, NEW e \in Operation, e.req = s.op[o].req,
         s.client.connect # "idle", NEW at \in Stage, NEW kind \in ReqKind,
         Ready(s, e, o, at, kind), \A p \in Ops : Mine(s, p)
  PROVE  \A p \in Ops : Mine(Request([s EXCEPT !.op[o] = e], o, at, kind), p)
<1> DEFINE u == [s EXCEPT !.op[o] = e]
           t == Request(u, o, at, kind)
           n == Len(s.log)
<1>1. /\ Good(u) /\ u \in State
      /\ u.op[o] = e /\ u.log = s.log /\ u.server = s.server /\ Coming(u) = Coming(s)
      /\ \A p \in Ops : p # o => Spares(s, u, p)
  BY OpStep, OpSpares
<1> HIDE DEF u
<1>2. \A p \in Ops : p # o => Mine(u, p)
  BY <1>1, SparedMine
<1>3. Ready(u, e, o, at, kind)
  BY <1>1 DEF Ready
<1>4. Keeps(u, t) \/ Asks(u, t)
  BY <1>1, RequestSteps
<1>5. u.op \in [Ops -> Operation] /\ n \in Nat /\ u.log \in Seq(Entry)
  BY <1>1, OpTyped, LogFacts
<1>6. CASE Refuses(u, o, kind)
  <2> DEFINE new == [e EXCEPT !.at = at, !.req = None, !.refused = @ \/ (kind = "CLOSE")]
  <2>1. /\ t.op = [u.op EXCEPT ![o] = new] /\ t.log = u.log /\ t.server = u.server
        /\ t.out = u.out /\ t.client = u.client
    BY <1>1, <1>5, <1>6 DEF Request, State
  <2>2. /\ new.at = at /\ new.req = None /\ new.kind = e.kind /\ new.handle = e.handle
        /\ new.aborted = e.aborted /\ (kind = "CLOSE" => new.refused)
    BY DEF Operation
  <2> HIDE DEF new, t
  <2>3. Coming(t) = Coming(u)
    BY <2>1 DEF Coming, In
  <2>4. \A p \in Ops : p # o => Spares(u, t, p)
    BY <2>1, <2>3, <1>5 DEF Spares
  <2>5. t.op[o] = new
    BY <1>5, <2>1
  <2>6. Asked(t, o) /\ Placed(t, o)
    BY <1>3, <2>2, <2>5 DEF Asked, Placed, Ready
  <2>7. Before(t, o)
    BY <1>3, <2>1, <2>2, <2>3, <2>5 DEF Before, Ready
  <2>8. Kept(t, o)
    BY <1>3, <2>1, <2>2, <2>5 DEF Kept, Ready
  <2>9. \A p \in Ops : p # o => Mine(t, p)
    BY <1>1, <1>2, <2>4, SparedMine
  <2>10. \A p \in Ops : Mine(t, p)
    BY <2>6, <2>7, <2>8, <2>9 DEF Mine
  <2> QED
    BY <2>10 DEF t, u
<1>7. CASE ~Refuses(u, o, kind)
  <2> DEFINE new == [e EXCEPT !.at = at, !.req = n + 1]
             entry == [op |-> o, kind |-> kind, id |-> AllocateId(u), promise |-> Waiting]
  <2>1. /\ t.op = [u.op EXCEPT ![o] = new] /\ t.log = Append(u.log, entry)
        /\ t.server = u.server /\ t.out = Append(u.out, n + 1)
    BY <1>1, <1>5, <1>7 DEF Request, State
  <2>2. /\ new.at = at /\ new.req = n + 1 /\ new.kind = e.kind /\ new.handle = e.handle
        /\ new.aborted = e.aborted
    BY DEF Operation
  <2>3. entry.op = o /\ entry.kind = kind /\ entry.promise = Waiting
    OBVIOUS
  <2> HIDE DEF new, entry, t
  <2>4. /\ Len(t.log) = n + 1 /\ t.log[n + 1] = entry
        /\ \A r \in 1 .. n : t.log[r] = u.log[r] /\ r \in 1 .. n + 1
    BY <1>1, <1>5, <2>1
  <2>5. \A r \in 1 .. n + 1 : r \in 1 .. n \/ r = n + 1
    BY <1>5
  <2>6. \A r \in 1 .. n : r \in Coming(t) => r \in Coming(u)
    <3>1. In(t) \subseteq In(u) \cup {n + 1}
      BY <1>1, <1>4 DEF Keeps, Asks
    <3>2. \A r \in 1 .. n : r # n + 1
      BY <1>5
    <3> QED
      BY <2>1, <3>1, <3>2 DEF Coming
  <2>7. \A p \in Ops : p # o => Spares(u, t, p)
    BY <1>1, <1>5, <2>1, <2>3, <2>4, <2>5, <2>6 DEF Spares
  <2>8. t.op[o] = new
    BY <1>5, <2>1
  <2>9. n + 1 # None
    BY <1>5 DEF None
  <2>10. Asked(t, o) /\ Placed(t, o)
    BY <1>3, <2>2, <2>3, <2>4, <2>8, <2>9 DEF Asked, Placed, Ready, Waiting
  <2>11. Before(t, o)
    BY <1>1, <1>3, <2>2, <2>3, <2>4, <2>5, <2>6, <2>8 DEF Before, Ready
  <2>12. Kept(t, o)
    BY <1>1, <1>3, <2>1, <2>2, <2>3, <2>4, <2>8, <2>9 DEF Kept, Ready, Waiting
  <2>13. \A p \in Ops : p # o => Mine(t, p)
    BY <1>1, <1>2, <2>7, SparedMine
  <2>14. \A p \in Ops : Mine(t, p)
    BY <2>10, <2>11, <2>12, <2>13 DEF Mine
  <2> QED
    BY <2>14 DEF t, u
<1> QED
  BY <1>6, <1>7

\* From the operation as it stands, with another field of it set.
LEMMA RequestHandled ==
  ASSUME IInv, Unused(Now), Handled(Now), NowStep, NEW o \in Ops, NEW e \in Operation,
         e.req = op[o].req, client.connect # "idle", NEW at \in Stage, NEW kind \in ReqKind,
         Become(Request([Now EXCEPT !.op[o] = e], o, at, kind)),
         ~CrossedIn(Now) /\ Mine(Now, o) => Ready(Now, e, o, at, kind)
  PROVE  Handled(Now')
<1> DEFINE u == [Now EXCEPT !.op[o] = e]
           t == Request(u, o, at, kind)
<1>1. Good(Now) /\ Now \in State /\ Now.client = client /\ Now.op = op
  BY NowFacts DEF Now
<1>2. Good(u)
  BY <1>1, OpStep
<1>3. u.client.connect # "idle"
  BY <1>1, OpSet
<1>4. Good(t)
  BY <1>2, <1>3, RequestGood DEF Good
<1>5. Now' = t
  BY <1>4, Became DEF Good
<1>6. Ready(Now, e, o, at, kind) /\ (\A p \in Ops : Mine(Now, p)) => \A p \in Ops : Mine(t, p)
  BY <1>1, RequestMine
<1> HIDE DEF t
<1> QED
  BY <1>5, <1>6, HandledIf

\* The client is closed by the step.
LEMMA ClosedHandled ==
  ASSUME client'.closed
  PROVE  Handled(Now')
  BY DEF Handled, Now

LEMMA EndHandled ==
  ASSUME IInv, NEW o \in Ops, NEW then, Become(EndClient(Now, o, then))
  PROVE  Handled(Now')
<1>1. Terminated(Now) \in State /\ Terminated(Now).client.closed
  BY NowFacts, TerminatedGood DEF Good, Exact
<1>2. EndClient(Now, o, then).client = Terminated(Now).client
  BY <1>1 DEF EndClient, State
<1> QED
  BY <1>1, <1>2, ClosedHandled DEF Become

\* The other requests of an operation under way that has its handle.
LEMMA HandleReady ==
  ASSUME NEW s \in State, NEW o \in Ops, Mine(s, o), s.op[o].at \in {"ready", "work"},
         s.op[o].kind # "stat", NEW e \in Operation, e.kind = s.op[o].kind,
         e.handle = s.op[o].handle
  PROVE  /\ Ready(s, e, o, "close", "CLOSE")
         /\ \A kind \in ReqKind \ {"OPEN", "CLOSE"} : Ready(s, e, o, "work", kind)
  BY DEF Mine, Placed, Before, Ready

LEMMA CloseHandled ==
  ASSUME IInv, Unused(Now), Handled(Now), NowStep, NEW o \in Ops, NEW then \in {"done", "failed"},
         op[o].at \in {"ready", "work"}, op[o].kind # "stat", Become(CloseHandle(Now, o, then))
  PROVE  Handled(Now')
<1>1. op[o] \in Operation /\ Now.op = op /\ Now.client = client /\ Now \in State
  BY NowFacts DEF Now
<1>2. CASE client.closed
  BY <1>1, <1>2, NowFacts, CrossedStays DEF Handled, NowStep
<1>3. CASE ~client.closed
  <2> DEFINE e == [op[o] EXCEPT !.then = then]
  <2>1. e \in Operation /\ e.req = op[o].req /\ e.kind = op[o].kind /\ e.handle = op[o].handle
    BY <1>1 DEF Operation
  <2>2. Become(Request([Now EXCEPT !.op[o] = e], o, "close", "CLOSE"))
    BY <1>1, <1>3 DEF CloseHandle, Now
  <2> HIDE DEF e
  <2>3. "close" \in Stage /\ "CLOSE" \in ReqKind
    BY DEF Stage, ReqKind, Wanted
  <2>4. Mine(Now, o) => Ready(Now, e, o, "close", "CLOSE")
    BY <1>1, <2>1, HandleReady
  <2> QED
    BY <2>1, <2>2, <2>3, <2>4, Busy, RequestHandled
<1> QED
  BY <1>2, <1>3

LEMMA CleanupHandled ==
  ASSUME IInv, Unused(Now), Handled(Now), NowStep, NEW o \in Ops,
         op[o].at \in {"ready", "work"}, op[o].kind # "stat", Become(CleanupHandle(Now, o))
  PROVE  Handled(Now')
  BY CloseHandled, EndHandled DEF CleanupHandle

-----------------------------------------------------------------------------
(* The operations.                                                         *)

LEMMA StartHandled ==
  ASSUME IInv, Unused(Now), Handled(Now), NowStep, NEW o \in Ops, Start(o)
  PROVE  Handled(Now')
<1>1. PICK kind \in Kinds[o] :
        LET started == [Now EXCEPT !.op[o].kind = kind] IN
        Become(IF kind = "stat" THEN Request(started, o, "work", Work[kind])
                                ELSE Request(started, o, "open", "OPEN"))
  BY DEF Start
<1> DEFINE e == [op[o] EXCEPT !.kind = kind]
<1>2. kind \in Kind
  BY ClientAssumption
<1>3. e \in Operation /\ e.req = op[o].req /\ e.kind = kind /\ e.handle = op[o].handle
  BY <1>2, NowFacts DEF Operation
<1>4. [Now EXCEPT !.op[o].kind = kind] = [Now EXCEPT !.op[o] = e] /\ Now.op = op
  BY DEF Now
<1>5. op[o].at = "idle" /\ client.connect # "idle"
  BY DEF Start
<1> HIDE DEF e
<1>6. Mine(Now, o) =>
        /\ \A r \in 1 .. Len(Now.log) : Now.log[r].op # o
        /\ e.handle = "none" /\ o \notin Now.server.handles
  BY <1>3, <1>4, <1>5 DEF Mine, Placed, Before, Kept
<1>7. CASE kind = "stat"
  <2>1. "work" \in Stage /\ Work[kind] = "STAT" /\ "STAT" \in ReqKind
    BY <1>7 DEF Stage, ReqKind, Wanted, Work
  <2>2. Mine(Now, o) => Ready(Now, e, o, "work", "STAT")
    BY <1>3, <1>6, <1>7 DEF Ready
  <2>3. Become(Request([Now EXCEPT !.op[o] = e], o, "work", "STAT"))
    BY <1>1, <1>4, <1>7, <2>1
  <2> QED
    BY <1>3, <1>5, <2>1, <2>2, <2>3, RequestHandled
<1>8. CASE kind # "stat"
  <2>1. "open" \in Stage /\ "OPEN" \in ReqKind
    BY DEF Stage, ReqKind, Wanted
  <2>2. Mine(Now, o) => Ready(Now, e, o, "open", "OPEN")
    BY <1>3, <1>6, <1>8 DEF Ready
  <2>3. Become(Request([Now EXCEPT !.op[o] = e], o, "open", "OPEN"))
    BY <1>1, <1>4, <1>8
  <2> QED
    BY <1>3, <1>5, <2>1, <2>2, <2>3, RequestHandled
<1> QED
  BY <1>7, <1>8

LEMMA ContinueHandled ==
  ASSUME IInv, Unused(Now), Handled(Now), NowStep, NEW o \in Ops, Continue(o)
  PROVE  Handled(Now')
<1> DEFINE more == op[o].work + 1
           e == [op[o] EXCEPT !.work = more]
           kind == Work[op[o].kind]
<1>1. /\ Become(Request([Now EXCEPT !.op[o] = e], o, "work", kind))
      /\ op[o].at = "ready" /\ op[o].work < MaxWork
  BY DEF Continue, Now
<1>2. more \in 0 .. MaxWork
  <2>1. op[o].work \in 0 .. MaxWork
    BY NowFacts DEF Operation
  <2> QED
    BY <1>1, <2>1, ClientAssumption
<1> HIDE DEF more
<1>3. /\ e \in Operation /\ e.req = op[o].req /\ e.kind = op[o].kind /\ e.handle = op[o].handle
      /\ op[o].kind \in Kind
  BY <1>2, NowFacts DEF Operation
<1>4. /\ kind \in ReqKind \ {"OPEN", "CLOSE"} /\ "work" \in Stage /\ client.connect # "idle"
      /\ Now \in State /\ Now.op = op
  BY <1>1, <1>3, Busy, NowFacts DEF Stage, Kind, Work, ReqKind, Wanted, Now
<1> HIDE DEF e, kind
<1>5. Mine(Now, o) => Ready(Now, e, o, "work", kind)
  <2>1. Mine(Now, o) => op[o].kind # "stat"
    BY <1>1, <1>4 DEF Mine, Placed
  <2> QED
    BY <1>1, <1>3, <1>4, <2>1, HandleReady
<1> QED
  BY <1>1, <1>3, <1>4, <1>5, RequestHandled

\* What is not crossed is answered by its own response, which comes no more.
LEMMA OwnResponse ==
  ASSUME NEW s \in State, Good(s), Unused(s), ~CrossedIn(s), NEW r \in 1 .. Len(s.log),
         s.log[r].promise.state = "answered"
  PROVE  s.log[r].promise.of = r /\ r \notin Coming(s)
<1>1. s.log[r].promise.of \in 1 .. Len(s.log)
  BY DEF Good, Bounded
<1>2. s.log[r].promise.of = r
  BY <1>1 DEF CrossedIn, None
<1> QED
  BY <1>2 DEF Unused, Coming

LEMMA OpenedHandled ==
  ASSUME IInv, Unused(Now), Handled(Now), NowStep, NEW o \in Ops, Opened(o)
  PROVE  Handled(Now')
<1>1. /\ op[o] \in Operation /\ op[o].at = "open" /\ op \in [Ops -> Operation] /\ Returned(o)
      /\ Good(Now) /\ Now \in State /\ Now.op = op /\ Now.log = log /\ Now.server = server
      /\ op[o].req # None => op[o].req \in 1 .. Len(log)
  BY NowFacts, RequestIn DEF Opened, Now
<1> DEFINE r == op[o].req
           promise == log[r].promise
<1>2. r # None => /\ promise.state \in {"answered", "rejected"}
                  /\ promise.state = "rejected" => promise.result = "none"
                  /\ promise \in Promise /\ log[r].kind \in ReqKind
  <2>1. r # None => promise \in Promise /\ promise.state # "waiting" /\ log[r].kind \in ReqKind
    <3>1. r # None => log[r] \in Entry
      BY <1>1, NowFacts
    <3>2. r # None => promise.state # "waiting"
      BY <1>1 DEF Returned
    <3> QED
      BY <3>1, <3>2 DEF Entry
  <2> QED
    BY <1>1, <2>1 DEF Promise, Good, Bounded
<1>3. UNCHANGED <<log, pending, out, writer, client, server>>
  BY DEF Opened
<1>4. CASE Outcome(o) = "good"
  <2> DEFINE h == log[promise.of].op
             e == [op[o] EXCEPT !.at = "ready", !.handle = h]
             t == [Now EXCEPT !.op[o] = e]
  <2>1. h \in Ops /\ r \in 1 .. Len(log)
    <3>1. promise.of \in 1 .. Len(log) /\ r \in 1 .. Len(log)
      BY <1>4, AnsweredFor
    <3>2. \A q \in 1 .. Len(log) : log[q] \in Entry
      BY NowFacts
    <3> QED
      BY <3>1, <3>2 DEF Entry
  <2>2. op' = [op EXCEPT ![o] = e]
    BY <1>1, <1>4 DEF Opened
  <2>3. promise.state = "answered"
    <3>1. r # None /\ promise.result = Wanted[log[r].kind]
      BY <1>4 DEF Outcome
    <3> QED
      BY <1>2, <3>1 DEF ReqKind, Wanted
  <2>4. ~CrossedIn(Now) => promise.of = r /\ r \notin Coming(Now)
    BY <1>1, <2>1, <2>3, OwnResponse
  <2>5. r # None
    BY <1>4 DEF Outcome
  <2> HIDE DEF h
  <2>6. /\ e \in Operation /\ e.req = r /\ e.at = "ready" /\ e.handle = h /\ e.kind = op[o].kind
    BY <1>1, <2>1 DEF Operation, Stage
  <2> HIDE DEF e
  <2>7. t.op[o] = e /\ t.log = Now.log /\ t.server = Now.server /\ Coming(t) = Coming(Now)
    BY <1>1, <2>6, OpSpares, SMTT(60)
  <2> HIDE DEF t
  <2>8. ASSUME ~CrossedIn(Now), Mine(Now, o) PROVE Mine(t, o)
    <3>1. log[r].op = o
      BY <1>1, <2>5, <2>8 DEF Mine, Asked
    <3>2. h = o /\ op[o].kind # "stat"
      BY <1>1, <2>4, <2>8, <3>1 DEF h, Mine, Placed
    <3>3. Asked(t, o) /\ Placed(t, o)
      BY <1>1, <2>6, <2>7, <3>1, <3>2 DEF Asked, Placed
    <3>4. Before(t, o)
      BY <1>1, <2>4, <2>6, <2>7, <2>8, <3>2 DEF Mine, Before
    <3>5. Kept(t, o)
      BY <2>6, <2>7, <3>2 DEF Kept
    <3> QED
      BY <3>3, <3>4, <3>5 DEF Mine
  <2>9. t = [Now EXCEPT !.op[o] = e]
    BY DEF t
  <2> QED
    BY <1>3, <2>2, <2>6, <2>8, <2>9, OpHandled
<1>5. CASE Outcome(o) # "good"
  <2> DEFINE e == [op[o] EXCEPT !.at = "failed"]
             t == [Now EXCEPT !.op[o] = e]
  <2>1. op' = [op EXCEPT ![o] = e]
    BY <1>1, <1>5 DEF Opened
  <2>2. /\ e \in Operation /\ e.req = r /\ e.at = "failed" /\ e.kind = op[o].kind
        /\ e.handle = op[o].handle /\ e.aborted = op[o].aborted /\ e.refused = op[o].refused
    BY <1>1 DEF Operation, Stage
  <2> HIDE DEF e
  <2>3. t.op[o] = e /\ t.log = Now.log /\ t.server = Now.server /\ Coming(t) = Coming(Now)
    BY <1>1, <2>2, OpSpares, ZenonT(60)
  <2> HIDE DEF t
  <2>4. ASSUME ~CrossedIn(Now), Mine(Now, o) PROVE Mine(t, o)
    <3>1. op[o].handle = "none" /\ op[o].kind # "stat"
      BY <1>1, <2>4 DEF Mine, Placed
    <3>2. Asked(t, o) /\ Placed(t, o)
      BY <1>1, <2>2, <2>3, <2>4, <3>1 DEF Mine, Asked, Placed
    <3>3. r # None /\ promise.state = "rejected" => op[o].aborted
      BY <1>1, <2>4 DEF Mine, Asked
    <3>4. r # None /\ r \in Coming(Now) => op[o].aborted
      <4>1. r # None /\ promise.state = "answered" => r \notin Coming(Now)
        BY <1>1, <2>4, OwnResponse
      <4> QED
        BY <1>2, <3>3, <4>1
    <3>5. Before(t, o)
      <4>1. \A q \in 1 .. Len(log) : q # None
        BY DEF None
      <4> QED
        BY <1>1, <2>2, <2>3, <2>4, <3>1, <3>4, <4>1 DEF Mine, Before
    <3>6. o \in server.handles => op[o].aborted
      <4>1. o \in server.handles =>
              r # None /\ (promise.state = "answered" => promise.result = "handle")
        BY <1>1, <2>4 DEF Mine, Kept
      <4>2. r # None => log[r].kind = "OPEN"
        BY <1>1, <2>4 DEF Mine, Asked
      <4>3. r # None /\ promise.state = "answered" => promise.result # "handle"
        BY <1>5, <4>2 DEF Outcome, Wanted
      <4> QED
        BY <1>2, <3>3, <4>1, <4>3
    <3>7. Kept(t, o)
      BY <1>1, <2>2, <2>3, <3>1, <3>6 DEF Kept, Excused
    <3> QED
      BY <3>2, <3>5, <3>7 DEF Mine
  <2>5. t = [Now EXCEPT !.op[o] = e]
    BY DEF t
  <2> QED
    BY <1>3, <2>1, <2>2, <2>4, <2>5, OpHandled
<1> QED
  BY <1>4, <1>5

\* An operation that only moves on to another stage.
LEMMA StageHandled ==
  ASSUME IInv, Unused(Now), Handled(Now), NowStep, NEW o \in Ops,
         NEW at \in {"ready", "done", "failed"}, op' = [op EXCEPT ![o].at = at],
         UNCHANGED <<log, pending, out, writer, client, server>>,
         \/ op[o].at = "work" /\ (op[o].kind = "stat" <=> at # "ready")
         \/ op[o].at = "close" /\ at # "ready" /\ Returned(o)
         \/ op[o].at = "terminate"
  PROVE  Handled(Now')
<1>1. /\ op[o] \in Operation /\ op \in [Ops -> Operation] /\ Good(Now) /\ Now \in State
      /\ Now.op = op /\ Now.log = log /\ Now.server = server
  BY NowFacts DEF Now
<1> DEFINE e == [op[o] EXCEPT !.at = at]
           t == [Now EXCEPT !.op[o] = e]
<1>2. op' = [op EXCEPT ![o] = e]
  BY <1>1
<1>3. /\ e \in Operation /\ e.req = op[o].req /\ e.at = at /\ e.kind = op[o].kind
      /\ e.handle = op[o].handle /\ e.aborted = op[o].aborted /\ e.refused = op[o].refused
  BY <1>1 DEF Operation, Stage
<1> HIDE DEF e
<1>4. t.op[o] = e /\ t.log = Now.log /\ t.server = Now.server /\ Coming(t) = Coming(Now)
  BY <1>1, <1>3, OpSpares
<1>5. t = [Now EXCEPT !.op[o] = e]
  OBVIOUS
<1> HIDE DEF t
<1>6. ASSUME Mine(Now, o) PROVE Mine(t, o)
  <2>1. Asked(t, o)
    BY <1>1, <1>3, <1>4, <1>6 DEF Mine, Asked
  <2>2. op[o].at # "terminate"
    BY <1>1, <1>6 DEF Mine, Placed
  <2>3. Placed(t, o)
    BY <1>1, <1>3, <1>4, <1>6, <2>2 DEF Mine, Placed
  <2>4. Before(t, o)
    BY <1>1, <1>3, <1>4, <1>6, <2>2 DEF Mine, Before
  <2>5. CASE op[o].at = "work"
    <3>1. Kept(t, o)
      BY <1>1, <1>3, <1>4, <1>6, <2>5 DEF Mine, Kept
    <3> QED
      BY <2>1, <2>3, <2>4, <3>1 DEF Mine
  <2>6. CASE op[o].at = "close"
    <3> DEFINE r == op[o].req
    <3>1. at # "ready" /\ (r # None => log[r].promise.state # "waiting")
      BY <2>6 DEF Returned
    <3>2. IF r = None THEN op[o].refused ELSE log[r].kind = "CLOSE"
      BY <1>1, <1>6, <2>6 DEF Mine, Asked
    <3>3. o \in server.handles => op[o].refused \/ (r # None /\ log[r].promise.result = "refused")
      BY <1>1, <1>6, <2>6, <3>1, <3>2 DEF Mine, Kept
    <3>4. o \in server.handles => op[o].kind # "stat"
      BY <1>1, <1>6 DEF Mine, Kept
    <3>5. Kept(t, o)
      BY <1>1, <1>3, <1>4, <3>1, <3>2, <3>3, <3>4 DEF Kept, Excused
    <3> QED
      BY <2>1, <2>3, <2>4, <3>5 DEF Mine
  <2> QED
    BY <2>2, <2>5, <2>6
<1> QED
  BY <1>2, <1>3, <1>5, <1>6, OpHandled

LEMMA ResumeHandled ==
  ASSUME IInv, Unused(Now), Handled(Now), NowStep, NEW o \in Ops, Resume(o)
  PROVE  Handled(Now')
<1>1. CASE Opened(o)
  BY <1>1, OpenedHandled
<1>2. CASE Closed(o)
  <2>1. op[o].then \in {"done", "failed"}
    BY NowFacts DEF Operation
  <2>2. PICK at \in {"done", "failed"} : op' = [op EXCEPT ![o].at = at]
    BY <1>2, <2>1 DEF Closed
  <2> QED
    BY <1>2, <2>2, StageHandled DEF Closed
<1>3. CASE Ended(o)
  <2>1. op[o].then \in {"done", "failed"}
    BY NowFacts DEF Operation
  <2> QED
    BY <1>3, <2>1, StageHandled DEF Ended
<1>4. CASE Worked(o)
  <2>1. op[o].at = "work" /\ "done" \in {"done", "failed"}
    BY <1>4 DEF Worked
  <2>2. ASSUME NEW at, Become([Now EXCEPT !.op[o].at = at])
        PROVE  op' = [op EXCEPT ![o].at = at] /\ UNCHANGED <<log, pending, out, writer, client, server>>
    BY <2>2 DEF Become, Now
  <2>3. CASE op[o].kind = "stat"
    <3>1. Become([Now EXCEPT !.op[o].at = IF Outcome(o) = "good" THEN "done" ELSE "failed"])
      BY <1>4, <2>3 DEF Worked
    <3>2. PICK at \in {"done", "failed"} : Become([Now EXCEPT !.op[o].at = at])
      BY <3>1
    <3> QED
      BY <2>1, <2>2, <2>3, <3>2, StageHandled
  <2>4. CASE op[o].kind # "stat" /\ Outcome(o) = "good"
    <3>1. Become([Now EXCEPT !.op[o].at = "ready"])
      BY <1>4, <2>4 DEF Worked
    <3> QED
      BY <2>1, <2>2, <2>4, <3>1, StageHandled
  <2>5. CASE op[o].kind \in {"readDir", "download"} /\ Outcome(o) = "eof"
    <3>1. Become(CloseHandle(Now, o, "done")) \/ Become(EndClient(Now, o, "done"))
      BY <1>4, <2>5 DEF Worked
    <3> QED
      BY <2>1, <2>5, <3>1, CloseHandled, EndHandled
  <2>6. CASE /\ op[o].kind # "stat" /\ Outcome(o) # "good"
             /\ ~(op[o].kind \in {"readDir", "download"} /\ Outcome(o) = "eof")
    <3>1. Become(CleanupHandle(Now, o))
      BY <1>4, <2>6 DEF Worked
    <3> QED
      BY <2>1, <2>6, <3>1, CleanupHandled
  <2> QED
    BY <2>3, <2>4, <2>5, <2>6
<1> QED
  BY <1>1, <1>2, <1>3, <1>4 DEF Resume

\* The abort listener of a request (sftp.ts:468-476).
LEMMA AbortedHandled ==
  ASSUME IInv, Unused(Now), Handled(Now), NowStep, NEW o \in Ops, ~op[o].aborted,
         op[o].at \in {"open", "work"}, op[o].req # None, Holds(Now, op[o].req),
         Become(AbortedRequest(Now, o))
  PROVE  Handled(Now')
<1> DEFINE r == op[o].req
           e == [op[o] EXCEPT !.aborted = TRUE]
           told == [log EXCEPT ![r].promise = Rejected]
           t == [Now EXCEPT !.op[o] = e, !.pending.of[log[r].id] = None, !.log = told]
<1>1. /\ op[o] \in Operation /\ op \in [Ops -> Operation] /\ Good(Now) /\ Now \in State
      /\ Now.op = op /\ Now.log = log /\ Now.server = server /\ r \in 1 .. Len(log)
      /\ Now.out = out /\ Now.client = client
  BY NowFacts, RequestIn DEF Now
<1>2. log[r].promise.state = "waiting"
  BY <1>1 DEF Good, Exact
<1>3. Rejected \in Promise /\ Rejected.state = "rejected"
  BY DEF Rejected, Promise, None
<1>4. /\ Len(told) = Len(log)
      /\ \A q \in 1 .. Len(log) :
           /\ told[q].op = log[q].op /\ told[q].kind = log[q].kind
           /\ told[q].promise = IF q = r THEN Rejected ELSE log[q].promise
  BY <1>1, <1>3, PromiseSet
<1>5. AbortedRequest(Now, o) = IF log[r].kind = "READ" THEN Terminated(t) ELSE t
  BY <1>1, <1>2 DEF AbortedRequest, Settle, Now
<1>6. CASE log[r].kind = "READ"
  <2>1. Terminated(t).client.closed
    <3>1. t \in State
      <4>1. [op EXCEPT ![o] = e] \in [Ops -> Operation] /\ told \in Seq(Entry)
        BY <1>1, <1>3, PromiseSet DEF Operation
      <4>2. [pending EXCEPT !.of[log[r].id] = None] \in [next : Id, of : [Id -> Nat]]
        BY <1>1 DEF State, Now, None
      <4>3. t = [Now EXCEPT !.op = [op EXCEPT ![o] = e], !.log = told,
                            !.pending = [pending EXCEPT !.of[log[r].id] = None]]
        BY <1>1 DEF Now
      <4> HIDE DEF t, told, e
      <4> QED
        BY <1>1, <4>1, <4>2, <4>3 DEF State
    <3> HIDE DEF t
    <3>2. CASE t.client.closed
      BY <3>2 DEF Terminated
    <3>3. CASE ~t.client.closed
      BY <3>1, <3>3, TerminatedFields
    <3> QED
      BY <3>2, <3>3
  <2>2. client' = Terminated(t).client
    BY <1>5, <1>6 DEF Become
  <2> QED
    BY <2>1, <2>2, ClosedHandled
<1>7. CASE log[r].kind # "READ"
  <2>1. /\ e.req = r /\ e.at = op[o].at /\ e.kind = op[o].kind
        /\ e.handle = op[o].handle /\ e.aborted /\ e.refused = op[o].refused
    BY <1>1 DEF Operation
  <2>2. /\ t.op = [op EXCEPT ![o] = e] /\ t.log = told /\ t.server = server /\ t.out = out
        /\ t.client = client
    BY <1>1 DEF State
  <2>3. Become(t)
    BY <1>5, <1>7
  <2>4. t \in State
    BY <1>1, <1>5, <1>7, AbortedRequestGood DEF Good
  <2> HIDE DEF t, e, told
  <2>5. Now' = t
    BY <2>3, <2>4, Became
  <2>6. Coming(t) = Coming(Now)
    BY <1>1, <2>2 DEF Coming, In
  <2>7. t.op[o] = e
    BY <1>1, <2>2
  <2>8. Mine(Now, o) => log[r].op = o
    BY <1>1 DEF Mine, Asked
  <2>9. \A p \in Ops : p # o /\ log[r].op = o => Spares(Now, t, p)
    BY <1>1, <1>4, <2>2, <2>6 DEF Spares
  <2>10. ASSUME Mine(Now, o) PROVE Mine(t, o)
    <3>1. Asked(t, o)
      BY <1>1, <1>4, <2>1, <2>2, <2>7, <2>10 DEF Mine, Asked
    <3>2. Placed(t, o)
      BY <1>1, <2>1, <2>7, <2>10 DEF Mine, Placed
    <3>3. Before(t, o)
      BY <1>1, <1>4, <2>1, <2>2, <2>6, <2>7, <2>10 DEF Mine, Before
    <3>4. Kept(t, o)
      BY <1>1, <1>3, <1>4, <2>1, <2>2, <2>7, <2>10 DEF Mine, Kept
    <3> QED
      BY <3>1, <3>2, <3>3, <3>4 DEF Mine
  <2>11. \A p \in Ops : p # o /\ log[r].op = o /\ Mine(Now, p) => Mine(t, p)
    BY <1>1, <2>9, SparedMine
  <2> QED
    BY <2>5, <2>8, <2>10, <2>11, HandledIf
<1> QED
  BY <1>6, <1>7

LEMMA AbortHandled ==
  ASSUME IInv, Unused(Now), Handled(Now), NowStep, NEW o \in Ops, Abort(o)
  PROVE  Handled(Now')
<1>1. /\ op[o] \in Operation /\ op \in [Ops -> Operation] /\ Good(Now) /\ Now \in State
      /\ Now.op = op /\ Now.log = log /\ Now.server = server /\ Now.pending = pending
  BY NowFacts DEF Now
<1>2. CASE Listening(o)
  <2>1. Become(AbortedRequest(Now, o)) /\ ~op[o].aborted
    BY <1>2 DEF Abort
  <2>2. op[o].at \in {"open", "work"} /\ op[o].req # None /\ Holds(Now, op[o].req)
    BY <1>1, <1>2 DEF Listening, Holds
  <2> QED
    BY <2>1, <2>2, AbortedHandled
<1>3. CASE ~Listening(o)
  <2> DEFINE e == [op[o] EXCEPT !.aborted = TRUE]
             t == [Now EXCEPT !.op[o] = e]
  <2>1. op' = [op EXCEPT ![o] = e] /\ UNCHANGED <<log, pending, out, writer, client, server>>
    BY <1>1, <1>3 DEF Abort, Become, Now
  <2>2. op[o].at \in {"open", "ready", "work"}
    BY DEF Abort
  <2>3. /\ e \in Operation /\ e.req = op[o].req /\ e.at = op[o].at /\ e.kind = op[o].kind
        /\ e.handle = op[o].handle /\ e.aborted /\ e.refused = op[o].refused
    BY <1>1 DEF Operation
  <2> HIDE DEF e
  <2>4. t.op[o] = e /\ t.log = Now.log /\ t.server = Now.server /\ Coming(t) = Coming(Now)
    BY <1>1, <2>3, OpSpares
  <2>5. t = [Now EXCEPT !.op[o] = e]
    OBVIOUS
  <2> HIDE DEF t
  <2>6. ASSUME Mine(Now, o) PROVE Mine(t, o)
    <3>1. Asked(t, o)
      BY <1>1, <2>3, <2>4, <2>6 DEF Mine, Asked
    <3>2. Placed(t, o)
      BY <1>1, <2>3, <2>4, <2>6 DEF Mine, Placed
    <3>3. Before(t, o)
      BY <1>1, <2>3, <2>4, <2>6 DEF Mine, Before
    <3>4. Kept(t, o)
      BY <1>1, <2>2, <2>3, <2>4, <2>6 DEF Mine, Kept
    <3> QED
      BY <3>1, <3>2, <3>3, <3>4 DEF Mine
  <2> QED
    BY <2>1, <2>3, <2>5, <2>6, OpHandled
<1> QED
  BY <1>2, <1>3

LEMMA UserHandled ==
  ASSUME IInv, Unused(Now), Handled(Now), NowStep, NEW o \in Ops, User(o)
  PROVE  Handled(Now')
<1>1. CASE Start(o) \/ Continue(o)
  BY <1>1, StartHandled, ContinueHandled
<1>2. CASE SourceEnds(o)
  <2>1. op[o].at = "ready" /\ op[o].kind # "stat"
    BY <1>2 DEF SourceEnds
  <2>2. Become(CloseHandle(Now, o, "done")) \/ Become(CleanupHandle(Now, o))
    BY <1>2 DEF SourceEnds
  <2> QED
    BY <2>1, <2>2, CloseHandled, CleanupHandled
<1>3. CASE Stop(o)
  BY <1>3, EndHandled DEF Stop
<1>4. CASE Abort(o)
  BY <1>4, AbortHandled
<1> QED
  BY <1>1, <1>2, <1>3, <1>4 DEF User

-----------------------------------------------------------------------------
(* The channel and the server.                                             *)

LEMMA ConnectionHandled ==
  ASSUME IInv, Unused(Now), Handled(Now), NowStep,
         \/ Connect \/ ConnectReturns \/ ConnectFails \/ AbortConnect
         \/ Terminate \/ ShutdownEnds \/ Sent \/ Written \/ WriteFails
  PROVE  Handled(Now')
<1>1. CASE Connect \/ ConnectFails \/ AbortConnect \/ ShutdownEnds
  BY <1>1, QuietHandled DEF Connect, ConnectFails, AbortConnect, ShutdownEnds
<1>2. CASE Sent \/ Written
  <2>1. server \in Server
    BY NowFacts
  <2>2. op' = op /\ log' = log /\ server'.handles = server.handles
    BY <1>2, <2>1 DEF Sent, Written, Server
  <2> QED
    BY <1>2, <2>2, QuietHandled DEF Sent, Written
<1>3. Terminated(Now) \in State /\ Terminated(Now).client.closed
  BY NowFacts, TerminatedGood DEF Good, Exact
<1>4. CASE Terminate
  BY <1>3, <1>4, ClosedHandled DEF Terminate, Become
<1>5. CASE ConnectReturns
  <2>1. CASE client' = [client EXCEPT !.connect = "open"] /\ UNCHANGED <<op, log, pending, out, writer, server>>
    BY <2>1, QuietHandled
  <2>2. CASE Become([Terminated(Now) EXCEPT !.client.connect = "closing"])
    <3>1. client' = [Terminated(Now) EXCEPT !.client.connect = "closing"].client
      BY <2>2 DEF Become
    <3> DEFINE s == Terminated(Now)
    <3>2. s \in State /\ s.client.closed
      BY <1>3
    <3> HIDE DEF s
    <3>3. [s EXCEPT !.client.connect = "closing"].client.closed
      BY <3>2 DEF State, Client
    <3> QED
      BY <3>1, <3>3, ClosedHandled DEF s
  <2> QED
    BY <1>5, <2>1, <2>2 DEF ConnectReturns
<1>6. CASE WriteFails
  <2> DEFINE queued == {out[i] : i \in DOMAIN out}
             first == Head(out)
             freed == IF first = None THEN Now
                      ELSE [Now EXCEPT !.pending.of[log[first].id] = None]
             told == [freed EXCEPT !.log = Rejecting(freed, queued)]
             ended == Terminated(told)
  <2>1. client' = [ended EXCEPT !.out = <<>>, !.writer = "errored", !.server.got = FALSE,
                     !.client.connect = IF @ = "writing" THEN "closing" ELSE @].client
    BY <1>6 DEF WriteFails, Become
  <2>2. freed \in State /\ freed.client = client
    BY <1>6, Freed DEF WriteFails
  <2> HIDE DEF freed, queued
  <2>3. told \in State
    <3>1. Rejecting(freed, queued) \in Seq(Entry)
      BY <2>2, RejectingFields
    <3> QED
      BY <2>2, <3>1 DEF State
  <2> HIDE DEF told
  <2>4. ended \in State /\ ended.client.closed
    <3>1. CASE told.client.closed
      BY <2>3, <3>1 DEF Terminated
    <3>2. CASE ~told.client.closed
      BY <2>3, <3>2, TerminatedFields
    <3> QED
      BY <3>1, <3>2
  <2> HIDE DEF ended
  <2>5. client'.closed
    BY <2>1, <2>4 DEF State, Client
  <2> QED
    BY <2>5, ClosedHandled
<1> QED
  BY <1>1, <1>2, <1>4, <1>5, <1>6

\* What a response that is not crossed changes: the handles of the server, and the
\* promise of its own request when that still waits.
Responded(s, t, r, result) ==
  /\ t.op = s.op /\ Len(t.log) = Len(s.log) /\ Coming(t) \subseteq Coming(s)
  /\ \A q \in 1 .. Len(s.log) :
       /\ t.log[q].op = s.log[q].op /\ t.log[q].kind = s.log[q].kind
       /\ q # r => t.log[q].promise = s.log[q].promise
  /\ IF s.log[r].promise.state = "waiting" THEN t.log[r].promise = Response(result, r)
                                           ELSE t.log[r].promise = s.log[r].promise

LEMMA AnswerResponded ==
  ASSUME IInv, NEW r \in server.owed, r # None, NEW result \in Results(r),
         Become(Dispatched(GivenBy(r, result), r, result)), ~CrossedIn(Now')
  PROVE  /\ Responded(Now, Now', r, result) /\ r \in 1 .. Len(log) /\ result \in Result
         /\ Now'.server = GivenBy(r, result).server
<1> DEFINE given == GivenBy(r, result)
           t == Dispatched(given, r, result)
<1>1. /\ Good(Now) /\ Now \in State /\ Now.log = log /\ Now.server = server /\ Len(log) \in Nat
      /\ \A q \in 1 .. Len(log) : log[q] \in Entry
  BY NowFacts DEF Now
<1>2. /\ Good(given) /\ given \in State /\ given.op = Now.op /\ given.log = Now.log
      /\ given.pending = Now.pending /\ given.out = Now.out /\ given.client = Now.client
      /\ given.server.owed = server.owed \ {r} /\ given.server.got = server.got
  BY Given
<1> HIDE DEF given
<1>3. r \in 1 .. Len(log)
  BY <1>1 DEF Good, Bounded, None
<1>4. result \in Result
  <2>1. log[r].kind \in ReqKind
    BY <1>1, <1>3 DEF Entry
  <2> QED
    BY <2>1 DEF Results, Result, ReqKind, Wanted
<1>5. Good(t) /\ Now' = t
  <2>1. Good(t)
    BY <1>1, <1>2, <1>3, <1>4, DispatchedGood
  <2>2. Become(t)
    BY DEF given
  <2> QED
    BY <2>1, <2>2, Became DEF Good
<1> DEFINE id == log[r].id
           q == Now.pending.of[id]
           p == Response(result, r)
<1>6. id \in Id /\ p \in Promise /\ p.of = r
  BY <1>1, <1>3, <1>4 DEF Entry, Response, Promise
<1>7. log[r].promise.state = "waiting" <=> q = r
  BY <1>1, <1>3 DEF Good, Exact, WaitingHeld, Holds
<1>8. CASE q = None
  <2>1. t = given
    BY <1>1, <1>2, <1>8 DEF Dispatched
  <2>2. log[r].promise.state # "waiting"
    BY <1>7, <1>8
  <2>3. Coming(given) \subseteq Coming(Now)
    BY <1>1, <1>2 DEF Coming, In
  <2>4. Responded(Now, given, r, result)
    BY <1>1, <1>2, <2>2, <2>3 DEF Responded
  <2> HIDE DEF t
  <2> QED
    BY <1>3, <1>4, <1>5, <2>1, <2>4 DEF given
<1>9. CASE q # None
  <2>1. q \in 1 .. Len(log)
    BY <1>1, <1>6, <1>9 DEF State, Good, Bounded, None
  <2> DEFINE told == [log EXCEPT ![q].promise = p]
  <2>2. /\ t.log = told /\ t.op = given.op /\ t.out = given.out /\ t.client = given.client
        /\ t.server = given.server
    BY <1>1, <1>2, <1>9 DEF Dispatched, State
  <2> HIDE DEF p, q, t
  <2>3. /\ Len(told) = Len(log)
        /\ \A x \in 1 .. Len(log) :
             /\ told[x].op = log[x].op /\ told[x].kind = log[x].kind
             /\ told[x].promise = IF x = q THEN p ELSE log[x].promise
    BY <1>1, <1>6, <2>1, PromiseSet
  <2> HIDE DEF told
  <2>4. q = r
    BY <1>3, <1>5, <1>6, <2>1, <2>2, <2>3 DEF CrossedIn, None
  <2>5. log[r].promise.state = "waiting"
    BY <1>7, <2>4
  <2>6. Coming(t) \subseteq Coming(Now)
    BY <1>1, <1>2, <2>2 DEF Coming, In
  <2>7. Responded(Now, t, r, result)
    <3>1. t.log[r].promise = Response(result, r)
      BY <2>1, <2>2, <2>3, <2>4 DEF p
    <3>2. /\ t.op = Now.op /\ Len(t.log) = Len(Now.log)
          /\ \A x \in 1 .. Len(Now.log) :
               /\ t.log[x].op = Now.log[x].op /\ t.log[x].kind = Now.log[x].kind
               /\ x # r => t.log[x].promise = Now.log[x].promise
      BY <1>1, <1>2, <2>2, <2>3, <2>4
    <3> QED
      BY <1>1, <2>5, <2>6, <3>1, <3>2 DEF Responded
  <2> QED
    BY <1>3, <1>4, <1>5, <2>2, <2>7 DEF given
<1> QED
  BY <1>8, <1>9

\* The request whose response comes keeps what is known of its operation, and so
\* do the other operations.
LEMMA RespondedMine ==
  ASSUME NEW s \in State, Good(s), Unused(s), ~CrossedIn(s), \A p \in Ops : Mine(s, p),
         NEW r \in 1 .. Len(s.log), r \in s.server.owed, NEW result \in Result, NEW t,
         Responded(s, t, r, result),
         t.server.handles =
           CASE result = "handle" -> s.server.handles \cup {s.log[r].op}
             [] s.log[r].kind = "CLOSE" /\ result = "ok" ->
                  s.server.handles \ {s.op[s.log[r].op].handle}
             [] OTHER -> s.server.handles,
         result \in {"refused", Wanted[s.log[r].kind], "eof"},
         result = "eof" => s.log[r].kind \in {"READDIR", "READ"}
  PROVE  \A p \in Ops : Mine(t, p)
<1> DEFINE o == s.log[r].op
           e == s.op[o]
<1>1. o \in Ops /\ s.log[r].kind \in ReqKind
  BY LogFacts DEF Entry
<1>2. Mine(s, o)
  BY <1>1
<1>3. s.log[r].promise.state # "answered" /\ r \in Coming(s)
  BY OwnResponse DEF Coming
<1>4. /\ t.op = s.op /\ Len(t.log) = Len(s.log) /\ Coming(t) \subseteq Coming(s)
      /\ \A q \in 1 .. Len(s.log) :
           /\ t.log[q].op = s.log[q].op /\ t.log[q].kind = s.log[q].kind
           /\ q # r => t.log[q].promise = s.log[q].promise
      /\ IF s.log[r].promise.state = "waiting" THEN t.log[r].promise = Response(result, r)
                                               ELSE t.log[r].promise = s.log[r].promise
  BY DEF Responded
<1>5. e.req # None => e.req \in 1 .. Len(s.log)
  BY <1>1, RequestIn
<1>6. \A p \in Ops : p # o => Spares(s, t, p)
  <2>1. \A p \in Ops : p # o /\ p \in t.server.handles => p \in s.server.handles
    OBVIOUS
  <2> QED
    BY <1>4, <2>1 DEF Spares
<1>7. \A p \in Ops : p # o => Mine(t, p)
  BY <1>6, SparedMine
<1>a. /\ t.op[o] = e
      /\ e.req # None =>
           /\ t.log[e.req].op = s.log[e.req].op /\ t.log[e.req].kind = s.log[e.req].kind
           /\ \/ t.log[e.req].promise = s.log[e.req].promise
              \/ e.req = r /\ t.log[e.req].promise = Response(result, r)
  BY <1>4, <1>5
<1>b. Response(result, r).state = "answered" /\ Response(result, r).result = result
  BY DEF Response
<1>8. Asked(t, o)
  <2>1. Asked(s, o)
    BY <1>2 DEF Mine
  <2> DEFINE was == s.log[e.req]
             is == t.log[e.req]
  <2>2. e.req # None => /\ is.op = was.op /\ is.kind = was.kind
                        /\ is.promise.state = "rejected" => was.promise.state = "rejected"
    BY <1>a, <1>b
  <2>3. t.op[o] = e
    BY <1>a
  <2> HIDE DEF o
  <2> QED
    BY <2>1, <2>2, <2>3 DEF Asked
<1>9. Placed(t, o)
  BY <1>2, <1>4 DEF Mine, Placed
<1>10. Before(t, o)
  <2>1. /\ Len(t.log) = Len(s.log) /\ Coming(t) \subseteq Coming(s)
        /\ \A q \in 1 .. Len(s.log) : t.log[q].op = s.log[q].op /\ t.log[q].kind = s.log[q].kind
    BY <1>4
  <2>2. Before(s, o)
    BY <1>2 DEF Mine
  <2> HIDE DEF o
  <2> QED
    BY <1>a, <2>1, <2>2 DEF Before
<1>11. t.log[r].promise.state \in {"answered", "rejected"}
  <2>1. s.log[r].promise.state \in {"waiting", "answered", "rejected"}
    BY LogFacts DEF Promise
  <2> QED
    BY <1>4, <2>1 DEF Response
<1>12. t.log[r].promise.state = "answered" => t.log[r].promise.result = result
  BY <1>3, <1>4 DEF Response
<1>13. Kept(t, o)
  <2>1. CASE result = "handle"
    <3>1. s.log[r].kind = "OPEN"
      BY <1>1, <2>1 DEF ReqKind, Wanted
    <3>2. e.kind # "stat"
      BY <1>2, <3>1 DEF Mine, Before
    <3>3. \/ e.at = "open" /\ e.req = r
          \/ e.at = "failed" /\ e.aborted /\ e.handle = "none"
      BY <1>2, <1>3, <3>1 DEF Mine, Before
    <3>4. r # None
      BY DEF None
    <3> QED
      BY <1>4, <1>11, <1>12, <2>1, <3>2, <3>3, <3>4 DEF Kept, Excused
  <2>2. CASE result # "handle" /\ o \in s.server.handles /\ ~(s.log[r].kind = "CLOSE" /\ result = "ok")
    <3>1. e.at # "idle" /\ e.kind # "stat"
      BY <1>2, <2>2 DEF Mine, Kept
    <3>2. e.req = r /\ s.log[r].kind = "CLOSE" => result = "refused"
      BY <2>2 DEF Wanted
    <3>3. e.at = "open" => /\ e.req # None /\ t.log[e.req].promise.state # "waiting"
                           /\ t.log[e.req].promise.state = "answered" =>
                                t.log[e.req].promise.result = "handle"
      BY <1>2, <1>4, <1>5, <2>2, ZenonT(60) DEF Mine, Kept
    <3>4. e.at = "close" => \/ e.refused \/ t.log[e.req].promise.state = "waiting"
                            \/ t.log[e.req].promise.result = "refused"
      <4>1. CASE e.req = r /\ e.at = "close"
        <5>1. s.log[r].kind = "CLOSE"
          <6>1. Asked(s, o) /\ e.req # None
            BY <1>2, <4>1 DEF Mine, None
          <6>2. e.at = "close" => s.log[e.req].kind = "CLOSE"
            BY <6>1 DEF Asked
          <6> QED
            BY <4>1, <6>2
        <5>2. CASE s.log[r].promise.state = "waiting"
          BY <1>4, <3>2, <4>1, <5>1, <5>2 DEF Response
        <5>3. CASE s.log[r].promise.state # "waiting"
          BY <1>2, <1>4, <2>2, <4>1, <5>3 DEF Mine, Kept
        <5> QED
          BY <5>2, <5>3
      <4>2. CASE e.req = None /\ e.at = "close"
        BY <1>2, <4>2 DEF Mine, Asked
      <4>3. CASE e.req # r /\ e.req # None /\ e.at = "close"
        BY <1>2, <1>4, <1>5, <2>2, <4>3 DEF Mine, Kept
      <4> QED
        BY <4>1, <4>2, <4>3
    <3>5. e.at \in {"done", "failed"} => Excused(t, o)
      <4>1. e.at \in {"done", "failed"} => Excused(s, o)
        BY <1>2, <2>2 DEF Mine, Kept
      <4>2. s.log[r].promise.result # "refused"
        BY <1>3 DEF Good, Bounded
      <4> QED
        BY <1>4, <1>5, <4>1, <4>2 DEF Excused
    <3> QED
      BY <1>4, <3>1, <3>3, <3>4, <3>5 DEF Kept
  <2>3. CASE result # "handle" /\ o \notin s.server.handles
    <3>1. o \notin t.server.handles
      BY <2>3
    <3> QED
      BY <3>1 DEF Kept
  <2>4. CASE s.log[r].kind = "CLOSE" /\ result = "ok"
    <3>1. e.handle = o
      BY <1>2, <2>4 DEF Mine, Before
    <3>2. o \notin t.server.handles
      BY <2>4, <3>1
    <3> QED
      BY <3>2 DEF Kept
  <2> QED
    BY <2>1, <2>2, <2>3, <2>4
<1>14. Mine(t, o)
  BY <1>8, <1>9, <1>10, <1>13 DEF Mine
<1> QED
  BY <1>7, <1>14

LEMMA AnswerHandled ==
  ASSUME IInv, Unused(Now), Handled(Now), NowStep, NEW r \in server.owed, Answer(r)
  PROVE  Handled(Now')
<1>1. PICK result \in Results(r) :
        LET given == [Now EXCEPT !.server.owed = @ \ {r},
                        !.server.handles =
                          CASE result = "handle" -> @ \cup {log[r].op}
                            [] r # None /\ log[r].kind = "CLOSE" /\ result = "ok" ->
                                 @ \ {op[log[r].op].handle}
                            [] OTHER -> @]
        IN  Become(IF r = None THEN Negotiated(given, result) ELSE Dispatched(given, r, result))
  BY DEF Answer
<1> DEFINE given == GivenBy(r, result)
<1>2. Become(IF r = None THEN Negotiated(given, result) ELSE Dispatched(given, r, result))
  BY <1>1 DEF GivenBy
<1>3. /\ Good(Now) /\ Now \in State /\ Now.log = log /\ Now.server = server /\ Now.op = op
      /\ server \in Server
  BY NowFacts DEF Now
<1>4. /\ Good(given) /\ given \in State /\ given.op = Now.op /\ given.log = Now.log
  BY Given
<1>5. CASE r = None
  <2>1. CASE result = "version"
    <3>1. op' = op /\ log' = log /\ server' = given.server
      BY <1>2, <1>3, <1>4, <1>5, <2>1 DEF Negotiated, Become, State
    <3>2. given.server.handles = server.handles
      BY <1>3, <1>5, <2>1 DEF GivenBy, State, Server
    <3> QED
      BY <3>1, <3>2, QuietHandled
  <2>2. CASE result # "version"
    <3>1. client' = Terminated(given).client
      BY <1>2, <1>5, <2>2 DEF Negotiated, Become
    <3>2. Terminated(given).client.closed
      BY <1>4, TerminatedGood DEF Good, Exact
    <3> QED
      BY <3>1, <3>2, ClosedHandled
  <2> QED
    BY <2>1, <2>2
<1>6. CASE r # None
  <2> SUFFICES ASSUME ~CrossedIn(Now'), ~CrossedIn(Now), \A p \in Ops : Mine(Now, p)
               PROVE  \A p \in Ops : Mine(Now', p)
    BY HandledIf
  <2>1. Become(Dispatched(GivenBy(r, result), r, result))
    BY <1>2, <1>6
  <2>2. /\ Responded(Now, Now', r, result) /\ r \in 1 .. Len(log) /\ result \in Result
        /\ Now'.server = given.server
    BY <1>6, <2>1, AnswerResponded
  <2>3. given.server.handles =
          CASE result = "handle" -> Now.server.handles \cup {Now.log[r].op}
            [] Now.log[r].kind = "CLOSE" /\ result = "ok" ->
                 Now.server.handles \ {Now.op[Now.log[r].op].handle}
            [] OTHER -> Now.server.handles
    BY <1>3, <1>6 DEF GivenBy, State, Server
  <2>4. /\ result \in {"refused", Wanted[Now.log[r].kind], "eof"}
        /\ result = "eof" => Now.log[r].kind \in {"READDIR", "READ"}
    <3>1. Now.log[r].kind \in ReqKind
      BY <1>3, <2>2, LogFacts DEF Entry
    <3>2. Wanted[Now.log[r].kind] # "eof"
      BY <3>1 DEF ReqKind, Wanted
    <3> QED
      BY <1>3, <1>6, <3>2 DEF Results
  <2>5. r \in Now.server.owed /\ r \in 1 .. Len(Now.log)
    BY <1>3, <2>2
  <2> HIDE DEF given
  <2>6. Now'.server.handles =
          CASE result = "handle" -> Now.server.handles \cup {Now.log[r].op}
            [] Now.log[r].kind = "CLOSE" /\ result = "ok" ->
                 Now.server.handles \ {Now.op[Now.log[r].op].handle}
            [] OTHER -> Now.server.handles
    BY <2>2, <2>3
  <2> DEFINE s == Now
             t == Now'
  <2>7. /\ s \in State /\ Good(s) /\ Unused(s) /\ ~CrossedIn(s) /\ (\A p \in Ops : Mine(s, p))
        /\ r \in 1 .. Len(s.log) /\ r \in s.server.owed /\ Responded(s, t, r, result)
        /\ t.server.handles =
             CASE result = "handle" -> s.server.handles \cup {s.log[r].op}
               [] s.log[r].kind = "CLOSE" /\ result = "ok" ->
                    s.server.handles \ {s.op[s.log[r].op].handle}
               [] OTHER -> s.server.handles
        /\ result \in {"refused", Wanted[s.log[r].kind], "eof"}
        /\ result = "eof" => s.log[r].kind \in {"READDIR", "READ"}
    BY <1>3, <2>2, <2>4, <2>5, <2>6
  <2> HIDE DEF s, t
  <2>8. \A p \in Ops : Mine(t, p)
    BY <2>2, <2>7, RespondedMine
  <2> QED
    BY <2>8 DEF t
<1> QED
  BY <1>5, <1>6

LEMMA HandledKept ==
  ASSUME IInv, Unused(Now), Handled(Now), [Next]_vars
  PROVE  Handled(Now')
<1>1. NowStep
  BY EveryStep
<1>2. CASE \/ Connect \/ ConnectReturns \/ ConnectFails \/ AbortConnect
           \/ Terminate \/ ShutdownEnds \/ Sent \/ Written \/ WriteFails
  BY <1>1, <1>2, ConnectionHandled
<1>3. CASE \E o \in Ops : Resume(o) \/ User(o)
  BY <1>1, <1>3, ResumeHandled, UserHandled
<1>4. CASE \E r \in server.owed : Answer(r)
  BY <1>1, <1>4, AnswerHandled
<1>5. CASE UNCHANGED vars
  BY <1>1, <1>5, QuietHandled DEF vars
<1> QED
  BY <1>2, <1>3, <1>4, <1>5 DEF Next

\* When an operation is over, and the client is not, the server holds the handle it
\* opened only if the OPEN was aborted before its response came, or the CLOSE was
\* refused: whatever the order of the responses, the aborts and the failures
\* (sftp.ts:421-449).
THEOREM HandlesKnown == Spec => []HandlesAccounted
<1>1. Init => Unused(Now) /\ Handled(Now)
  <2> SUFFICES ASSUME Init PROVE Unused(Now) /\ Handled(Now)
    OBVIOUS
  <2>1. Now.log = <<>> /\ Now.out = <<>> /\ Now.server.owed = {} /\ Now.server.handles = {}
    BY DEF Init, Now
  <2>2. \A o \in Ops : Now.op[o].req = None /\ Now.op[o].at = "idle" /\ Now.op[o].handle = "none"
    BY DEF Init, Now
  <2>3. \A o \in Ops : Mine(Now, o)
    BY <2>1, <2>2 DEF Mine, Asked, Placed, Before, Kept
  <2>4. Unused(Now)
    BY <2>1 DEF Unused
  <2> QED
    BY <2>3, <2>4 DEF Handled
<1>2. IInv /\ IInv' /\ Unused(Now) /\ Handled(Now) /\ [Next]_vars => Unused(Now)' /\ Handled(Now)'
  <2> SUFFICES ASSUME IInv, IInv', Unused(Now), Handled(Now), [Next]_vars
               PROVE  Unused(Now') /\ Handled(Now')
    OBVIOUS
  <2>1. Step(Now, Now')
    BY EveryStep DEF NowStep
  <2>2. Good(Now) /\ Good(Now') /\ Now \in State /\ Now' \in State
    BY DEF IInv, Good
  <2>3. Unused(Now')
    BY <2>1, <2>2, UnusedKept
  <2> QED
    BY <2>3, HandledKept
<1>3. IInv /\ Handled(Now) => HandlesAccounted
  <2> SUFFICES ASSUME IInv, Handled(Now), NEW o \in server.handles,
                      op[o].at \in {"done", "failed"}, ~client.closed, ~Crossed
               PROVE  \/ op[o].aborted /\ op[o].handle = "none"
                      \/ op[o].refused
                      \/ /\ op[o].req # None
                         /\ log[op[o].req].kind = "CLOSE" /\ log[op[o].req].promise.result = "refused"
    BY DEF HandlesAccounted
  <2>1. /\ Now.op = op /\ Now.log = log /\ Now.client = client /\ Now.server = server
        /\ DOMAIN log = 1 .. Len(log) /\ o \in Ops
    BY NowFacts DEF Now, Server
  <2>2. ~CrossedIn(Now)
    BY <2>1 DEF Crossed, CrossedIn
  <2>3. Excused(Now, o)
    BY <2>1, <2>2 DEF Handled, Mine, Kept
  <2> QED
    BY <2>1, <2>3 DEF Excused
<1> QED
  BY <1>1, <1>2, <1>3, Invariant, PTL DEF Spec
=============================================================================
