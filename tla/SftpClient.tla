----------------------------- MODULE SftpClient -----------------------------
(***************************************************************************)
(* The SFTPClient over a subsystem channel: version negotiation, request   *)
(* ids and the table of pending requests, abort signals, stat, readDir,    *)
(* download and upload as concurrent operations, and termination.          *)
(*                                                                         *)
(* An action is what runs between two suspensions.  An operation whose     *)
(* request has returned resumes in an action of its own, so that several   *)
(* responses of one chunk may be dispatched before a caller goes on.  The   *)
(* channel is external: it takes packets one at a time, or fails.  A write *)
(* may wait for the send window for ever, and its promise settles after the *)
(* server has the packet.  Packets arrive whole here; SftpFrames models how *)
(* #receive puts them together.                                            *)
(***************************************************************************)
EXTENDS Integers, Sequences, FiniteSets

CONSTANTS
  Ops,         \* the calls of the user
  Kinds,       \* which operations each of them may be
  IdSpace,     \* number of request ids, 2^32 in the code
  Limits,      \* the values of maximumPendingRequests a user may choose
  MaxWork      \* bound: READDIR, READ or WRITE requests of one operation

Kind == {"stat", "readDir", "download", "upload"}

ASSUME ClientAssumption ==
  /\ \A o \in Ops : o # "none" /\ Kinds[o] \subseteq Kind
  /\ IdSpace \in Nat /\ IdSpace > 1 /\ Limits \subseteq 1 .. IdSpace - 1 /\ MaxWork \in Nat

VARIABLES
  op,        \* the operations, and where each is suspended
  log,       \* every request made, and its promise
  pending,   \* #pending, and the id to try next
  out,       \* the packets the writer holds, the head being written; 0 is INIT
  writer,    \* the state of the writable stream
  client,    \* connect(), #negotiated, #closed and #shutdown
  server     \* the requests it has not answered, the handles it holds open, and
             \* whether it has got the packet that is being written

vars == <<op, log, pending, out, writer, client, server>>

-----------------------------------------------------------------------------
Id == 0 .. IdSpace - 1
None == 0

Stage == {"idle", "open", "ready", "work", "close", "terminate", "done", "failed"}
\* `then` is how the operation ends once its CLOSE or the shutdown is over;
\* `handle` is the operation that the server opened the handle for.
Operation == [kind : Kind, at : Stage, req : Nat, work : 0 .. MaxWork, aborted : BOOLEAN,
              handle : Ops \cup {"none"}, then : {"done", "failed"},
              refused : BOOLEAN]

\* The type of a response; a status is OK, EOF or another code.
Result == {"attributes", "handle", "name", "data", "ok", "eof", "refused"}
Wanted == [STAT |-> "attributes", OPEN |-> "handle", READDIR |-> "name", READ |-> "data",
           WRITE |-> "ok", CLOSE |-> "ok"]
\* The request that an operation repeats, or stat makes once.
Work == [stat |-> "STAT", readDir |-> "READDIR", download |-> "READ", upload |-> "WRITE"]
Waiting == [state |-> "waiting", result |-> "none", of |-> None]
Rejected == [state |-> "rejected", result |-> "none", of |-> None]
Response(result, s) == [state |-> "answered", result |-> result, of |-> s]

Now == [op |-> op, log |-> log, pending |-> pending, out |-> out,
        writer |-> writer, client |-> client, server |-> server]
Become(s) == /\ op' = s.op /\ log' = s.log /\ pending' = s.pending
             /\ out' = s.out /\ writer' = s.writer /\ client' = s.client
             /\ server' = s.server

Init ==
  /\ op = [o \in Ops |-> [kind |-> "stat", at |-> "idle", req |-> None, work |-> 0, aborted |-> FALSE,
                          handle |-> "none", then |-> "done", refused |-> FALSE]]
  /\ log = <<>>
  /\ pending = [next |-> 1, of |-> [id \in Id |-> None]]
  /\ out = <<>> /\ writer = "open"
  /\ client = [connect |-> "idle", limit |-> 1, aborted |-> FALSE, version |-> "pending",
               closed |-> FALSE, shutdown |-> "no"]
  /\ server = [owed |-> {}, handles |-> {}, got |-> FALSE]

-----------------------------------------------------------------------------
(* The request table: allocateId, request, dispatch and terminate.         *)

Pending(s) == {id \in Id : s.pending.of[id] # None}
Settle(promise, to) == IF promise.state = "waiting" THEN to ELSE promise

\* Mutant: ids that are pending are skipped, but every search starts at 0.
AllocateLowest(s) == CHOOSE id \in Id \ Pending(s) : \A free \in Id \ Pending(s) : id <= free

\* The first id from #nextId on that is not pending.
AllocateId(s) ==
  LET free(k) == (s.pending.next + k) % IdSpace \notin Pending(s)
      steps == CHOOSE k \in Id : free(k) /\ \A j \in 0 .. k - 1 : ~free(j)
  IN  (s.pending.next + steps) % IdSpace

\* Mutant: the requests that wait for an answer are not told.
TerminatedSilently(s) ==
  IF s.client.closed THEN s
  ELSE [s EXCEPT !.client.closed = TRUE, !.client.shutdown = "running",
                 !.client.version = IF @ = "pending" THEN "rejected" ELSE @,
                 !.pending.of = [id \in Id |-> None],
                 !.writer = IF s.out = <<>> THEN "errored" ELSE "aborting",
                 !.server.owed = {}, !.server.handles = {}]

\* The log when these requests are rejected that wait for a response.
Rejecting(s, requests) ==
  [r \in DOMAIN s.log |->
     IF r \in requests THEN [s.log[r] EXCEPT !.promise = Settle(@, Rejected)] ELSE s.log[r]]

\* #terminate: every pending request is rejected and the writer aborted.  By the
\* streams standard the abort, and every write behind it, waits for the write
\* that is under way.  With the channel go the handles.
Terminated(s) ==
  IF s.client.closed THEN s
  ELSE [s EXCEPT !.client.closed = TRUE, !.client.shutdown = "running",
                 !.client.version = IF @ = "pending" THEN "rejected" ELSE @,
                 !.log = Rejecting(s, {r \in DOMAIN @ : s.pending.of[@[r].id] = r}),
                 !.pending.of = [id \in Id |-> None],
                 !.writer = IF s.out = <<>> THEN "errored" ELSE "aborting",
                 !.server.owed = {}, !.server.handles = {}]

\* Mutant: there is no limit.
RefusesNotFull(s, o, kind) ==
  \/ kind # "CLOSE" /\ s.op[o].aborted
  \/ s.client.closed

\* #request throws before it allocates an id; CLOSE carries no signal.
Refuses(s, o, kind) ==
  \/ kind # "CLOSE" /\ s.op[o].aborted
  \/ s.client.closed
  \/ Cardinality(Pending(s)) >= s.client.limit

\* #request up to its first suspension.  A refused request has no entry in the
\* log: the operation resumes with a failure.
Request(s, o, at, kind) ==
  LET id == AllocateId(s)
      r == Len(s.log) + 1
      went(req) == [s.op[o] EXCEPT !.at = at, !.req = req]
  IN  IF Refuses(s, o, kind)
      THEN [s EXCEPT !.op[o] = [went(None) EXCEPT !.refused = @ \/ (kind = "CLOSE")]]
      ELSE [s EXCEPT !.op[o] = went(r),
                     !.log = Append(@, [op |-> o, kind |-> kind, id |-> id, promise |-> Waiting]),
                     !.pending = [next |-> (id + 1) % IdSpace, of |-> [@.of EXCEPT ![id] = r]],
                     !.out = Append(@, r)]

\* #request has returned: its write is over and its response settled.
Returned(o) ==
  LET r == op[o].req IN
  r # None => log[r].promise.state # "waiting" /\ \A i \in DOMAIN out : out[i] # r

\* What #request returned: the response wanted, the end of the file, or a failure.
Outcome(o) ==
  LET r == op[o].req
      result == IF r = None THEN "none" ELSE log[r].promise.result
  IN  IF r # None /\ result = Wanted[log[r].kind] THEN "good"
      ELSE IF result = "eof" THEN "eof" ELSE "failed"

\* Mutant: a response is handed over, and its id stays in the table.
DispatchedTwice(s, answered, result) ==
  LET r == s.pending.of[s.log[answered].id] IN
  IF r = None THEN s ELSE [s EXCEPT !.log[r].promise = Response(result, answered)]

\* #dispatch of the response to a request: whoever holds its id gets it, and a
\* response that nobody waits for is dropped.
Dispatched(s, answered, result) ==
  LET id == s.log[answered].id
      r == s.pending.of[id]
  IN  IF r = None THEN s
      ELSE [s EXCEPT !.log[r].promise = Response(result, answered), !.pending.of[id] = None]

\* The first packet must be a VERSION that the client knows.
Negotiated(s, result) ==
  IF result = "version" THEN [s EXCEPT !.client.version = "resolved"] ELSE Terminated(s)

-----------------------------------------------------------------------------
(* connect.                                                                *)

Connect ==
  /\ client.connect = "idle"
  /\ \E limit \in Limits : client' = [client EXCEPT !.connect = "writing", !.limit = limit]
  /\ out' = <<None>>
  /\ UNCHANGED <<op, log, pending, writer, server>>

\* connect() returns, or closes the client and then throws.
ConnectReturns ==
  /\ client.connect = "version"
  /\ \/ /\ client.version = "resolved" /\ ~client.aborted
        /\ client' = [client EXCEPT !.connect = "open"]
        /\ UNCHANGED <<op, log, pending, out, writer, server>>
     \/ /\ client.version = "rejected" \/ client.aborted
        /\ Become([Terminated(Now) EXCEPT !.client.connect = "closing"])
ConnectFails ==
  /\ client.connect = "closing" /\ client.shutdown = "done"
  /\ client' = [client EXCEPT !.connect = "failed"]
  /\ UNCHANGED <<op, log, pending, out, writer, server>>

\* The signal of connect(): it has no effect before INIT is written.
AbortConnect ==
  /\ client.connect \in {"writing", "version"} /\ client.version = "pending" /\ ~client.aborted
  /\ client' = [client EXCEPT !.aborted = TRUE]
  /\ UNCHANGED <<op, log, pending, out, writer, server>>

-----------------------------------------------------------------------------
(* The operations.                                                         *)

\* Mutant: a failed operation leaves its handle to the server.
CleanupNothing(s, o) == [s EXCEPT !.op[o].at = "failed"]

\* #closeHandle does nothing on a closed client.
CloseHandle(s, o, then) ==
  IF s.client.closed THEN [s EXCEPT !.op[o].at = then]
  ELSE Request([s EXCEPT !.op[o].then = then], o, "close", "CLOSE")

\* Terminate, and wait until the shutdown is over.
EndClient(s, o, then) ==
  [Terminated(s) EXCEPT !.op[o].at = "terminate", !.op[o].then = then]

\* #cleanupHandle, and the end of a download that failed.
CleanupHandle(s, o) ==
  IF s.op[o].aborted THEN EndClient(s, o, "failed") ELSE CloseHandle(s, o, "failed")

Start(o) ==
  /\ client.connect = "open" /\ op[o].at = "idle"
  /\ \E kind \in Kinds[o] :
       LET started == [Now EXCEPT !.op[o].kind = kind] IN
       Become(IF kind = "stat" THEN Request(started, o, "work", Work[kind])
                               ELSE Request(started, o, "open", "OPEN"))

\* #open returns or throws.
Opened(o) ==
  /\ op[o].at = "open" /\ Returned(o)
  /\ op' = IF Outcome(o) = "good"
           THEN [op EXCEPT ![o].at = "ready",
                           ![o].handle = log[log[op[o].req].promise.of].op]
           ELSE [op EXCEPT ![o].at = "failed"]
  /\ UNCHANGED <<log, pending, out, writer, client, server>>

\* A response to STAT, READDIR, READ or WRITE; stat has no handle to close.
Worked(o) ==
  /\ op[o].at = "work" /\ Returned(o)
  /\ CASE op[o].kind = "stat" ->
            Become([Now EXCEPT !.op[o].at = IF Outcome(o) = "good" THEN "done" ELSE "failed"])
       [] op[o].kind # "stat" /\ Outcome(o) = "good" -> Become([Now EXCEPT !.op[o].at = "ready"])
       [] op[o].kind \in {"readDir", "download"} /\ Outcome(o) = "eof" ->
            Become(IF op[o].kind = "download" /\ op[o].aborted
                   THEN EndClient(Now, o, "done") ELSE CloseHandle(Now, o, "done"))
       [] OTHER -> Become(CleanupHandle(Now, o))

Closed(o) ==
  /\ op[o].at = "close" /\ Returned(o)
  /\ op' = [op EXCEPT ![o].at = IF Outcome(o) = "good" THEN op[o].then ELSE "failed"]
  /\ UNCHANGED <<log, pending, out, writer, client, server>>
Ended(o) ==
  /\ op[o].at = "terminate" /\ client.shutdown = "done"
  /\ op' = [op EXCEPT ![o].at = op[o].then]
  /\ UNCHANGED <<log, pending, out, writer, client, server>>

\* The consumer asks for more, or the source of an upload has a chunk.
Continue(o) ==
  /\ op[o].at = "ready" /\ op[o].work < MaxWork
  /\ Become(Request([Now EXCEPT !.op[o].work = @ + 1], o, "work", Work[op[o].kind]))

\* The source of an upload ends, or fails; the signal fails it too.
SourceEnds(o) ==
  /\ op[o].at = "ready" /\ op[o].kind = "upload"
  /\ \/ ~op[o].aborted /\ Become(CloseHandle(Now, o, "done"))
     \/ Become(CleanupHandle(Now, o))

\* The consumer leaves the iteration, or cancels the stream, which it can do
\* while the stream opens or reads too.
Stop(o) ==
  /\ \/ op[o].kind = "readDir" /\ op[o].at = "ready"
     \/ op[o].kind = "download" /\ op[o].at \in {"open", "ready", "work"}
  /\ Become(EndClient(Now, o, "done"))

\* Mutant: an aborted request stays in the table.
AbortedInTable(s, o) ==
  LET r == s.op[o].req
      told == [s EXCEPT !.op[o].aborted = TRUE,
                        !.log[r].promise = Settle(@, Rejected)]
  IN  IF s.log[r].kind = "READ" THEN Terminated(told) ELSE told

\* The abort listener of the pending request; only READ ends the client.
AbortedRequest(s, o) ==
  LET r == s.op[o].req
      told == [s EXCEPT !.op[o].aborted = TRUE,
                        !.pending.of[s.log[r].id] = None,
                        !.log[r].promise = Settle(@, Rejected)]
  IN  IF s.log[r].kind = "READ" THEN Terminated(told) ELSE told

\* The listener of the request under way is still on the signal.
Listening(o) ==
  /\ op[o].at \in {"open", "work"} /\ op[o].req # None
  /\ pending.of[log[op[o].req].id] = op[o].req

\* The signal of an operation.  One that closes its handle never looks at it.
Abort(o) ==
  /\ op[o].at \in {"open", "ready", "work"} /\ ~op[o].aborted
  /\ Become(IF Listening(o) THEN AbortedRequest(Now, o)
                            ELSE [Now EXCEPT !.op[o].aborted = TRUE])

\* close() or dispose() by the user; the channel ends or sends a bad packet.
Terminate ==
  /\ client.connect # "idle" /\ ~client.closed
  /\ Become(Terminated(Now))

\* Every part of the clean-up has settled.
ShutdownEnds ==
  /\ client.shutdown = "running" /\ writer = "errored"
  /\ client' = [client EXCEPT !.shutdown = "done"]
  /\ UNCHANGED <<op, log, pending, out, writer, server>>

-----------------------------------------------------------------------------
(* The channel and the server.                                             *)

\* The channel has sent all of the packet, and the server has it.  The channel may
\* never come to it, since it waits for the window that the server grants.
Sent ==
  /\ out # <<>> /\ ~server.got
  /\ server' = [server EXCEPT !.got = TRUE,
                   !.owed = IF client.closed THEN @ ELSE @ \cup {Head(out)}]
  /\ UNCHANGED <<op, log, pending, out, writer, client>>

\* The promise of that write is resolved, perhaps after the server has answered;
\* when the writer is being aborted, the packets behind it go.
Written ==
  /\ out # <<>> /\ server.got
  /\ out' = IF writer = "aborting" THEN <<>> ELSE Tail(out)
  /\ writer' = IF writer = "aborting" THEN "errored" ELSE writer
  /\ client' = [client EXCEPT !.connect = IF @ = "writing" THEN "version" ELSE @]
  /\ server' = [server EXCEPT !.got = FALSE]
  /\ UNCHANGED <<op, log, pending>>

\* The write fails, and those behind it.  The catch of #request deletes the id of
\* the first, whoever holds it by then, and terminates.
WriteFails ==
  /\ out # <<>>
  /\ LET queued == {out[i] : i \in DOMAIN out}
         first == Head(out)
         freed == IF first = None THEN Now
                  ELSE [Now EXCEPT !.pending.of[log[first].id] = None]
         told == [freed EXCEPT !.log = Rejecting(freed, queued)]
     IN  Become([Terminated(told) EXCEPT !.out = <<>>, !.writer = "errored", !.server.got = FALSE,
                   !.client.connect = IF @ = "writing" THEN "closing" ELSE @])

Results(r) ==
  {"refused", IF r = None THEN "version" ELSE Wanted[log[r].kind]}
    \cup IF r # None /\ log[r].kind \in {"READDIR", "READ"} THEN {"eof"} ELSE {}

\* The server answers the requests it has in any order, and the read loop takes
\* the response; what is under way counts as not answered.
Answer(r) ==
  /\ r \in server.owed
  /\ \E result \in Results(r) :
       LET given == [Now EXCEPT !.server.owed = @ \ {r},
                       !.server.handles =
                         CASE result = "handle" -> @ \cup {log[r].op}
                           [] r # None /\ log[r].kind = "CLOSE" /\ result = "ok" ->
                                @ \ {op[log[r].op].handle}
                           [] OTHER -> @]
       IN  Become(IF r = None THEN Negotiated(given, result)
                              ELSE Dispatched(given, r, result))

-----------------------------------------------------------------------------
Resume(o) == Opened(o) \/ Worked(o) \/ Closed(o) \/ Ended(o)
User(o) == Start(o) \/ Continue(o) \/ SourceEnds(o) \/ Stop(o) \/ Abort(o)
Next ==
  \/ Connect \/ ConnectReturns \/ ConnectFails \/ AbortConnect
  \/ \E o \in Ops : Resume(o) \/ User(o)
  \/ Terminate \/ ShutdownEnds \/ Sent \/ Written \/ WriteFails
  \/ \E r \in server.owed : Answer(r)

Spec == Init /\ [][Next]_vars

\* The event loop resumes what can go on, and the write of a packet that the
\* server has got is settled.  The channel need not come to send a packet, nor
\* the server answer it, nor the user go on.
Own == ConnectReturns \/ ConnectFails \/ ShutdownEnds
FairSpec ==
  /\ Spec
  /\ WF_vars(Own) /\ WF_vars(Written)
  /\ \A o \in Ops : WF_vars(Resume(o))

-----------------------------------------------------------------------------
\* Every variable keeps its type, and the table its limit.
TypeOK ==
  /\ op \in [Ops -> Operation]
  /\ \A r \in DOMAIN log : log[r].op \in Ops /\ log[r].id \in Id
  /\ pending.next \in Id /\ pending.of \in [Id -> 0 .. Len(log)]
  /\ Cardinality(Pending(Now)) <= client.limit
  /\ \A i \in DOMAIN out : out[i] \in 0 .. Len(log)
  /\ writer \in {"open", "aborting", "errored"}
  /\ client \in [connect : {"idle", "writing", "version", "open", "closing", "failed"},
                 limit : Limits \cup {1},
                 aborted : BOOLEAN, version : {"pending", "resolved", "rejected"},
                 closed : BOOLEAN, shutdown : {"no", "running", "done"}]
  /\ server.owed \subseteq 0 .. Len(log) /\ server.handles \subseteq Ops
  /\ server.got \in BOOLEAN

\* A request waits for its response exactly while the table holds it under its
\* id: none is forgotten by an abort, a failed write or the end of the client,
\* and none that is settled keeps its place (sftp.ts:451-491 and 611-637).
PendingExact ==
  \A r \in DOMAIN log :
    (log[r].promise.state = "waiting") <=> (pending.of[log[r].id] = r)

Crossed == \E r \in DOMAIN log : log[r].promise.of \notin {None, r}

\* A request gets the response to another one only when the ids have gone round
\* since that was made, after more than 2^32 - maximumPendingRequests requests:
\* the aborted request whose response comes late, or one that itself got another's
\* (sftp.ts:493-501 and 611).
StaleDistance ==
  \A r \in DOMAIN log :
    LET s == log[r].promise.of IN
    log[r].promise.state = "answered" /\ s # r => r - s > IdSpace - client.limit

\* When an operation is over and the client is not, the server still holds the
\* handle it opened only if the OPEN was aborted before its response came, or
\* the CLOSE was refused: by the limit on pending requests, or by the server
\* (sftp.ts:421-449).
HandlesAccounted ==
  \A o \in server.handles :
    op[o].at \in {"done", "failed"} /\ ~client.closed /\ ~Crossed =>
      \/ op[o].aborted /\ op[o].handle = "none"
      \/ op[o].refused
      \/ /\ op[o].req # None
         /\ log[op[o].req].kind = "CLOSE" /\ log[op[o].req].promise.result = "refused"

\* No call waits for ever but for one of two things: a response that the server
\* owes it, or a packet that the channel has not sent, its own or one before it.
\* An aborted connect() or request does not wait for the response, nor does the
\* clean-up of an operation that the abort ends; both do wait for the packet, and
\* so does the shutdown that aborts the writer (sftp.ts:187-195, 439-449, 451-491
\* and 627-669).
Unsent == out # <<>> /\ ~server.got
Queued(r) == Unsent /\ \E i \in DOMAIN out : out[i] = r
Gone(o) == op[o].req # None /\ log[op[o].req].promise.state = "rejected"
Stuck ==
  \/ client.connect = "writing" /\ ~Queued(None)
  \/ client.connect = "version" /\ (None \notin server.owed \/ client.aborted)
  \/ client.connect = "closing" /\ ~Unsent
  \/ \E o \in Ops :
       \/ op[o].at = "terminate" /\ ~Unsent
       \/ /\ op[o].at \in {"open", "work", "close"} /\ ~Queued(op[o].req)
          /\ op[o].req \notin server.owed \/ Gone(o)
CallsReturn == []<>~Stuck

\* Each request is settled once, each response of the server used at most once,
\* for its own request or for one made after its caller had given up.
Table == INSTANCE SftpRequests WITH
  call <- [r \in DOMAIN log |->
             [state |-> log[r].promise.state, of |-> log[r].promise.of]]
RequestTable == Table!Spec
=============================================================================
