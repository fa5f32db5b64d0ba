---------------------------- MODULE SftpChannel -----------------------------
(***************************************************************************)
(* One ManagedSftpChannel between the multiplexer and the SFTPClient that  *)
(* owns its streams: opening, the two flow-control windows, and closing.   *)
(*                                                                         *)
(* As in ChannelMux an action is what runs between two suspensions, and a  *)
(* coroutine whose promise is settled resumes before the next packet or    *)
(* write completion (Quiet).  The coroutines are #begin, the read loop,    *)
(* the pull of the readable stream, the #write of the writable stream, and *)
(* the calls of close(), of which several may be under way.                *)
(***************************************************************************)
EXTENDS Integers, Sequences

CONSTANTS
  Window,        \* DEFAULT_SFTP_CHANNEL_WINDOW_SIZE
  MaxWindow,     \* the largest window, 0xffff_ffff in the code
  MaxPacket,     \* the maximum packet size in the server's confirmation
  Grants,        \* window sizes and adjustments of the server
  DataSize,      \* lengths of the data messages of the server
  ChunkSize,     \* lengths of the chunks the SFTPClient writes
  MaxGranted,    \* bound: bytes the server grants in all
  MaxSent,       \* bound: bytes the server sends in all
  MaxChunks,     \* bound: chunks the SFTPClient writes
  MaxInbox       \* bound: messages sent by the server and not yet read

ASSUME SftpAssumption ==
  /\ Window \in Nat \ {0} /\ MaxWindow \in Nat /\ MaxPacket \in Nat \ {0}
  /\ Grants \subseteq 0 .. MaxWindow /\ DataSize \subseteq Nat \ {0} /\ ChunkSize \subseteq Nat \ {0}
  /\ MaxGranted \in Nat /\ MaxSent \in Nat /\ MaxChunks \in Nat /\ MaxInbox \in Nat \ {0}

\* Who calls close(): the catch of #begin, that of openSftp, the abort listener,
\* SFTPClient.#terminate, the catch of #write, and the cancel and abort
\* callbacks of the two streams.
Closer == {"beginFailed", "open", "cancel", "client", "write", "readable", "writable"}

VARIABLES
  ch,        \* the channel object
  inMap,     \* is it in the channel map of the multiplexer?
  terminal,  \* "no", or the reason the first #fatal was called with
  closer,    \* where each call of close() is suspended
  readable,  \* the readable stream
  writable,  \* the writable stream and its #write
  client,    \* openSftp and the SFTPClient
  tail,      \* the packets of the write tail, the head being written
  flushed,   \* has the peer got the head of the tail?
  reader,    \* where the read loop is suspended
  srv,       \* what the server has got, sent and granted
  inbox      \* messages of the server that are not yet read

muxVars == <<inMap, terminal, reader>>
wireVars == <<flushed, srv, inbox>>
vars == <<ch, closer, readable, writable, client, tail, muxVars, wireVars>>

-----------------------------------------------------------------------------
Promise == {"none", "pending", "resolved", "rejected"}
Settle(promise, outcome) == IF promise = "pending" THEN outcome ELSE promise

Begin == {"opening", "awaitOpened", "requesting", "awaitReply", "done"}
Stage == {"idle", "aborting", "eof", "close", "remote", "done", "failed"}
Owner == {"begin", "reader", "pull", "writer"} \cup Closer
ClientType == {"OPEN", "SUBSYSTEM", "DATA", "ADJUST", "EOF", "CLOSE"}
ServerType == {"confirm", "openFailure", "adjust", "data", "eof", "close",
               "otherRequest", "success", "failure"}

Packet(type, n, by) == [type |-> type, n |-> n, by |-> by]

\* `closing` stands for #normalClosing too, which is set with it.
ChannelState ==
  [begin : Begin, opened : Promise, reply : Promise, ready : Promise,
   remoteClose : Promise, remote : BOOLEAN, closing : BOOLEAN, closed : BOOLEAN,
   cancelled : BOOLEAN, receivedEof : BOOLEAN, sentEof : BOOLEAN,
   sentClose : BOOLEAN, receivedClose : BOOLEAN,
   receiveWindow : 0 .. Window, remoteWindow : 0 .. MaxWindow]

\* The readable stream and the bytes in its queue; `closed` with bytes left when
\* its controller was closed before they were read.
ReadableState == [state : {"readable", "closed", "errored"}, queued : 0 .. Window,
                  pulling : BOOLEAN, pullAgain : BOOLEAN]
\* The writable stream, where its #write is suspended, and the bytes left.
WritableState == [state : {"writable", "erroring", "errored"},
                  at : {"idle", "check", "window", "write", "throw"},
                  left : Nat, chunks : Nat]

Min2(a, b) == IF a < b THEN a ELSE b

\* The parts of the state that one turn of JavaScript may change several times.
Now == [ch |-> ch, closer |-> closer, tail |-> tail, readable |-> readable,
        writable |-> writable]
Become(s) == /\ ch' = s.ch /\ closer' = s.closer /\ tail' = s.tail
             /\ readable' = s.readable /\ writable' = s.writable
Put(s, type, n, by) == [s EXCEPT !.tail = Append(@, Packet(type, n, by))]

-----------------------------------------------------------------------------
(* close(), onTerminal and the credit of the receive window.               *)

\* The flags that close() raises before it looks at anything else.
MarkedClosing(s) == [s EXCEPT !.ch.closing = TRUE]

\* Mutant: EOF counts as sent only when it is written.
CalledTwice(k, s) ==
  CASE s.ch.closed -> [s EXCEPT !.closer[k] = "done"]
    [] ~s.ch.closed /\ ~s.ch.remote -> [MarkedClosing(s) EXCEPT !.closer[k] = "done"]
    [] OTHER -> Put([MarkedClosing(s) EXCEPT !.closer[k] = "eof"], "EOF", 0, k)

\* close() up to its first suspension: EOF, CLOSE, or the wait for the CLOSE of
\* the server, whichever is next.  A channel that #fatal reached is closed.
Called(k, s) ==
  CASE s.ch.closed -> [s EXCEPT !.closer[k] = "done"]
    [] ~s.ch.closed /\ ~s.ch.remote -> [MarkedClosing(s) EXCEPT !.closer[k] = "done"]
    [] ~s.ch.closed /\ s.ch.remote /\ ~s.ch.sentEof ->
         Put([MarkedClosing(s) EXCEPT !.ch.sentEof = TRUE, !.closer[k] = "eof"], "EOF", 0, k)
    [] ~s.ch.closed /\ s.ch.remote /\ s.ch.sentEof /\ ~s.ch.sentClose ->
         Put([MarkedClosing(s) EXCEPT !.ch.sentClose = TRUE, !.closer[k] = "close"], "CLOSE", 0, k)
    [] OTHER -> [MarkedClosing(s) EXCEPT !.closer[k] = "remote"]

\* A call of close() has ended.
Settled(k) == \/ closer[k] \in {"done", "failed"}
              \/ closer[k] = "remote" /\ ch.remoteClose # "pending"

\* Mutant: onTerminal forgets those who wait for the CLOSE of the server.
BrokenSilently(s) ==
  [s EXCEPT !.ch.closed = TRUE,
            !.ch.ready = Settle(@, "rejected"),
            !.writable.at = IF @ = "window" THEN "throw" ELSE @,
            !.readable.state = IF @ = "readable" THEN "errored" ELSE @,
            !.readable.queued = IF s.readable.state = "readable" THEN 0 ELSE @]

\* onTerminal: both promises, the waiting #write, and the readable stream.
Broken(s) ==
  [s EXCEPT !.ch.closed = TRUE,
            !.ch.ready = Settle(@, "rejected"),
            !.ch.remoteClose = Settle(@, "rejected"),
            !.writable.at = IF @ = "window" THEN "throw" ELSE @,
            !.readable.state = IF @ = "readable" THEN "errored" ELSE @,
            !.readable.queued = IF s.readable.state = "readable" THEN 0 ELSE @]

\* ManagedChannel.terminal.
Terminated(s) == Broken([s EXCEPT !.ch.opened = Settle(@, "rejected"),
                                  !.ch.reply = Settle(@, "rejected")])

\* The first #fatal reaches the channel when it is in the map.
AfterFatal(s, listed) == IF terminal = "no" /\ listed THEN Terminated(s) ELSE s
Fatal(s, listed, reason) ==
  /\ Become(AfterFatal(s, listed))
  /\ inMap' = (listed /\ terminal # "no")
  /\ terminal' = IF terminal = "no" THEN reason ELSE terminal

\* #replenishReceiveWindow: what is neither granted nor in the queue.
CreditIgnoringQueue(s) == Window - s.ch.receiveWindow  \* Mutant.
CreditIgnoringGranted(s) == Window - s.readable.queued  \* Mutant.
Credit(s) == Window - s.ch.receiveWindow - s.readable.queued
\* Mutant: the credit is granted and not counted.
ReplenishedUncounted(s) ==
  IF s.ch.closed \/ s.ch.closing \/ ~s.ch.remote \/ Credit(s) <= 0 THEN s
  ELSE Put([s EXCEPT !.readable.pulling = TRUE], "ADJUST", Credit(s), "pull")
Replenished(s) ==
  IF s.ch.closed \/ s.ch.closing \/ ~s.ch.remote \/ Credit(s) <= 0 THEN s
  ELSE Put([s EXCEPT !.ch.receiveWindow = @ + Credit(s), !.readable.pulling = TRUE],
           "ADJUST", Credit(s), "pull")

\* The stream pulls after each chunk in or out, one pull at a time, and once
\* more after a pull during which it was asked to.  (It does not ask when its
\* queue is full; there is then no credit to give.)
Pulled(s) ==
  CASE s.readable.state # "readable" -> s
    [] s.readable.state = "readable" /\ s.readable.pulling -> [s EXCEPT !.readable.pullAgain = TRUE]
    [] OTHER -> Replenished(s)

-----------------------------------------------------------------------------
(* #begin and openSftp.                                                    *)

CatchBegin(s) ==
  LET ended == [s EXCEPT !.ch.begin = "done"] IN
  IF s.ch.cancelled THEN ended
  ELSE Called("beginFailed", [ended EXCEPT !.ch.ready = Settle(@, "rejected")])

ResumeOpened ==
  /\ ch.begin = "awaitOpened" /\ ch.opened # "pending"
  /\ CASE ch.opened = "rejected" -> Become(CatchBegin(Now))
       [] ch.opened = "resolved" /\ ch.cancelled -> Become([Now EXCEPT !.ch.begin = "done"])
       [] ch.opened = "resolved" /\ ~ch.cancelled /\ terminal # "no" -> Become(CatchBegin(Now))
       [] OTHER -> Become(Put([Now EXCEPT !.ch.reply = "pending", !.ch.begin = "requesting"],
                              "SUBSYSTEM", 0, "begin"))
  /\ UNCHANGED <<client, muxVars, wireVars>>

ResumeReplied ==
  /\ ch.begin = "awaitReply" /\ ch.reply # "pending"
  /\ IF ch.reply = "rejected" THEN Become(CatchBegin(Now))
     ELSE Become([Now EXCEPT !.ch.begin = "done",
                             !.ch.ready = IF ch.cancelled THEN @ ELSE Settle(@, "resolved")])
  /\ UNCHANGED <<client, muxVars, wireVars>>

\* A chunk of the SFTPClient that the stream hands to #write.
WriteOf(n) == [writable EXCEPT !.at = "check", !.left = n, !.chunks = @ + 1]

\* openSftp after channel.start(): SFTPClient.connect, which writes INIT, or
\* the catch block.
Connect ==
  /\ client = "starting" /\ ch.ready = "resolved" /\ ~ch.cancelled
  /\ client' = "connecting"
  /\ writable' \in {WriteOf(n) : n \in ChunkSize}
  /\ UNCHANGED <<ch, closer, readable, tail, muxVars, wireVars>>

\* SFTPClient.connect when it has read the version and INIT is written: the
\* client that it returns may have been terminated meanwhile.
Negotiated ==
  /\ client = "negotiated" /\ writable.at = "idle"
  /\ \/ /\ closer["write"] = "idle" /\ ~ch.cancelled
        /\ client' = IF closer["client"] = "idle" THEN "open" ELSE "terminated"
     \/ /\ closer["write"] # "idle" \/ ch.cancelled
        /\ closer["client"] # "idle"
        /\ client' = "connectFailed"
  /\ UNCHANGED <<ch, closer, readable, writable, tail, muxVars, wireVars>>

ShutdownDone == \A k \in {"client", "writable", "readable"} : Settled(k)

OpenFailed ==
  /\ \/ client = "starting" /\ (ch.ready = "rejected" \/ ch.cancelled)
     \/ client = "connectFailed" /\ ShutdownDone
  /\ client' = "failed"
  /\ Become(Called("open", Now))
  /\ UNCHANGED <<muxVars, wireVars>>

\* The promise of openSftp is settled.
OpenSettled == \/ client \in {"open", "terminated"}
               \/ client = "failed" /\ Settled("open")

\* The abort listener of openSftp, which is removed once openSftp has settled.
Cancel ==
  /\ ~OpenSettled /\ ~ch.cancelled
  /\ Become(Called("cancel", [Now EXCEPT !.ch.cancelled = TRUE,
                                         !.ch.ready = Settle(@, "rejected")]))
  /\ UNCHANGED <<client, muxVars, wireVars>>

-----------------------------------------------------------------------------
(* The SFTPClient: its read loop, its writes, and #terminate.              *)

\* The client of a connect that has not returned it, and which is not terminated.
Connecting == client \in {"connecting", "negotiated"} /\ closer["client"] = "idle"

\* The read loop takes bytes from the stream, the version among them.
Take ==
  /\ (Connecting \/ client = "open") /\ readable.queued > 0
  /\ \E n \in 1 .. readable.queued :
       Become(Pulled([Now EXCEPT !.readable.queued = @ - n]))
  /\ \/ UNCHANGED client
     \/ client = "connecting" /\ client' = "negotiated"
  /\ UNCHANGED <<muxVars, wireVars>>

WriteChunk ==
  /\ client = "open"
  /\ writable.state = "writable" /\ writable.at = "idle" /\ writable.chunks < MaxChunks
  /\ writable' \in {WriteOf(n) : n \in ChunkSize}
  /\ UNCHANGED <<ch, closer, readable, client, tail, muxVars, wireVars>>

\* What the SFTPClient reacts to: an aborted connect, once INIT is written, and
\* the end of a stream.
Upset == \/ Connecting /\ ch.cancelled /\ writable.at = "idle"
         \/ readable.state # "readable" /\ readable.queued = 0
         \/ writable.state = "errored"

\* #terminate: channel.close(), writer.abort(), which waits for a #write that
\* is under way, and reader.cancel().
Terminate ==
  /\ client = "open" \/ (Connecting /\ (Upset \/ "data" \in srv.sent))
  /\ client' = CASE client = "open" -> "terminated"
                 [] client = "connecting" -> "connectFailed"
                 [] client = "negotiated" -> client
  /\ LET closed == Called("client", Now)
         aborted == CASE writable.state = "errored" -> [closed EXCEPT !.closer["writable"] = "done"]
                      [] writable.state = "writable" /\ writable.at = "idle" ->
                           Called("writable", [closed EXCEPT !.writable.state = "errored"])
                      [] OTHER -> [closed EXCEPT !.writable.state = "erroring",
                                                 !.closer["writable"] = "aborting"] IN
     Become(IF readable.state # "readable" THEN [aborted EXCEPT !.closer["readable"] = "done"]
            ELSE Called("readable", [aborted EXCEPT !.readable.state = "closed",
                                                    !.readable.queued = 0]))
  /\ UNCHANGED <<muxVars, wireVars>>

\* SshClient.close.
Close ==
  /\ terminal = "no"
  /\ Fatal(Now, inMap, "closed")
  /\ UNCHANGED <<client, reader, wireVars>>

-----------------------------------------------------------------------------
(* #write.                                                                 *)

\* The stream hears of the end of a #write: an abort that waited goes on.
WriteEnded(s, next) ==
  IF s.writable.state = "erroring"
  THEN Called("writable", [s EXCEPT !.writable.state = "errored", !.writable.at = "idle"])
  ELSE [s EXCEPT !.writable.state = next, !.writable.at = "idle"]

\* The catch block closes the channel, and its rejection errors the stream.
WriteThrown(s) == WriteEnded(Called("write", s), "errored")

WriteLength == Min2(writable.left, Min2(ch.remoteWindow, MaxPacket))

WriterStep ==
  /\ writable.at = "check"
  /\ CASE ch.remoteWindow = 0 /\ (ch.closed \/ ch.closing) -> Become(WriteThrown(Now))
       [] ch.remoteWindow = 0 /\ ~(ch.closed \/ ch.closing) ->
            Become([Now EXCEPT !.writable.at = "window"])
       [] ch.remoteWindow > 0 /\ terminal # "no" -> Become(WriteThrown(Now))
       [] OTHER -> Become(Put([Now EXCEPT !.ch.remoteWindow = @ - WriteLength,
                                          !.writable.left = @ - WriteLength,
                                          !.writable.at = "write"],
                              "DATA", WriteLength, "writer"))
  /\ UNCHANGED <<client, muxVars, wireVars>>

WriterThrow ==
  /\ writable.at = "throw"
  /\ Become(WriteThrown(Now))
  /\ UNCHANGED <<client, muxVars, wireVars>>

\* Coroutines whose promise is settled.
Ready == \/ client = "starting" /\ ch.ready # "pending"
         \/ client = "connectFailed" /\ ShutdownDone
         \/ client = "negotiated" /\ writable.at = "idle"
         \/ (Connecting \/ client = "open") /\ Upset
         \/ ch.begin = "awaitOpened" /\ ch.opened # "pending"
         \/ ch.begin = "awaitReply" /\ ch.reply # "pending"
         \/ writable.at \in {"check", "throw"}
Quiet == ~Ready

-----------------------------------------------------------------------------
(* The write tail.                                                         *)

Transmit ==
  /\ Quiet /\ tail # <<>> /\ ~flushed
  /\ flushed' = TRUE
  /\ LET p == Head(tail) IN
     srv' = [srv EXCEPT !.got = @ \cup {p.type},
                        !.window = IF p.type = "ADJUST" THEN @ + p.n ELSE @,
                        !.received = IF p.type = "DATA" THEN @ + p.n ELSE @]
  /\ UNCHANGED <<ch, closer, readable, writable, client, tail, muxVars, inbox>>

\* close() after its EOF, where a terminal multiplexer throws, and after its CLOSE.
Advanced(k, s) ==
  CASE s.closer[k] = "close" \/ s.ch.sentClose -> [s EXCEPT !.closer[k] = "remote"]
    [] s.closer[k] = "eof" /\ ~s.ch.sentClose /\ terminal # "no" ->
         Broken([s EXCEPT !.ch.sentClose = TRUE, !.closer[k] = "failed"])
    [] OTHER -> Put([s EXCEPT !.ch.sentClose = TRUE, !.closer[k] = "close"], "CLOSE", 0, k)

\* Mutant: a pull that was asked for during the last one is lost.
PullDoneOnce(s) == [s EXCEPT !.readable.pulling = FALSE, !.readable.pullAgain = FALSE]
PullDone(s) ==
  LET idle == [s EXCEPT !.readable.pulling = FALSE, !.readable.pullAgain = FALSE] IN
  IF s.readable.pullAgain THEN Pulled(idle) ELSE idle

\* Mutant: onClose does not tell those who wait for it.
FinishCloseSilent(s) ==
  /\ inMap' = FALSE
  /\ Become([s EXCEPT !.ch.closed = TRUE,
                      !.readable.state = IF @ = "readable" THEN "closed" ELSE @])
  /\ reader' = "read"
  /\ UNCHANGED terminal

\* The end of closeReceived: onClose and the release of the channel.
FinishClose(s) ==
  /\ inMap' = FALSE
  /\ IF s.ch.closing
     THEN /\ Become([s EXCEPT !.ch.closed = TRUE,
                              !.ch.remoteClose = Settle(@, "resolved"),
                              !.readable.state = IF @ = "readable" THEN "closed" ELSE @])
          /\ reader' = "read"
          /\ UNCHANGED terminal
     ELSE /\ Become(Broken(s))
          /\ reader' = "stopped"
          /\ terminal' = IF terminal = "no" THEN "endedUnexpectedly" ELSE terminal

WriteDone ==
  LET p == Head(tail)
      done == [Now EXCEPT !.tail = Tail(@)] IN
  /\ Quiet /\ tail # <<>> /\ flushed
  /\ flushed' = FALSE
  /\ \/ /\ p.by = "begin"
        /\ Become([done EXCEPT !.ch.begin = IF @ = "opening" THEN "awaitOpened" ELSE "awaitReply"])
        /\ UNCHANGED muxVars
     \/ /\ p.by = "writer"
        /\ Become(IF writable.left > 0 THEN [done EXCEPT !.writable.at = "check"]
                  ELSE WriteEnded(done, "writable"))
        /\ UNCHANGED muxVars
     \/ /\ p.by = "pull"
        /\ Become(PullDone(done))
        /\ UNCHANGED muxVars
     \/ /\ p.by \in Closer
        /\ Become(Advanced(p.by, done))
        /\ UNCHANGED muxVars
     \/ /\ p.by = "reader" /\ reader = "write"
        /\ Become(done)
        /\ reader' = "read"
        /\ UNCHANGED <<inMap, terminal>>
     \/ /\ p.by = "reader" /\ reader = "close"
        /\ FinishClose(done)
  /\ UNCHANGED <<client, srv, inbox>>

\* The transport refuses the head, and every packet behind it fails.
WriteFail ==
  LET owners == {tail[i].by : i \in DOMAIN tail}
      fatal == AfterFatal(Now, inMap)
      failed == [fatal EXCEPT
                   !.tail = <<>>,
                   !.closer = [k \in Closer |-> IF k \in owners THEN "failed" ELSE @[k]],
                   !.readable.pulling = @ /\ "pull" \notin owners,
                   !.readable.pullAgain = @ /\ "pull" \notin owners,
                   !.writable.at = IF "writer" \in owners THEN "throw" ELSE @] IN
  /\ Quiet /\ tail # <<>>
  /\ Become(IF "begin" \in owners THEN CatchBegin(failed) ELSE failed)
  /\ inMap' = (inMap /\ terminal # "no")
  /\ terminal' = IF terminal = "no" THEN "transport" ELSE terminal
  /\ flushed' = FALSE
  /\ reader' = IF "reader" \in owners THEN "stopped" ELSE reader
  /\ UNCHANGED <<client, srv, inbox>>

-----------------------------------------------------------------------------
(* The read loop.                                                          *)

msg == Head(inbox)

RouteError ==
  CASE ~inMap -> "unknownChannel"
    [] inMap /\ msg.type = "confirm" /\ (ch.remote \/ ch.receivedClose) -> "openedTwice"
    [] inMap /\ msg.type = "openFailure" /\ ch.remote -> "failedAfterOpen"
    [] inMap /\ msg.type = "adjust" /\ msg.n > MaxWindow - ch.remoteWindow -> "windowOverflow"
    [] inMap /\ msg.type = "data" /\ ch.closing -> "dataWhileClosing"
    [] inMap /\ msg.type = "data" /\ ~ch.closing /\ msg.n > ch.receiveWindow -> "windowExceeded"
    [] inMap /\ msg.type = "data" /\ ~ch.closing /\ msg.n <= ch.receiveWindow
         /\ (readable.state # "readable" \/ msg.n > Window - readable.queued) -> "queueExceeded"
    [] inMap /\ msg.type = "eof" /\ (ch.receivedEof \/ ch.receivedClose) -> "eofTwice"
    [] inMap /\ msg.type = "eof" /\ ~(ch.receivedEof \/ ch.receivedClose) /\ ~ch.closing -> "endedUnexpectedly"
    [] inMap /\ msg.type = "close" /\ ch.receivedClose -> "closeTwice"
    [] inMap /\ msg.type = "otherRequest" -> "badRequest"
    [] inMap /\ msg.type \in {"success", "failure"} /\ ch.reply # "pending" -> "unsolicitedReply"
    [] OTHER -> "no"

Receive == /\ Quiet /\ reader = "read" /\ inbox # <<>>
           /\ inbox' = Tail(inbox)
           /\ UNCHANGED <<client, flushed, srv>>
Handle(types) == Receive /\ msg.type \in types /\ RouteError = "no"

RecvError ==
  /\ Receive /\ RouteError # "no"
  /\ Fatal(Now, inMap, RouteError)
  /\ reader' = "stopped"

RecvConfirmation ==
  /\ Handle({"confirm"})
  /\ LET s == [Now EXCEPT !.ch.remote = TRUE, !.ch.remoteWindow = msg.n,
                          !.ch.opened = Settle(@, "resolved")] IN
     IF ch.closing
     THEN Become(Put([s EXCEPT !.ch.sentClose = TRUE], "CLOSE", 0, "reader")) /\ reader' = "write"
     ELSE Become(s) /\ UNCHANGED reader
  /\ UNCHANGED <<inMap, terminal>>

RecvOpenFailure ==
  /\ Handle({"openFailure"})
  /\ Become(Broken([Now EXCEPT !.ch.opened = Settle(@, "rejected")]))
  /\ inMap' = FALSE
  /\ UNCHANGED <<terminal, reader>>

\* Every waiting #write goes on, and looks at the window again.
RecvAdjustReplacing ==  \* Mutant: the adjustment is taken for the new window.
  /\ Handle({"adjust"})
  /\ Become([Now EXCEPT !.ch.remoteWindow = msg.n,
                        !.writable.at = IF @ = "window" THEN "check" ELSE @])
  /\ UNCHANGED muxVars
RecvAdjust ==
  /\ Handle({"adjust"})
  /\ Become([Now EXCEPT !.ch.remoteWindow = @ + msg.n,
                        !.writable.at = IF @ = "window" THEN "check" ELSE @])
  /\ UNCHANGED muxVars

RecvData ==
  /\ Handle({"data"})
  /\ Become(Pulled([Now EXCEPT !.ch.receiveWindow = @ - msg.n,
                               !.readable.queued = @ + msg.n]))
  /\ UNCHANGED muxVars

RecvEof ==
  /\ Handle({"eof"})
  /\ Become([Now EXCEPT !.ch.receivedEof = TRUE])
  /\ UNCHANGED muxVars

RecvReply ==
  /\ Handle({"success", "failure"})
  /\ Become([Now EXCEPT !.ch.reply = IF msg.type = "success" THEN "resolved" ELSE "rejected"])
  /\ UNCHANGED muxVars

RecvCloseUnanswered ==  \* Mutant.
  Handle({"close"}) /\ FinishClose([Now EXCEPT !.ch.receivedClose = TRUE])
RecvClose ==
  /\ Handle({"close"})
  /\ LET s == [Now EXCEPT !.ch.receivedClose = TRUE] IN
     IF ch.remote /\ ~ch.sentClose
     THEN /\ Become(Put([s EXCEPT !.ch.sentClose = TRUE], "CLOSE", 0, "reader"))
          /\ reader' = "close"
          /\ UNCHANGED <<inMap, terminal>>
     ELSE FinishClose(s)

ReadFail ==
  /\ Quiet /\ reader = "read"
  /\ Fatal(Now, inMap, "transport")
  /\ reader' = "stopped"
  /\ UNCHANGED <<client, wireVars>>

-----------------------------------------------------------------------------
(* The server: not part of the repository.  It follows RFC 4254, may end   *)
(* the subsystem at any time, and may report its exit status.              *)

ServerState == [got : SUBSET ClientType, sent : SUBSET ServerType, window : 0 .. Window,
                granted : 0 .. MaxGranted, bytes : 0 .. MaxSent, received : Nat]

MaySend(type, n) ==
  LET unsent(types) == srv.sent \cap types = {} IN
  CASE type = "confirm" -> "OPEN" \in srv.got /\ unsent({"confirm", "openFailure"}) /\ n <= MaxGranted
    [] type = "openFailure" -> "OPEN" \in srv.got /\ unsent({"confirm", "openFailure"})
    [] type = "adjust" -> "confirm" \in srv.sent /\ unsent({"close"}) /\ srv.granted + n <= MaxGranted
    [] type \in {"success", "failure"} ->
         "SUBSYSTEM" \in srv.got /\ unsent({"success", "failure", "close"})
    [] type = "data" -> /\ "success" \in srv.sent /\ unsent({"eof", "close"})
                        /\ n <= srv.window /\ srv.bytes + n <= MaxSent
    [] type \in {"eof", "otherRequest"} -> "success" \in srv.sent /\ unsent({type, "close"})
    [] OTHER -> "confirm" \in srv.sent /\ unsent({"close"})

Send(type, n) ==
  /\ Quiet /\ terminal = "no" /\ Len(inbox) < MaxInbox
  /\ MaySend(type, n)
  /\ inbox' = Append(inbox, [type |-> type, n |-> n])
  /\ srv' = [srv EXCEPT !.sent = @ \cup {type},
                        !.window = IF type = "data" THEN @ - n ELSE @,
                        !.bytes = IF type = "data" THEN @ + n ELSE @,
                        !.granted = IF type \in {"confirm", "adjust"} THEN @ + n ELSE @]
  /\ UNCHANGED <<ch, closer, readable, writable, client, tail, muxVars, flushed>>

Lengths(type) == CASE type \in {"confirm", "adjust"} -> Grants
                   [] type = "data" -> DataSize
                   [] OTHER -> {0}
Server == \E type \in ServerType : \E n \in Lengths(type) : Send(type, n)

-----------------------------------------------------------------------------
Init ==
  /\ ch = [begin |-> "opening", opened |-> "pending", reply |-> "none",
           ready |-> "pending", remoteClose |-> "pending", remote |-> FALSE,
           closing |-> FALSE, closed |-> FALSE, cancelled |-> FALSE,
           receivedEof |-> FALSE, sentEof |-> FALSE, sentClose |-> FALSE,
           receivedClose |-> FALSE, receiveWindow |-> Window, remoteWindow |-> 0]
  /\ inMap = TRUE /\ terminal = "no" /\ reader = "read"
  /\ closer = [k \in Closer |-> "idle"]
  /\ readable = [state |-> "readable", queued |-> 0, pulling |-> FALSE, pullAgain |-> FALSE]
  /\ writable = [state |-> "writable", at |-> "idle", left |-> 0, chunks |-> 0]
  /\ client = "starting"
  /\ tail = <<Packet("OPEN", Window, "begin")>> /\ flushed = FALSE
  /\ srv = [got |-> {}, sent |-> {}, window |-> Window, granted |-> 0,
            bytes |-> 0, received |-> 0]
  /\ inbox = <<>>

Begins == ResumeOpened \/ ResumeReplied
OpenSftp == Connect \/ Negotiated \/ OpenFailed
Writer == WriterStep \/ WriterThrow
ReadLoop == \/ RecvError \/ RecvConfirmation \/ RecvOpenFailure \/ RecvAdjust \/ RecvData
            \/ RecvEof \/ RecvReply \/ RecvClose

Next == \/ Begins \/ OpenSftp \/ Writer \/ Cancel \/ Take \/ WriteChunk \/ Terminate \/ Close
        \/ Transmit \/ WriteDone \/ WriteFail \/ ReadLoop \/ ReadFail \/ Server

Spec == Init /\ [][Next]_vars

\* The event loop runs what is ready, the transport is live, the SFTPClient
\* reads and reacts to a broken stream, and the server answers the open, the
\* subsystem request and the CLOSE of the client.
Fairness ==
  /\ WF_vars(Begins) /\ WF_vars(OpenSftp) /\ WF_vars(Writer)
  /\ WF_vars(Transmit) /\ WF_vars(WriteDone) /\ WF_vars(ReadLoop) /\ WF_vars(Take)
  /\ WF_vars(Upset /\ Terminate)
  /\ SF_vars(\E type \in {"confirm", "openFailure"} : \E n \in Lengths(type) : Send(type, n))
  /\ SF_vars(\E type \in {"success", "failure"} : Send(type, 0))
  /\ SF_vars("CLOSE" \in srv.got /\ Send("close", 0))

FairSpec == Spec /\ Fairness

-----------------------------------------------------------------------------
(* Properties.                                                             *)

Reason == {"closed", "transport", "unknownChannel", "openedTwice", "failedAfterOpen",
           "windowOverflow", "dataWhileClosing", "windowExceeded", "queueExceeded",
           "eofTwice", "endedUnexpectedly", "closeTwice", "badRequest", "unsolicitedReply"}

TypeOK ==
  /\ ch \in ChannelState
  /\ inMap \in BOOLEAN
  /\ terminal \in {"no"} \cup Reason
  /\ closer \in [Closer -> Stage]
  /\ readable \in ReadableState
  /\ writable \in WritableState
  /\ client \in {"starting", "connecting", "negotiated", "open", "terminated", "connectFailed", "failed"}
  /\ tail \in Seq([type : ClientType, n : Nat, by : Owner])
  /\ flushed \in BOOLEAN
  /\ reader \in {"read", "write", "close", "stopped"}
  /\ srv \in ServerState
  /\ inbox \in Seq([type : ServerType, n : Nat])

\* However many calls of close() meet, none repeats EOF or CLOSE, and no credit
\* or request follows EOF, or a CLOSE that does not answer one of the server.
\* Data may: a #write looks at `closing` only when it has no window
\* (client.ts:1131-1135).
Unsent == IF flushed THEN Tail(tail) ELSE tail
After(type, j) == type \in srv.got \/ \E i \in DOMAIN Unsent : i < j /\ Unsent[i].type = type
CloseLast ==
  \A j \in DOMAIN Unsent :
    /\ After("EOF", j) => Unsent[j].type \in {"CLOSE", "DATA"}
    /\ After("CLOSE", j) => /\ Unsent[j].type # "CLOSE"
                            /\ "close" \in srv.sent \/ Unsent[j].type = "DATA"

\* The channel leaves the map of a live client only when the server has refused
\* it, or has closed it and has, or will get, the CLOSE of the client.
ReleasedWhenDead ==
  ~inMap /\ terminal = "no" =>
    \/ "openFailure" \in srv.sent
    \/ /\ "close" \in srv.sent
       /\ "CLOSE" \in srv.got \/ \E i \in DOMAIN Unsent : Unsent[i].type = "CLOSE"

\* A compliant server ends the connection only with data that crossed the close
\* of the client, with a request on the channel, or by ending the subsystem: it
\* never exceeds a window or the stream's queue, nor surprises the channel.
Teardown(reason) == terminal = "no" /\ terminal' = reason
CompliantServerUnderstood ==
  [][\A reason \in Reason : Teardown(reason) =>
       /\ reason \in {"closed", "transport", "dataWhileClosing", "badRequest", "endedUnexpectedly"}
       /\ reason = "endedUnexpectedly" => ~ch.closing]_vars

\* The promise of openSftp settles, aborted or not, but for two waits: INIT's
\* #write for a send window (client.ts:1131-1135), which an abort does not end,
\* and that for the version of a server which has not sent it, which one does.
AwaitsVersion ==
  /\ client = "connecting" /\ writable.at = "idle" /\ ~ch.cancelled
  /\ readable.state = "readable" /\ readable.queued = 0
OpenSettles == <>[]OpenSettled \/ <>[](writable.at = "window") \/ <>[]AwaitsVersion

\* A server that has used up its window gets a new one while the client reads:
\* no credit is lost between two pulls (client.ts:1112-1124).
WindowReopens ==
  srv.window = 0 ~> srv.window > 0 \/ client # "open" \/ ch.closing \/ terminal # "no"

\* The promise of SFTPClient.close settles when no #write waits for a window.
ShutdownUnlessBlocked ==
  client \in {"terminated", "connectFailed"} /\ writable.at # "window" ~> ShutdownDone

\* The promise of SFTPClient.close settles (sftp.ts:197-200).
ShutdownCompletes == client = "terminated" ~> ShutdownDone
=============================================================================
