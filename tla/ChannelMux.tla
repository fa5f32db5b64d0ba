----------------------------- MODULE ChannelMux -----------------------------
(***************************************************************************)
(* The post-authentication half of SshClient for commands: run() and       *)
(* close(), the ChannelMux that owns the channel map, the write tail of    *)
(* ClientIo, the single read loop, and the ManagedCommandChannel objects.  *)
(*                                                                         *)
(* JavaScript runs one piece of code at a time, so an action is what runs  *)
(* between two suspensions.  A coroutine that is suspended is waiting for  *)
(* one of three things, and these are the interleavings of the module:     *)
(*   - the read loop and every #begin wait for a packet to be written,     *)
(*   - #begin waits for the `opened` and `reply` promises of its channel,  *)
(*   - the read loop waits for the next packet of the server.              *)
(* A coroutine whose promise is settled resumes before the next packet or  *)
(* write completion is handled (Quiet below): these take a turn of the     *)
(* event loop, a promise continuation only a microtask. A call of the user *)
(* may be made in a microtask of its own, and so comes at any time.        *)
(***************************************************************************)
EXTENDS Naturals, Sequences, FiniteSets

CONSTANTS
  MaxLocalChannel,  \* the last local channel id, 0xffff_ffff in the code
  MaxChannels,      \* MAXIMUM_MANAGED_CHANNELS
  MaxOutput,        \* maximumOutputBytes of a command
  DefaultWindow,    \* DEFAULT_CHANNEL_WINDOW_SIZE
  DataSize,         \* lengths of the data messages of the server
  MaxInbox,         \* bound: messages sent by the server and not yet read
  ServerSends,      \* bound: the message types the server is given to send
  Compliant         \* does the server follow RFC 4254?

\* The messages of the server, data and extended data of stderr being one.
ServerType == {"confirm", "openFailure", "adjust", "data", "badExtended",
               "eof", "close", "exitStatus", "otherRequest", "success",
               "failure", "global", "unsupported"}

ASSUME MuxAssumption ==
  /\ MaxLocalChannel \in Nat
  /\ MaxChannels \in Nat \ {0}
  /\ MaxOutput \in Nat
  /\ DefaultWindow \in Nat
  /\ DataSize \subseteq Nat
  /\ MaxInbox \in Nat \ {0}
  /\ ServerSends \subseteq ServerType
  /\ Compliant \in BOOLEAN

Channel == 0 .. MaxLocalChannel

VARIABLES
  nextLocalChannel,  \* the next local channel id
  channels,          \* the ids in the channel map
  terminal,          \* "no", or the reason the first #fatal was called with
  chan,              \* the state of each channel object
  tail,              \* the packets of the write tail, the head being written
  flushed,           \* has the peer got the head of the tail?
  reader,            \* where the read loop is suspended
  srv,               \* what the server has got and sent on each channel
  inbox              \* messages of the server that are not yet read

muxVars == <<nextLocalChannel, channels, terminal>>
srvVars == <<srv, inbox>>
vars == <<muxVars, chan, tail, flushed, reader, srvVars>>

-----------------------------------------------------------------------------
(* Channel objects.  `begin` is where #begin is suspended; `remote` says   *)
(* that remoteChannel is defined; `exited` that #exitCode is.              *)

Promise == {"none", "pending", "resolved", "rejected"}
Begin == {"none", "opening", "awaitOpened", "requesting", "awaitReply",
          "sendingEof", "closing", "done"}

ChannelState ==
  [begin : Begin, opened : Promise, reply : Promise, result : Promise,
   remote : BOOLEAN, receivedEof : BOOLEAN, closing : BOOLEAN,
   sentEof : BOOLEAN, sentClose : BOOLEAN, receivedClose : BOOLEAN,
   cancelled : BOOLEAN, exited : BOOLEAN, output : Nat, window : Nat]

InitialWindow == IF MaxOutput < DefaultWindow THEN MaxOutput ELSE DefaultWindow

NewChannel ==
  [begin |-> "none", opened |-> "none", reply |-> "none", result |-> "none",
   remote |-> FALSE, receivedEof |-> FALSE, closing |-> FALSE,
   sentEof |-> FALSE, sentClose |-> FALSE, receivedClose |-> FALSE,
   cancelled |-> FALSE, exited |-> FALSE, output |-> 0,
   window |-> InitialWindow]

\* A promise keeps its first outcome.
Settle(promise, outcome) == IF promise = "pending" THEN outcome ELSE promise

\* #reject of the result, which every failure of a command ends in.
Rejected(ch) == [ch EXCEPT !.result = Settle(@, "rejected")]

\* Mutant: terminal() settles the inner promises and forgets the command.
TerminatedSilently(ch) == [ch EXCEPT !.opened = Settle(@, "rejected"),
                                     !.reply = Settle(@, "rejected")]

\* ManagedChannel.terminal.
Terminated(ch) == [ch EXCEPT !.opened = Settle(@, "rejected"),
                             !.reply = Settle(@, "rejected"),
                             !.result = Settle(@, "rejected")]

\* close() marks the channel, and #sendClose writes CLOSE at most once.
MustSendCloseAgain(ch) == ch.remote  \* Mutant: without the sentClose flag.
MustSendClose(ch) == ch.remote /\ ~ch.sentClose
\* Mutant: CLOSE counts as sent before there is a remote channel to name.
ClosingEarly(ch) == [ch EXCEPT !.closing = TRUE, !.sentClose = TRUE]
Closing(ch) == [ch EXCEPT !.closing = TRUE,
                          !.sentClose = @ \/ ch.remote]

\* What onClose wants of a command that was not cancelled.
CompleteWithoutEof(ch) == ch.exited  \* Mutant.
Complete(ch) == ch.receivedEof /\ ch.exited

-----------------------------------------------------------------------------
(* The write tail and the messages of both directions.                     *)

ClientType == {"OPEN", "EXEC", "EOF", "CLOSE", "ADJUST", "REQUEST_FAILURE"}
Owner == {"begin", "reader", "cancel"}

Packet == [type : ClientType, ch : Channel, n : Nat, by : Owner]
Message == [type : ServerType, ch : Channel, n : Nat]

\* The code of `by` calls mux.write and suspends until the packet is written.
Write(type, c, n, by) ==
  tail' = Append(tail, [type |-> type, ch |-> c, n |-> n, by |-> by])

WriteCloseIfDue(c, by) ==
  IF MustSendClose(chan[c]) THEN Write("CLOSE", c, 0, by) ELSE UNCHANGED tail

-----------------------------------------------------------------------------
(* The read loop is at "read" when it wants a packet.  It is suspended in  *)
(* a write with nothing left to do ("write"), in the ADJUST of #append     *)
(* ("adjust", `n` bytes), or in the CLOSE of closeReceived ("close").      *)

ReaderState == [at : {"read", "write", "adjust", "close", "stopped"},
                ch : Channel, n : Nat]

\* Mutant: a handler that does not await its write.
ReaderUnawaited(at, c, n) ==
  reader' = [at |-> IF at = "write" THEN "read" ELSE at, ch |-> c, n |-> n]
ReaderAt(at, c, n) == reader' = [at |-> at, ch |-> c, n |-> n]
Reading == reader' = [reader EXCEPT !.at = "read"]

Reason == {"closed", "transport", "unknownChannel", "openedTwice",
           "failedAfterOpen", "windowAdjust", "dataAfterClose", "eofTwice",
           "closeTwice", "badRequest", "unsolicitedReply", "unsupported",
           "incompleteExit"}

\* #fatal, on the channel objects `chs` of which `open` are in the map: only
\* its first call terminates the channels and keeps its reason.
Fatal(chs, open, reason) ==
  /\ chan' = [c \in Channel |-> IF terminal = "no" /\ c \in open
                                  THEN Terminated(chs[c]) ELSE chs[c]]
  /\ channels' = IF terminal = "no" THEN {} ELSE open
  /\ terminal' = IF terminal = "no" THEN reason ELSE terminal
  /\ UNCHANGED nextLocalChannel

\* A coroutine with a settled promise runs before anything else does.
Ready(c) == \/ chan[c].begin = "awaitOpened" /\ chan[c].opened # "pending"
            \/ chan[c].begin = "awaitReply" /\ chan[c].reply # "pending"
Quiet == \A c \in Channel : ~Ready(c)

-----------------------------------------------------------------------------
(* Calls of the user.                                                      *)

\* Mutant: a channel that is closing does not count.
HasOpenSlot == Cardinality({c \in channels : ~chan[c].closing}) < MaxChannels
HasSlot == Cardinality(channels) < MaxChannels

\* run(): #allocate, #register, and #begin up to the write of OPEN.
Run ==
  LET c == nextLocalChannel IN
  /\ terminal = "no"
  /\ HasSlot
  /\ c \in Channel
  /\ nextLocalChannel' = c + 1
  /\ channels' = channels \cup {c}
  /\ chan' = [chan EXCEPT ![c] = [NewChannel EXCEPT !.begin = "opening",
                                    !.opened = "pending", !.result = "pending"]]
  /\ Write("OPEN", c, InitialWindow, "begin")
  /\ UNCHANGED <<terminal, flushed, reader, srvVars>>

\* Mutant: cancelling forgets the channel at once.
CancelAndRelease(c) ==
  /\ chan[c].result = "pending"
  /\ chan' = [chan EXCEPT ![c] = [Closing(Rejected(@)) EXCEPT !.cancelled = TRUE]]
  /\ WriteCloseIfDue(c, "cancel")
  /\ channels' = channels \ {c}
  /\ UNCHANGED <<nextLocalChannel, terminal, flushed, reader, srvVars>>

\* The abort listener of run(), which is removed once the result is settled.
Cancel(c) ==
  /\ chan[c].result = "pending"
  /\ chan' = [chan EXCEPT ![c] = [Closing(Rejected(@)) EXCEPT !.cancelled = TRUE]]
  /\ WriteCloseIfDue(c, "cancel")
  /\ UNCHANGED <<muxVars, flushed, reader, srvVars>>

\* SshClient.close, abort, dispose.
Close ==
  /\ terminal = "no"
  /\ Fatal(chan, channels, "closed")
  /\ UNCHANGED <<tail, flushed, reader, srvVars>>

-----------------------------------------------------------------------------
(* #begin, resumed by a settled promise.                                   *)

\* The catch block of #begin: a cancelled command needs nothing more.  Once
\* the client is terminal the write of CLOSE throws and #begin ends with it.
CatchBegin(c, ch) ==
  IF ~ch.cancelled /\ MustSendClose(ch) /\ terminal = "no"
  THEN /\ chan' = [chan EXCEPT ![c] = [Closing(Rejected(ch)) EXCEPT !.begin = "closing"]]
       /\ Write("CLOSE", c, 0, "begin")
  ELSE /\ chan' = [chan EXCEPT ![c] =
                     [(IF ch.cancelled THEN ch ELSE Closing(Rejected(ch)))
                        EXCEPT !.begin = "done"]]
       /\ UNCHANGED tail

\* #begin writes, with `ch` its channel object; a terminal mux throws.
BeginWrite(c, ch, type, next) ==
  IF terminal = "no"
  THEN /\ chan' = [chan EXCEPT ![c] = [ch EXCEPT !.begin = next]]
       /\ Write(type, c, 0, "begin")
  ELSE CatchBegin(c, ch)

\* The first resumption sends the exec request, the second EOF, as a command
\* has no standard input; a cancelled command does neither.
Resume(c, at, promise, ch, type, next) ==
  /\ chan[c].begin = at /\ promise # "pending"
  /\ IF promise = "rejected" THEN CatchBegin(c, chan[c])
     ELSE IF chan[c].cancelled
     THEN chan' = [chan EXCEPT ![c].begin = "done"] /\ UNCHANGED tail
     ELSE BeginWrite(c, ch, type, next)
  /\ UNCHANGED <<muxVars, flushed, reader, srvVars>>

\* Mutant: the reply is not registered before the request is written.
ResumeUnregistered(c) == Resume(c, "awaitOpened", chan[c].opened,
                                chan[c], "EXEC", "requesting")
ResumeOpened(c) == Resume(c, "awaitOpened", chan[c].opened,
                          [chan[c] EXCEPT !.reply = "pending"], "EXEC", "requesting")
ResumeReplied(c) == Resume(c, "awaitReply", chan[c].reply,
                           [chan[c] EXCEPT !.sentEof = TRUE], "EOF", "sendingEof")

-----------------------------------------------------------------------------
(* The write tail: the head reaches the server, then its promise resolves  *)
(* and its owner resumes.  A failed write rejects every packet behind it.  *)

\* What the server has got on the channel; its window grows by `n`.
Transmit ==
  /\ Quiet /\ tail # <<>> /\ ~flushed
  /\ flushed' = TRUE
  /\ LET p == Head(tail) IN
     srv' = IF p.type = "REQUEST_FAILURE" THEN srv
            ELSE [srv EXCEPT ![p.ch].got = Append(@, p.type), ![p.ch].window = @ + p.n]
  /\ UNCHANGED <<muxVars, chan, tail, reader, inbox>>

\* Mutant: #begin does not wait for the reply to its exec request.
NextWaitNoReply == [opening |-> "awaitOpened", requesting |-> "done",
                    sendingEof |-> "done", closing |-> "done"]
NextWait == [opening |-> "awaitOpened", requesting |-> "awaitReply",
             sendingEof |-> "done", closing |-> "done"]

\* The end of closeReceived: onClose, and the release of the channel.
FinishClose(c, chs) ==
  IF chs[c].cancelled \/ Complete(chs[c])
  THEN /\ chan' = [chs EXCEPT ![c].result =
                     IF chs[c].cancelled THEN @ ELSE Settle(@, "resolved")]
       /\ channels' = channels \ {c}
       /\ Reading
       /\ UNCHANGED <<nextLocalChannel, terminal>>
  ELSE /\ Fatal([chs EXCEPT ![c] = Rejected(@)], channels \ {c}, "incompleteExit")
       /\ ReaderAt("stopped", c, 0)

WriteDone ==
  LET p == Head(tail) IN
  /\ Quiet /\ tail # <<>> /\ flushed
  /\ tail' = Tail(tail) /\ flushed' = FALSE
  /\ \/ /\ p.by = "begin"
        /\ chan' = [chan EXCEPT ![p.ch].begin = NextWait[@]]
        /\ UNCHANGED <<muxVars, reader>>
     \/ /\ p.by = "cancel"
        /\ UNCHANGED <<muxVars, chan, reader>>
     \/ /\ p.by = "reader" /\ reader.at = "write"
        /\ Reading
        /\ UNCHANGED <<muxVars, chan>>
     \/ /\ p.by = "reader" /\ reader.at = "adjust"
        /\ chan' = [chan EXCEPT ![p.ch].window = @ + p.n, ![p.ch].output = @ + p.n]
        /\ Reading
        /\ UNCHANGED muxVars
     \/ /\ p.by = "reader" /\ reader.at = "close"
        /\ FinishClose(p.ch, chan)
  /\ UNCHANGED srvVars

\* The transport refuses the head.  Every owner waits for #fatal, then sees
\* its write throw: #begin ends through its catch block, #append through that
\* of data(), and the read loop ends.
WriteFail ==
  LET failed == {p.ch : p \in {tail[i] : i \in {j \in DOMAIN tail : tail[j].by = "begin"}}}
      gaveUp(c) == \/ c \in failed /\ ~chan[c].cancelled
                   \/ reader.at = "adjust" /\ reader.ch = c
      thrown == [c \in Channel |->
                   [(IF gaveUp(c) THEN Closing(Rejected(chan[c])) ELSE chan[c])
                      EXCEPT !.begin = IF c \in failed THEN "done" ELSE @]] IN
  /\ Quiet /\ tail # <<>>
  /\ Fatal(thrown, channels, "transport")
  /\ tail' = <<>> /\ flushed' = FALSE
  /\ reader' = IF \E i \in DOMAIN tail : tail[i].by = "reader"
                 THEN [reader EXCEPT !.at = "stopped"] ELSE reader
  /\ UNCHANGED srvVars

-----------------------------------------------------------------------------
(* The read loop: #route and the handlers of the channel objects.          *)

msg == Head(inbox)
target == chan[msg.ch]

\* The error that leaves #route for the message, or "no".
RouteError ==
  CASE msg.type = "global" -> IF terminal = "no" THEN "no" ELSE "closed"
    [] msg.type = "unsupported" -> "unsupported"
    [] msg.type \notin {"global", "unsupported"} /\ msg.ch \notin channels -> "unknownChannel"
    [] OTHER ->
       CASE msg.type = "confirm" /\ (target.remote \/ target.receivedClose) -> "openedTwice"
         [] msg.type = "openFailure" /\ target.remote -> "failedAfterOpen"
         [] msg.type = "adjust" -> "windowAdjust"
         [] msg.type \in {"data", "badExtended"}
              /\ (target.closing \/ target.receivedEof) -> "dataAfterClose"
         [] msg.type = "eof" /\ (target.receivedEof \/ target.receivedClose) -> "eofTwice"
         [] msg.type = "close" /\ target.receivedClose -> "closeTwice"
         [] msg.type = "otherRequest" \/ (msg.type = "exitStatus" /\ target.exited) -> "badRequest"
         [] msg.type \in {"success", "failure"} /\ target.reply # "pending" -> "unsolicitedReply"
         [] OTHER -> "no"

Receive(types) ==
  /\ Quiet
  /\ reader.at = "read" /\ inbox # <<>> /\ msg.type \in types
  /\ inbox' = Tail(inbox)
  /\ UNCHANGED <<flushed, srv>>

Handle(types) == Receive(types) /\ RouteError = "no"

RecvError ==
  /\ Receive(ServerType) /\ RouteError # "no"
  /\ Fatal(chan, channels, RouteError)
  /\ ReaderAt("stopped", msg.ch, 0)
  /\ UNCHANGED tail

RecvConfirmation ==
  /\ Handle({"confirm"})
  /\ chan' = [chan EXCEPT ![msg.ch].remote = TRUE,
                          ![msg.ch].opened = Settle(@, "resolved"),
                          ![msg.ch].sentClose = @ \/ target.closing]
  /\ IF target.closing /\ ~target.sentClose
     THEN Write("CLOSE", msg.ch, 0, "reader") /\ ReaderAt("write", msg.ch, 0)
     ELSE UNCHANGED <<tail, reader>>
  /\ UNCHANGED muxVars

RecvOpenFailure ==
  /\ Handle({"openFailure"})
  /\ chan' = [chan EXCEPT ![msg.ch] = [Rejected(target) EXCEPT !.opened = Settle(@, "rejected")]]
  /\ channels' = channels \ {msg.ch}
  /\ UNCHANGED <<nextLocalChannel, terminal, tail, reader>>

\* data() and extendedData(): what #append throws is caught, and closes.
OverLimitLate == \/ msg.type = "badExtended"  \* Mutant: the check of the last message.
                 \/ msg.n > target.window
                 \/ target.output > MaxOutput
OverLimit == \/ msg.type = "badExtended"
             \/ msg.n > target.window
             \/ msg.n + target.output > MaxOutput

\* Mutant: the bytes are not counted out of the window before the credit.
RecvDataUncounted ==
  /\ Handle({"data"}) /\ ~OverLimit
  /\ Write("ADJUST", msg.ch, msg.n, "reader")
  /\ ReaderAt("adjust", msg.ch, msg.n)
  /\ UNCHANGED <<muxVars, chan>>

\* Mutant: they are counted out of it twice.
RecvDataCountedTwice ==
  /\ Handle({"data"}) /\ ~OverLimit
  /\ chan' = [chan EXCEPT ![msg.ch].window = @ - msg.n - msg.n]
  /\ Write("ADJUST", msg.ch, msg.n, "reader")
  /\ ReaderAt("adjust", msg.ch, msg.n)
  /\ UNCHANGED muxVars

RecvData ==
  /\ Handle({"data"}) /\ ~OverLimit
  /\ IF msg.n > 0 /\ target.remote
     THEN /\ chan' = [chan EXCEPT ![msg.ch].window = @ - msg.n]
          /\ Write("ADJUST", msg.ch, msg.n, "reader")
          /\ ReaderAt("adjust", msg.ch, msg.n)
     ELSE /\ chan' = [chan EXCEPT ![msg.ch].window = @ - msg.n,
                                  ![msg.ch].output = @ + msg.n]
          /\ UNCHANGED <<tail, reader>>
  /\ UNCHANGED muxVars

RecvOverLimit ==
  /\ Handle({"data", "badExtended"}) /\ OverLimit
  /\ chan' = [chan EXCEPT ![msg.ch] = Closing(Rejected(@))]
  /\ WriteCloseIfDue(msg.ch, "reader")
  /\ IF MustSendClose(target) THEN ReaderAt("write", msg.ch, 0) ELSE UNCHANGED reader
  /\ UNCHANGED muxVars

RecvEof ==
  /\ Handle({"eof"})
  /\ chan' = [chan EXCEPT ![msg.ch].receivedEof = TRUE]
  /\ UNCHANGED <<muxVars, tail, reader>>

RecvExitStatus ==
  /\ Handle({"exitStatus"})
  /\ chan' = [chan EXCEPT ![msg.ch].exited = TRUE]
  /\ UNCHANGED <<muxVars, tail, reader>>

RecvReply ==
  /\ Handle({"success", "failure"})
  /\ chan' = [chan EXCEPT ![msg.ch].reply =
                IF msg.type = "success" THEN "resolved" ELSE "rejected"]
  /\ UNCHANGED <<muxVars, tail, reader>>

\* closeReceived: answer with CLOSE and wait for it, or finish at once.
RecvClose ==
  /\ Handle({"close"})
  /\ LET chs == [chan EXCEPT ![msg.ch].receivedClose = TRUE,
                             ![msg.ch].sentClose = @ \/ target.remote] IN
     IF MustSendClose(target)
     THEN /\ chan' = chs
          /\ Write("CLOSE", msg.ch, 0, "reader")
          /\ ReaderAt("close", msg.ch, 0)
          /\ UNCHANGED muxVars
     ELSE FinishClose(msg.ch, chs) /\ UNCHANGED tail

\* A global request that wants a reply; one that does not changes nothing.
RecvGlobal ==
  /\ Handle({"global"})
  /\ Write("REQUEST_FAILURE", msg.ch, 0, "reader")
  /\ ReaderAt("write", msg.ch, 0)
  /\ UNCHANGED <<muxVars, chan>>

\* The transport ends or breaks under the read loop; once the client is
\* terminal the shutdown of ClientIo cancels the read.
ReadFail ==
  /\ Quiet /\ reader.at = "read"
  /\ Fatal(chan, channels, "transport")
  /\ reader' = [reader EXCEPT !.at = "stopped"]
  /\ UNCHANGED <<tail, flushed, srvVars>>

-----------------------------------------------------------------------------
(* The server: not part of the repository.  A compliant one follows RFC    *)
(* 4254, so that a channel is confirmed before it is used, a request has   *)
(* one reply, data respects the window, nothing follows EOF but a status   *)
(* and CLOSE, and nothing follows CLOSE.  A server that is not may send    *)
(* any message at any time.  Once the client is terminal a message only    *)
(* ends the read loop, as ReadFail does, and none is sent.                 *)

ServerState == [got : Seq(ClientType), sent : SUBSET ServerType,
                window : Nat, bytes : Nat]

HasGot(c, type) == \E i \in DOMAIN srv[c].got : srv[c].got[i] = type

MaySend(type, c, n) ==
  LET sent == srv[c].sent
      unsent(types) == sent \cap types = {}
      running == "success" \in sent /\ "close" \notin sent IN
  \/ type = "global"
  \/ type \in {"confirm", "openFailure"} /\ HasGot(c, "OPEN") /\ unsent({"confirm", "openFailure"})
  \/ type \in {"success", "failure"} /\ HasGot(c, "EXEC") /\ unsent({"success", "failure", "close"})
  \/ type = "data" /\ running /\ unsent({"eof"}) /\ n <= srv[c].window
  \/ type \in {"exitStatus", "otherRequest"} /\ running /\ unsent({"exitStatus", "otherRequest"})
  \/ type = "eof" /\ running /\ unsent({"eof"})
  \/ type \in {"adjust", "close"} /\ "confirm" \in sent /\ unsent({type, "close"})

Send(type, c, n) ==
  /\ Quiet /\ terminal = "no" /\ Len(inbox) < MaxInbox
  /\ Compliant => MaySend(type, c, n)
  /\ inbox' = Append(inbox, [type |-> type, ch |-> c, n |-> n])
  /\ srv' = [srv EXCEPT ![c].sent = IF Compliant /\ type # "global" THEN @ \cup {type} ELSE @,
                        ![c].window = IF n <= @ THEN @ - n ELSE 0,
                        ![c].bytes = IF Compliant THEN @ + n ELSE @]
  /\ UNCHANGED <<muxVars, chan, tail, flushed, reader>>

SendData(c) == "data" \in ServerSends /\ \E n \in DataSize : Send("data", c, n)
SendOther(c) == \E type \in ServerSends \ {"data"} : Send(type, c, 0)

-----------------------------------------------------------------------------
Init ==
  /\ nextLocalChannel = 0 /\ channels = {} /\ terminal = "no"
  /\ chan = [c \in Channel |-> NewChannel]
  /\ tail = <<>> /\ flushed = FALSE
  /\ reader = [at |-> "read", ch |-> 0, n |-> 0]
  /\ srv = [c \in Channel |-> [got |-> <<>>, sent |-> {}, window |-> 0, bytes |-> 0]]
  /\ inbox = <<>>

User == Run \/ Close \/ \E c \in Channel : Cancel(c)

Begins == \E c \in Channel : ResumeOpened(c) \/ ResumeReplied(c)

ReadLoop == \/ RecvError \/ RecvConfirmation \/ RecvOpenFailure \/ RecvData
            \/ RecvOverLimit \/ RecvEof \/ RecvExitStatus \/ RecvReply
            \/ RecvClose \/ RecvGlobal

Server == \E c \in Channel : SendData(c) \/ SendOther(c)

Next == User \/ Begins \/ Transmit \/ WriteDone \/ WriteFail \/ ReadLoop \/ ReadFail \/ Server

Spec == Init /\ [][Next]_vars

\* What the event loop and a live transport and server owe: a coroutine that
\* can resume does, a queued packet is written, a received one is handled; the
\* server answers each open and exec request, ends a command it runs, and
\* closes a channel whose command has ended or that the client has closed.
ServerAnswers(c) ==
  /\ SF_vars(\E type \in {"confirm", "openFailure"} : Send(type, c, 0))
  /\ SF_vars(\E type \in {"success", "failure"} : Send(type, c, 0))
  /\ SF_vars(Send("exitStatus", c, 0))
  /\ SF_vars(Send("eof", c, 0))
  /\ SF_vars(/\ {"exitStatus", "eof"} \subseteq srv[c].sent \/ HasGot(c, "CLOSE")
             /\ Send("close", c, 0))

Fairness ==
  /\ WF_vars(Begins) /\ WF_vars(Transmit) /\ WF_vars(WriteDone) /\ WF_vars(ReadLoop)
  /\ \A c \in Channel : ServerAnswers(c)

FairSpec == Spec /\ Fairness

-----------------------------------------------------------------------------
(* Properties.                                                             *)

TypeOK ==
  /\ nextLocalChannel \in 0 .. MaxLocalChannel + 1
  /\ channels \subseteq Channel
  /\ terminal \in {"no"} \cup Reason
  /\ chan \in [Channel -> ChannelState]
  /\ tail \in Seq(Packet)
  /\ flushed \in BOOLEAN
  /\ reader \in ReaderState
  /\ srv \in [Channel -> ServerState]
  /\ inbox \in Seq(Message)

\* A command whose promise is pending is in the channel map of a client that
\* is not terminal: no release, failure or close forgets to settle a command
\* (client.ts:749-752, 778-786, 789-793, 665-673), whatever the server sends.
NoCommandForgotten ==
  \A c \in Channel : chan[c].result = "pending" => c \in channels /\ terminal = "no"

\* A coroutine that waits for a write has exactly one packet in the tail, and
\* one that waits for anything else has none: no completion is lost, and no
\* completion resumes a coroutine that waits for something else.
Writing == {"opening", "requesting", "sendingEof", "closing"}
ReaderWriting == {"write", "adjust", "close"}
SuspendedInTail ==
  /\ \A c \in Channel : chan[c].begin \in Writing
       <=> \E i \in DOMAIN tail : tail[i].by = "begin" /\ tail[i].ch = c
  /\ reader.at \in ReaderWriting <=> \E i \in DOMAIN tail : tail[i].by = "reader"
  /\ \A i, j \in DOMAIN tail : i # j =>
       \/ tail[i].by # tail[j].by
       \/ tail[i].by = "cancel"
       \/ tail[i].by = "begin" /\ tail[i].ch # tail[j].ch

\* The bytes a command holds never exceed its limit, in whatever sizes and
\* order the server sends data, before and after the open is confirmed.
OutputBounded == \A c \in Channel : chan[c].output <= MaxOutput

\* What the server sees on a channel: OPEN first, then each request at most
\* once and in order, and one CLOSE.  #begin does not look at `closing`, so the
\* exec request and EOF may still follow CLOSE; no credit does.
Count(c, type) == Cardinality({i \in DOMAIN srv[c].got : srv[c].got[i] = type})
WireOrder ==
  \A c \in Channel : LET got == srv[c].got IN
    /\ \A type \in ClientType \ {"ADJUST"} : Count(c, type) <= 1
    /\ \A i \in DOMAIN got :
         /\ i > 1 => got[1] = "OPEN"
         /\ got[i] # "OPEN" => "confirm" \in srv[c].sent
         /\ got[i] \in {"EOF", "ADJUST"} => \E j \in 1 .. i : got[j] = "EXEC"
         /\ \A j \in 1 .. i - 1 : got[j] = "CLOSE" => got[i] \in {"EXEC", "EOF"}

\* A command that resolves has every byte the server sent on its channel, the
\* exit status, and a channel that both sides have closed (client.ts:252-253).
ResultComplete ==
  \A c \in Channel : chan[c].result = "resolved" =>
    /\ chan[c].output = srv[c].bytes
    /\ {"exitStatus", "eof", "close"} \subseteq srv[c].sent
    /\ HasGot(c, "CLOSE")

\* A channel leaves the map of a live client only when the server has refused
\* it, or has closed it and the client has sent or queued its own CLOSE: no
\* later message can find it gone (client.ts:658-663).
ReleasedWhenDead ==
  terminal = "no" =>
    \A c \in Channel : c < nextLocalChannel /\ c \notin channels =>
      \/ "openFailure" \in srv[c].sent
      \/ /\ "close" \in srv[c].sent
         /\ HasGot(c, "CLOSE") \/ \E i \in DOMAIN tail : tail[i].type = "CLOSE" /\ tail[i].ch = c

\* The channels a server holds for a live client, opening or not yet closed
\* by it, never exceed the limit, cancelled commands included (README.md:31).
ServerChannelsBounded ==
  terminal = "no" =>
    Cardinality({c \in Channel : HasGot(c, "OPEN") /\ srv[c].sent \cap {"openFailure", "close"} = {}})
      <= MaxChannels

\* A compliant server ends the connection only with a command that has no
\* exit status, with a window adjustment, or with data that crossed the CLOSE
\* of the client: none of its messages finds an unknown channel, a reply nobody
\* waits for, or a repetition.
Teardown(reason) == terminal = "no" /\ terminal' = reason
CompliantServerUnderstood ==
  [][\A reason \in Reason : Teardown(reason) =>
       /\ reason \in {"closed", "transport", "dataAfterClose", "badRequest",
                       "incompleteExit", "windowAdjust"}
       /\ reason = "dataAfterClose" => chan[msg.ch].closing /\ ~chan[msg.ch].receivedEof]_vars

\* Cancelling a command closes only its channel (client.ts:254-255).
CancelContained ==
  [][Teardown("dataAfterClose") => ~chan[msg.ch].cancelled]_vars

\* The output limit closes only the affected channel (client.test.ts:254):
\* a channel the client closes itself, neither for a cancellation nor for a
\* refused request, is over its limit.
OverTheLimit(ch) == ch.closing /\ ~ch.cancelled /\ ch.reply # "rejected"
LimitContained ==
  [][Teardown("incompleteExit") => ~OverTheLimit(chan[reader'.ch])]_vars

\* Every command settles.
CommandSettles == \A c \in Channel :
  chan[c].result = "pending" ~> chan[c].result # "pending"

\* A channel that is being closed leaves the map, so its slot is free again.
ClosingReleased == \A c \in Channel :
  chan[c].closing ~> c \notin channels
=============================================================================
