------------------------------ MODULE Connect ------------------------------
(***************************************************************************)
(* connectTcp() and connect(): one TCP connection of Node or Deno, or a    *)
(* transport of the application, the handshake over it, the abort signal   *)
(* that both calls share, and the shutdown of ClientIo.                    *)
(*                                                                         *)
(* The handshake is a script of steps.  A read step takes a packet out of  *)
(* the receive buffer, filling it first, and goes on after a suspension; a *)
(* write step ends when the transport has taken the packet.  The transport *)
(* and the server are external.  Packets arrive whole, but any number of   *)
(* them in one chunk.  Before it has accepted or refused the user a server  *)
(* may send something aside: a message that the protocol allows there and  *)
(* the script has no step for.                                             *)
(***************************************************************************)
EXTENDS Naturals, Sequences, FiniteSets

CONSTANTS
  Runtimes,   \* where the transport comes from
  Restarts    \* whether the server counts packets from NEWKEYS on for its MACs

Runtime == {"node", "deno", "application"}

ASSUME ConnectAssumption == Runtimes \subseteq Runtime /\ Restarts \in BOOLEAN

VARIABLES
  socket,   \* the TCP connection
  tcp,      \* the runtime, and the call of connectTcp
  signal,   \* whether it is aborted, and whether all packets had arrived by then
  call,     \* the call of connect: its step, its result, its abort listener
  io,       \* ClientIo: shutdown, locks, receive buffer, write under way, ciphers
  server,   \* what it announced, got, sent (and what of it aside) and found wrong
  wire      \* packets of the server under way

vars == <<socket, tcp, signal, call, io, server, wire>>

-----------------------------------------------------------------------------
Step(do, what) == [do |-> do, what |-> what]

\* Mutant: the keys are taken into use before the user has seen the host key.
ScriptKeysFirst ==
  <<Step("write", "ID"), Step("read", "ID"), Step("write", "KEXINIT"), Step("read", "KEXINIT"),
    Step("read", "GUESS"), Step("compute", "keyPair"), Step("write", "ECDH_INIT"),
    Step("read", "ECDH_REPLY"), Step("compute", "signature"), Step("write", "NEWKEYS"),
    Step("ask", "hostVerifier"), Step("compute", "outboundCipher"), Step("read", "NEWKEYS"),
    Step("compute", "inboundCipher"), Step("write", "SERVICE_REQUEST"),
    Step("read", "SERVICE_ACCEPT"), Step("compute", "userSignature"),
    Step("write", "USERAUTH_REQUEST"), Step("read", "USERAUTH_SUCCESS")>>

\* What connect() awaits, in its order.
Script ==
  <<Step("write", "ID"), Step("read", "ID"), Step("write", "KEXINIT"), Step("read", "KEXINIT"),
    Step("read", "GUESS"), Step("compute", "keyPair"), Step("write", "ECDH_INIT"),
    Step("read", "ECDH_REPLY"), Step("compute", "signature"), Step("ask", "hostVerifier"),
    Step("write", "NEWKEYS"), Step("compute", "outboundCipher"), Step("read", "NEWKEYS"),
    Step("compute", "inboundCipher"), Step("write", "SERVICE_REQUEST"),
    Step("read", "SERVICE_ACCEPT"), Step("compute", "userSignature"),
    Step("write", "USERAUTH_REQUEST"), Step("read", "USERAUTH_SUCCESS")>>

Number(do, what) == CHOOSE i \in DOMAIN Script : Script[i] = Step(do, what)
LastStep == Len(Script)
Now == Script[call.step]
At(do) == call.result = "pending" /\ call.step \in DOMAIN Script /\ Now.do = do

None == "none"
\* A cipher counts its packets from 0; before there is one packets are plain.
Plain == [on |-> FALSE, count |-> 0]
Keyed == [on |-> TRUE, count |-> 0]
Counted(cipher) == [cipher EXCEPT !.count = IF cipher.on THEN @ + 1 ELSE @]

Init ==
  /\ \E runtime \in Runtimes :
       /\ tcp = [runtime |-> runtime,
                 at |-> IF runtime = "application" THEN "resolved" ELSE "idle"]
       /\ socket = IF runtime = "application" THEN "open" ELSE "none"
  /\ signal = [aborted |-> FALSE, late |-> FALSE]
  /\ call = [step |-> 0, waits |-> FALSE, packet |-> None, listener |-> FALSE,
             result |-> "idle", reason |-> None]
  /\ io = [shutdown |-> "no", locks |-> {}, buffer |-> <<>>, writing |-> <<>>,
           outbound |-> Plain, inbound |-> Plain]
  /\ \E announced \in {"nothing", "rightGuess", "wrongGuess"} :
       server = [announced |-> announced, got |-> <<>>, sent |-> <<>>, aside |-> 0, fault |-> None]
  /\ wire = <<>>

-----------------------------------------------------------------------------
(* connectTcp.  Node tells its listeners when the socket connects; Deno    *)
(* settles a promise, whose callback runs later.                           *)

OpenTcp ==
  /\ tcp.at = "idle"
  /\ \/ /\ ~signal.aborted
        /\ socket' = "connecting" /\ tcp' = [tcp EXCEPT !.at = "opening"]
     \/ /\ socket' = socket /\ tcp' = [tcp EXCEPT !.at = "rejected"]  \* open throws
  /\ UNCHANGED <<signal, call, io, server, wire>>

SocketOpens ==
  /\ socket = "connecting"
  /\ socket' = "open"
  /\ tcp' = [tcp EXCEPT !.at = IF tcp.runtime = "node" THEN "resolved" ELSE @]
  /\ UNCHANGED <<signal, call, io, server, wire>>

\* Mutant: a connection that comes after the abort is left open.
OpenedLateKept ==
  /\ tcp.runtime = "deno" /\ socket = "open" /\ tcp.at \in {"opening", "rejected"}
  /\ tcp.at = "opening"
  /\ tcp' = [tcp EXCEPT !.at = "resolved"]
  /\ UNCHANGED <<socket, signal, call, io, server, wire>>

\* The callback of connectWithAbort closes a connection that comes too late.
Opened ==
  /\ tcp.runtime = "deno" /\ socket = "open" /\ tcp.at \in {"opening", "rejected"}
  /\ IF tcp.at = "opening"
     THEN tcp' = [tcp EXCEPT !.at = "resolved"] /\ UNCHANGED socket
     ELSE socket' = "closed" /\ UNCHANGED tcp
  /\ UNCHANGED <<signal, call, io, server, wire>>

SocketFails ==
  /\ socket = "connecting"
  /\ socket' = "closed" /\ tcp' = [tcp EXCEPT !.at = "rejected"]
  /\ UNCHANGED <<signal, call, io, server, wire>>

-----------------------------------------------------------------------------
(* ClientIo.shutdown.                                                      *)

\* Called: reader.cancel() ends the reads at once, and destroys a Node socket.
ShutDown(s) == IF s.shutdown = "no" THEN [s EXCEPT !.shutdown = "cancel"] ELSE s
Destroyed(s) ==
  IF tcp.runtime = "node" /\ s.shutdown # "no" THEN "closed" ELSE socket

CancelSettles ==
  /\ io.shutdown = "cancel"
  /\ io' = [io EXCEPT !.shutdown = "abort"]
  /\ UNCHANGED <<socket, tcp, signal, call, server, wire>>

\* writer.abort() waits for the write under way; then transport.close() is called.
AbortSettles ==
  /\ io.shutdown = "abort" /\ io.writing = <<>>
  /\ io' = [io EXCEPT !.shutdown = "close"] /\ socket' = "closed"
  /\ UNCHANGED <<tcp, signal, call, server, wire>>

CloseSettles ==
  /\ io.shutdown = "close"
  /\ io' = [io EXCEPT !.shutdown = "done", !.locks = {}]
  /\ UNCHANGED <<socket, tcp, signal, call, server, wire>>

\* writer.write() fails once writer.abort() has been called.
RefusesWrites == io.shutdown \in {"abort", "close", "done"}

-----------------------------------------------------------------------------
(* The handshake.                                                          *)

Goes(s) == [s EXCEPT !.step = @ + 1, !.waits = FALSE]

\* Mutant: connect() rejects without waiting for the shutdown.
CaughtAtOnce(s, reason) ==
  [s EXCEPT !.result = "rejected", !.reason = reason, !.listener = FALSE, !.waits = FALSE]

\* The catch of connect: the listener goes, and the shutdown is awaited.
Caught(s, reason) ==
  [s EXCEPT !.result = "ending", !.reason = reason, !.listener = FALSE, !.waits = FALSE]
Fail(reason) ==
  /\ call' = Caught(call, reason) /\ io' = ShutDown(io) /\ socket' = Destroyed(io')
  /\ UNCHANGED <<tcp, signal, server, wire>>

\* Mutant: the lock of the reader is kept when that of the writer is not to be had.
LockFailedReading(s) == [s EXCEPT !.locks = {"reader"}]

LockFailed(s) == s

\* Locks, listener, and throwIfAborted.  Another holder of the reader or writer
\* lock makes connect reject at once; it then keeps nothing.
Connect ==
  /\ call.result = "idle" /\ tcp.at = "resolved"
  /\ \/ /\ io' = [io EXCEPT !.locks = {"reader", "writer"}]
        /\ call' = [call EXCEPT !.step = 1, !.result = "pending", !.listener = TRUE]
        /\ ~signal.aborted
        /\ UNCHANGED <<socket, tcp, signal, server, wire>>
     \/ /\ signal.aborted
        /\ io' = ShutDown([io EXCEPT !.locks = {"reader", "writer"}])
        /\ call' = Caught([call EXCEPT !.step = 1], "aborted")
        /\ socket' = Destroyed(io')
        /\ UNCHANGED <<tcp, signal, server, wire>>
     \/ /\ io' = LockFailed(io)
        /\ call' = [call EXCEPT !.result = "rejected", !.reason = "locked"]
        /\ UNCHANGED <<socket, tcp, signal, server, wire>>

Packet(what, cipher) == [what |-> what, on |-> cipher.on, count |-> cipher.count]

Write ==
  /\ At("write") /\ ~call.waits
  /\ IF RefusesWrites THEN Fail("write")
     ELSE /\ io' = [io EXCEPT !.writing = <<Packet(Now.what, io.outbound)>>,
                              !.outbound = Counted(@)]
          /\ call' = [call EXCEPT !.waits = TRUE]
          /\ UNCHANGED <<socket, tcp, signal, server, wire>>

\* The reads end with the transport, or with reader.cancel().
ReadFails ==
  /\ At("read") /\ ~call.waits /\ io.buffer = <<>>
  /\ Fail("ended")

\* Mutant: the shutdown does not cancel the reader.
ReadableStill == socket = "open"

Readable == io.shutdown = "no"

\* One chunk with any number of the packets under way.
Arrive ==
  /\ At("read") /\ ~call.waits /\ io.buffer = <<>> /\ Readable
  /\ \E n \in 1 .. Len(wire) :
       /\ io' = [io EXCEPT !.buffer = SubSeq(wire, 1, n)]
       /\ wire' = SubSeq(wire, n + 1, Len(wire))
  /\ UNCHANGED <<socket, tcp, signal, call, server>>

\* Mutant: the packet that the server sent on a wrong guess is not skipped.
SkipsNothing == call.step = Number("read", "GUESS")

\* There is a guess to skip only when the server announced one and it was wrong.
SkipsStep == call.step = Number("read", "GUESS") /\ server.announced # "wrongGuess"

Skip ==
  /\ At("read") /\ ~call.waits /\ SkipsStep
  /\ call' = Goes(call)
  /\ UNCHANGED <<socket, tcp, signal, io, server, wire>>

\* The packet must be under the keys in use, with the right MAC.
Take ==
  LET packet == Head(io.buffer) IN
  /\ At("read") /\ ~call.waits /\ ~SkipsStep /\ io.buffer # <<>>
  /\ IF packet.on = io.inbound.on /\ packet.count = io.inbound.count
     THEN /\ io' = [io EXCEPT !.buffer = Tail(@), !.inbound = Counted(@)]
          /\ call' = [call EXCEPT !.waits = TRUE, !.packet = packet.what]
          /\ UNCHANGED <<socket, tcp, signal, server, wire>>
     ELSE Fail("cipher")

Ends(s) == [s EXCEPT !.result = "returned", !.waits = FALSE, !.listener = FALSE]

\* The parser of the step: the packet taken is its message, or another one.  A
\* guessed packet may be any.
Taken ==
  LET good == call.packet = Now.what \/ Now.what = "GUESS" IN
  /\ At("read") /\ call.waits
  /\ IF good
     THEN /\ call' = IF call.step = LastStep THEN Ends(call) ELSE Goes(call)
          /\ UNCHANGED <<socket, tcp, signal, io, server, wire>>
     ELSE Fail(IF call.packet = "USERAUTH_FAILURE" THEN "refused" ELSE "unexpected")

Compute ==
  /\ At("compute")
  /\ IF Now.what = "signature" /\ server.fault = "signature" THEN Fail("signature")
     ELSE /\ call' = Goes(call)
          /\ io' = CASE Now.what = "outboundCipher" -> [io EXCEPT !.outbound = Keyed]
                     [] Now.what = "inboundCipher" -> [io EXCEPT !.inbound = Keyed]
                     [] OTHER -> io
          /\ UNCHANGED <<socket, tcp, signal, server, wire>>

\* The host verifier of the user answers in its own time; nothing races it.
Verified ==
  /\ At("ask")
  /\ \/ call' = Goes(call) /\ UNCHANGED <<socket, tcp, signal, io, server, wire>>
     \/ Fail("hostVerification")

Rejects ==
  /\ call.result = "ending" /\ io.shutdown = "done"
  /\ call' = [call EXCEPT !.result = "rejected"]
  /\ UNCHANGED <<socket, tcp, signal, io, server, wire>>

\* Mutant: the signal is only looked at when connect starts.
AbortedQuietly(s) == s

\* The abort listener of connect.
Aborted(s) == ShutDown(s)

\* The signal, with the listener of connectTcp or of connect, or with neither.
Abort ==
  /\ ~signal.aborted
  /\ signal' = [aborted |-> TRUE,
                late |-> call.step = LastStep /\ (call.waits \/ io.buffer # <<>>)]
  /\ tcp' = [tcp EXCEPT !.at = IF @ = "opening" THEN "rejected" ELSE @]
  /\ io' = IF call.listener THEN Aborted(io) ELSE io
  /\ socket' = IF tcp.at = "opening" /\ tcp.runtime = "node" THEN "closed"
               ELSE IF call.listener THEN Destroyed(io') ELSE socket
  /\ UNCHANGED <<call, server, wire>>

-----------------------------------------------------------------------------
(* The transport and the server.                                           *)

\* The server's view of the MAC of the next packet it gets or sends.
Sequence(packets) ==
  Cardinality({i \in DOMAIN packets : (packets[i].on \/ ~Restarts) /\ packets[i].what # "ID"})

\* The transport takes the packet that is being written.
Written ==
  /\ io.writing # <<>> /\ socket = "open"
  /\ io' = [io EXCEPT !.writing = <<>>]
  /\ call' = IF call.result = "pending" THEN Goes(call) ELSE call
  /\ server' =
       LET packet == Head(io.writing) IN
       [server EXCEPT !.got = Append(@, packet),
          !.fault = IF packet.on /\ packet.count # Sequence(server.got) THEN "mac" ELSE @]
  /\ UNCHANGED <<socket, tcp, signal, wire>>

WriteFails ==
  /\ io.writing # <<>>
  /\ io' = [ShutDown(io) EXCEPT !.writing = <<>>]
  /\ call' = Caught(call, "write") /\ socket' = Destroyed(io')
  /\ UNCHANGED <<tcp, signal, server, wire>>

Got(what) == \E i \in DOMAIN server.got : server.got[i].what = what
Sent(what) == \E i \in DOMAIN server.sent : server.sent[i].what = what

\* What a server sends next: what it has to answer, and the rest on its own.
Due ==
  CASE ~Sent("ID") -> {"ID"}
    [] Sent("ID") /\ ~Sent("KEXINIT") -> {"KEXINIT"}
    [] Sent("KEXINIT") /\ server.announced = "wrongGuess" /\ ~Sent("GUESS") -> {"GUESS"}
    [] Sent("ECDH_REPLY") /\ ~Sent("NEWKEYS") -> {"NEWKEYS"}
    [] Sent("NEWKEYS") /\ Got("SERVICE_REQUEST") /\ ~Sent("SERVICE_ACCEPT") -> {"SERVICE_ACCEPT"}
    [] Sent("SERVICE_ACCEPT") /\ Got("USERAUTH_REQUEST")
         /\ ~Sent("USERAUTH_SUCCESS") /\ ~Sent("USERAUTH_FAILURE") ->
         {"USERAUTH_SUCCESS", "USERAUTH_FAILURE"}
    [] Sent("KEXINIT") /\ Got("ECDH_INIT") /\ ~Sent("ECDH_REPLY")
         /\ (server.announced = "wrongGuess" => Sent("GUESS")) -> {"ECDH_REPLY"}
    [] OTHER -> {}

\* A packet of the server's, under its keys once it has sent NEWKEYS.
Outgoing(what) ==
  [what |-> what, on |-> Sent("NEWKEYS"),
   count |-> IF Sent("NEWKEYS") THEN Sequence(server.sent) ELSE 0]

\* The server sends what is due, or something wrong and then nothing more.
Send ==
  /\ socket = "open" /\ server.fault = None
  /\ \E what \in Due, fault \in {None, "message", "signature"} :
       /\ fault = "signature" => what = "ECDH_REPLY"
       /\ LET packet == Outgoing(IF fault = "message" THEN "OTHER" ELSE what)
          IN  /\ wire' = Append(wire, packet)
              /\ server' = [server EXCEPT !.sent = Append(@, packet), !.fault = fault]
  /\ UNCHANGED <<socket, tcp, signal, call, io>>

\* IGNORE or DEBUG (RFC 4253 s. 11), or the banner of the authentication (RFC 4252
\* s. 5.4).  A guess that was announced is the packet after its KEXINIT (RFC 4253
\* s. 7.1), so nothing comes between them.
Interject ==
  /\ socket = "open" /\ server.fault = None /\ server.aside = 0
  /\ Sent("ID") /\ ~Sent("USERAUTH_SUCCESS") /\ ~Sent("USERAUTH_FAILURE") /\ Due # {"GUESS"}
  /\ wire' = Append(wire, Outgoing("ASIDE"))
  /\ server' = [server EXCEPT !.sent = Append(@, Outgoing("ASIDE")),
                              !.aside = Len(server.sent) + 1]
  /\ UNCHANGED <<socket, tcp, signal, call, io>>

-----------------------------------------------------------------------------
Tcp == OpenTcp \/ SocketOpens \/ Opened \/ SocketFails
Handshake == Connect \/ Write \/ ReadFails \/ Arrive \/ Skip \/ Take \/ Taken \/ Compute
               \/ Verified \/ Rejects
Shutdown == CancelSettles \/ AbortSettles \/ CloseSettles
Next == Tcp \/ Handshake \/ Shutdown \/ Abort \/ Written \/ WriteFails \/ Send \/ Interject

Spec == Init /\ [][Next]_vars

\* The event loop goes on with what can go on, and cancelled reads end.  Nothing
\* obliges the server, the user, or the streams of another runtime; those of
\* Node settle, and a destroyed socket fails its write.
Loop == Opened \/ Write \/ Skip \/ Take \/ Taken \/ Compute \/ Rejects
          \/ (ReadFails /\ io.shutdown # "no")
NodeStreams == tcp.runtime = "node" /\ (Shutdown \/ (WriteFails /\ socket = "closed"))
FairSpec == Spec /\ WF_vars(Loop) /\ WF_vars(NodeStreams)

-----------------------------------------------------------------------------
\* Every variable keeps its type.
TypeOK ==
  /\ socket \in {"none", "connecting", "open", "closed"}
  /\ tcp \in [runtime : Runtimes, at : {"idle", "opening", "resolved", "rejected"}]
  /\ call.step \in 0 .. LastStep /\ call.waits \in BOOLEAN /\ call.listener \in BOOLEAN
  /\ call.result \in {"idle", "pending", "ending", "returned", "rejected"}
  /\ io.shutdown \in {"no", "cancel", "abort", "close", "done"}
  /\ io.locks \in {{}, {"reader", "writer"}}
  /\ io.writing # <<>> => call.result = "pending" /\ Now.do = "write" /\ call.waits

\* When connect() rejects, the transport it took is closed and unlocked, and one
\* it could not lock is left alone (client.ts:332-339 and 429-433).
ReleasedOnReject ==
  call.result = "rejected" =>
    /\ io.locks = {}
    /\ IF call.reason = "locked" THEN io.shutdown = "no"
                                 ELSE io.shutdown = "done" /\ socket = "closed"

\* connect() returns a client whose transport is shut down only if the abort
\* fell between the arrival of the last packet and its being decoded; a client
\* that was returned is out of the signal's reach (client.ts:341-346 and 414-416).
DeadClient ==
  call.result = "returned" /\ io.shutdown # "no" =>
    signal.late

\* No packet of a server that keeps to the protocol and counts packets as the
\* client does is misread, whatever guess it announces and however its packets are
\* joined to chunks: the switch of the keys and the packet to skip fall where the
\* server means them to.  Such a server still fails the handshake in one way, by
\* what it sends aside: each parser of connect() takes its own message and no
\* other (client.ts:357-361, 372, 387-402, 404 and 414).
ServerUnderstood ==
  /\ call.reason = "cipher" => server.fault \in {"message", "signature"}
  /\ call.reason = "unexpected" =>
       server.fault \in {"message", "signature"} \/ call.packet = "ASIDE"

\* The user's key and the new keys are used only for a host whose key it proved
\* and the verifier accepted, even if the answer comes after an abort
\* (client.ts:365-396).
HostVerifiedFirst ==
  Got("NEWKEYS") =>
    /\ call.step > Number("ask", "hostVerifier")
    /\ server.fault # "signature"

\* An abort ends connect() over a Node socket, whatever it waits for and whatever
\* the server does, but for the host verifier (client.ts:341-346 and 381-385).
AbortEnds ==
  signal.aborted /\ call.result = "pending" /\ tcp.runtime = "node"
    ~> At("ask") \/ call.result \in {"returned", "rejected"}

\* A connection of connectTcp() that rejected does not stay open
\* (client.ts:1430-1478 and 1522-1537).
SocketClosed ==
  tcp.at = "rejected" /\ socket = "open" ~> socket = "closed"

\* The MACs of an RFC 4253 peer count packets from the first one on
\* (cipher.ts:32): such a server takes every packet of the client.
MacAccepted == server.fault # "mac"
=============================================================================
