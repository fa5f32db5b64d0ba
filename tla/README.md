# A TLA+ model of the @neotales/ssh client

The repository is a TypeScript SSH client. `src/jsr/ssh/` is the source, with
its tests beside it; `src/npm/ssh/` is generated from it, and `src/eng/` builds
the package. Two connected parts carry the program's own control logic:
`client.ts` connects, and multiplexes commands and SFTP subsystems over one
encrypted transport; `sftp.ts` runs SFTP requests over one such channel. Under
them are the TCP transports, the receive buffer, the packet cipher, and the
codecs and rules that keep no state between calls.

Paths below are relative to `src/`, and a line number without a path is in
`jsr/ssh/client.ts`.

## Inventory

| Part | State it keeps | Operations | Talks to |
| --- | --- | --- | --- |
| `SshClient` (210-320) | its `ChannelMux` | `run`, `openSftp`, `close`, `abort`, `dispose` | mux, channels |
| `ChannelMux` (551-675) | channel map, next id, `#terminal` | `createCommand`, `createSftp`, `write`, `release`, `#route`, `#fatal` | `ClientIo`, channels |
| `ManagedChannel` (677-810) | remote channel, EOF and CLOSE flags, `#opened` and `#reply` promises | `open`, `sendRequest`, `sendEof`, `close`, one handler per message | mux |
| `ManagedCommandChannel` (812-959) | output, receive window, exit code, result promise | `start`, `cancel`, `data`, `onClose` | mux, the caller of `run` |
| `ManagedSftpChannel` (962-1149) | two streams, two windows, `#ready`, `#remoteClose`, window waiters | `start`, `cancel`, `close`, pull, `#write` | mux, `SFTPClient` |
| `ClientIo` (449-548) | reader, writer, receive buffer, `#writeTail`, `#shutdown` | `writePayload`, `readPayload`, `shutdown` | transport |
| `ByteBuffer` (1151-1253) | a byte range and a remainder | `append`, `consume`, `drain` | `ClientIo` |
| `connect` (327-435) | an abort listener | the handshake | `ClientIo`, kex, cipher, auth |
| TCP transports (162-186, 1430-1598) | `settled` and `closed` flags | connect with abort, stream adapters | Deno, Node |
| `SFTPClient` (`sftp.ts`) | pending requests, next id, frame being read | requests, `upload`, `download`, `#terminate` | `ManagedSftpChannel` |
| `cipher.ts`, `packet.ts` | AES counter and sequence number of a direction | seal, open in two reads, padding | `ClientIo` |
| `kex.ts`, `known_hosts.ts`, `identification.ts` | none | negotiation, exchange hash, key derivation; verdict on a host key; identification line | `connect` |
| `auth.ts`, `connection.ts`, `transport.ts`, `protocol/sftp.ts`, `primitives.ts` | none | codecs | all |
| keys, signatures | none | key files, signatures | `connect`, `auth.ts` |

**What is hard.** JavaScript runs to the next `await`, so there are no data
races, but one connection has many coroutines suspended at once: a `#begin` per
channel, the one read loop (which awaits its handlers, and these await writes),
the pulls and writes of two streams per SFTP channel, any number of `close()`
calls, and the write tail, a promise chain that all of them share. State read
before an `await` is stale after it. An error that leaves a handler ends the
connection for everybody (`#fatal`), so which errors a well-behaved server can
cause is a correctness question of its own. `PROJECT.json` lists the hazards
line by line.

**What makes each part correct.**

- Multiplexer: one command never disturbs another; an id is released only when
  the server can no longer use it; the slots in use bound the channels a server
  holds; every coroutine gets exactly its own write completion.
- Command channel: a resolved command has all its output; output is bounded;
  windows agree to the byte; every command settles; CLOSE is sent once.
- SFTP channel: EOF and CLOSE once and in order, whoever closes; neither window
  loses or invents a byte; the stream queue is never exceeded; no credit is lost
  for ever; opening and closing settle, or wait for a named promise of the server.
- SFTP client: a response reaches its own request; a call waits for ever only for
  its response or for a packet the channel cannot send; the pending limit holds;
  handles are closed.
- `ClientIo` and `connect`: packets in order under one cipher state; shutdown
  closes the transport; an aborted connect leaks none and returns no dead client.
- Receive buffer, framing, cipher: the bytes, packets and payloads that come out
  are those that went in, however the stream is cut, at every limit and wrap.
- Codecs: a message is read as it was written, by its own parser only, and what
  is read can be written again and is read alike, unless a text of it starts with a
  byte order mark.
- Key exchange: both sides end with the same keys, or not at all.
- Known hosts: the verdict is what the lines of the file mean together.

## Modules

**`ChannelMux`** is the multiplexer with its command channels. `chan[c]` is the
channel object `c` (the promises `opened`, `reply`, `result` and the flags of
the class, under the source's names), `channels` the keys of the map, `terminal`
the reason `#fatal` was first called with, `tail` the packets of `#writeTail`,
each with the coroutine (`by`) that awaits it, and `reader` where the read loop
is suspended. `chan[c].begin` is the program counter of `#begin`.

An action is what runs between two suspensions. `Run`, `Cancel`, `Close` are
calls of the user. `ResumeOpened`, `ResumeReplied` are `#begin` after a promise.
`Transmit` hands the head of the tail to the peer, `WriteDone` resumes the
coroutine that awaited it, `WriteFail` rejects the whole tail as the chain of
`then` does. `RecvX` handles one packet up to its first `await`, with
`RouteError` naming the error that would leave `#route`; `ReadFail` is the end
of the transport. The guard `Quiet` states the one scheduling fact used: a
coroutine whose promise is settled continues in a microtask, before the next
packet or write completion, which need a turn of the event loop.

`ServerType`, `MaySend` and `Send` are the server, which is not in the
repository: with `Compliant` it follows RFC 4254 (data within the window, one
reply per request, nothing after CLOSE), without it it may send anything.

**`MCChannelMux`** adds instances and the property that needs a sum,
`WindowAgreement`; **`Sums`** has the sum of a sequence. **`ChannelMux_proofs`**
holds the theorems about the client with any server and the lemmas about one
channel, its packets and its messages, and **`MuxWire_proofs`** the theorems that
relate the client to a server that follows RFC 4254.

**`SftpChannel`** is one `ManagedSftpChannel` with `openSftp` above it and the
same tail and read loop below it. `ch` holds the fields of the object, `closer`
where each caller of `close()` is suspended (the catch blocks of `#begin`,
`#write` and `openSftp`, the abort listener, `#terminate`, and the abort and
cancel callbacks of the streams), `readable` the queue of the readable stream
and its pull, `writable` the `#write` under way, `client` the stage of `openSftp`
and of the `SFTPClient` above: `connecting` while `SFTPClient.connect` awaits the
version and `negotiated` when it has read it. The promise of `openSftp` settles
(`OpenSettled`) when `connect` returns, which the write of INIT delays even then
(`Negotiated`), or when the `close()` of its catch block does (`OpenFailed`). That
client is an environment: it reads any number of bytes (`Take`), writes a chunk
(`WriteChunk`) and terminates (`Terminate`, the three calls of `sftp.ts:648-656`). `Called`, `Broken`,
`Replenished` and `Pulled` are the synchronous parts of `close`, `onTerminal`,
`#replenishReceiveWindow` and the stream's pull, as functions of the state that
one turn may change several times. The streams follow the Streams standard: one
pull at a time and one more if it was asked for meanwhile; `abort` waits for the
write under way. A chunk handed straight to a pending read is a chunk enqueued
and taken at once.

**`MCSftpChannel`** adds instances and the two window equations;
**`SftpChannel_proofs`** holds the theorems.

**`SftpClient`** is the `SFTPClient` over such a channel: `connect` with its
version exchange, concurrent operations (`stat`, `readDir`, `download`,
`upload`; the other public calls are one request each, as `stat` is), their
abort signals, `close` and `#terminate`. `op[o]` says where operation `o` is
suspended, `log` holds every request ever made with its promise, `pending` is
the table of the code with the next id to try, `out` what the writer of the
channel holds, and `server` what it still owes, the handles it keeps open and
whether it has got the packet being written. The channel sends a packet (`Sent`),
which may never happen, and afterwards settles its write (`Written`), so a response
may come before the write of its request has returned.
`Request` is `#request` up to its first `await`, `Dispatched` is `#dispatch`,
`Terminated` is `#terminate`, each a function of the state, since one turn of
the event loop may run several. An operation whose request has returned goes on
in an action of its own (`Opened`, `Worked`, `Closed`, `Ended`), so that other
responses of the same chunk can be dispatched in between. Ids wrap at `IdSpace`.

**`SftpRequests`** is what the table promises, without ids, packets or signals:
a call is answered or rejected once; an answer settles at most one call, its own
or a later one whose predecessor had been given up. `SftpClient!RequestTable`
maps `log` to it. **`SftpClient_proofs`** holds the theorems about both;
**`MCSftpClient`** is the instance.

**`Connect`** is `connectTcp` and `connect`: the sockets of Node and Deno and a
transport of the application, the abort signal that both calls share, and
`ClientIo.shutdown` with its three awaits. `Script` lists what `connect` awaits,
in its order; `call.step` is the place reached. `Write`, `Take` with `Taken`,
`Compute` and `Verified` are the four sorts of steps, `Arrive` fills the receive
buffer with any number of packets, `Skip` is the packet after a wrong guess,
`Caught` is the catch block. The server sends what is `Due`, or something wrong, and
once in the handshake something aside (`Interject`): IGNORE, DEBUG or a banner,
which the protocol allows there and the script has no step for. Each cipher counts its packets from the point where
it is taken into use; a server fault records which packet, MAC or message the
server could not take. `Restarts` chooses the server: `TRUE` is the server of
the repository's tests, which counts packets from NEWKEYS on for its MACs as the
client does, `FALSE` is RFC 4253, which counts from the first packet.
**`Connect_proofs`** holds the theorems.

**`ByteBuffer`** is the receive buffer with `readMore` and `readPayload` around
it: capacity, start, length and remainder as the code keeps them, bytes named by
their place in the stream. **`SftpFrames`** is `#receive`: header, body and the
limit on the length, over any cut of the stream. The loops of `#fill` and
`#receive` are functions from the number of passes to what they leave (`Pass`,
`PassOver`).

**`PacketLayout`** and **`Cipher`** are the padding and length rules, and one
direction of the protected transport: the counter of several bytes, the sequence
number, and a read in two parts. **`Streams_proofs`** holds the theorems about
these four.

**`KnownHosts`** is `known_hosts.ts`: a behaviour parses the file line by line
(`ParseLine`), calls `verifyKnownHost` (`Verify`), goes through the entries
(`VerifyEntry`) and concludes from what it has seen (`Conclude`). The match of one
entry is a function, with the loops over its patterns (`Considered`) and over the
characters of a glob (`GlobPass`) as functions of their passes. `Denotes` says what
a glob stands for without an algorithm, and `Meaning` what the lines of a file mean
without an order. **`KnownHosts_proofs`** holds the theorems.

**`Codec`**, **`Fields`**, **`Messages`** are the wire. A payload is a sequence
of cells: a byte that matters, or a unit such as the length of a string. `Codec`
has integers, strings, mpints and names, `Fields` the kinds of fields with what
their writers accept and their readers refuse, and `Messages` each message as a
list of fields. A reader is a function to the value and the rest, or a refusal.
**`Kex`** is `kex.ts`: negotiation, the guess rule, the exchange hash input, the
secret as an mpint, the key derivation, and an exchange of two sides with one
change on the way. **`Identification`** is the preamble and the line over
chunks. Each of these has a reference definition written independently of the
code's algorithm: the line of the whole stream for `Identification`, both sides'
keys for `Kex`, reading back for `Messages`. Cryptography is
symbolic: a hash, key, signature or MAC is the tuple of what it is computed from,
so equal exactly when all of that is.

**`MCTransport`** puts all of this in one run. `part` says which machine or
operator a behaviour is about; the machines of the other parts stay in one
initial state. The parts do not share state here: what they hand each other is
whole packets, which is what `StreamKept` and `CiphersInStep` say they are.
`MCMessages`, `MCKex`, `MCIdentification` and `MCKnownHosts` hold the inputs.
**`MCConnect`** is `Connect` alone, for the run with an RFC 4253 server.

## Runs

| Run | Instance | Shows |
| --- | --- | --- |
| `mux_safety` | 2 ids, 1 slot, output 2, window 1, compliant server, every message that names a channel | `TypeOK`, `OutputBounded`, `WireOrder`, `ReleasedWhenDead`, `ServerChannelsBounded`, `WindowAgreement`, `CompliantServerUnderstood` |
| `mux_pair` | 2 ids, 2 slots, compliant server without refusals | `NoCommandForgotten`, `SuspendedInTail`, `ResultComplete` |
| `mux_live` | 1 id, compliant server with every message type, `FairSpec` | `CommandSettles`, `ClosingReleased` |
| `mux_cancel` | 1 id | finds `CancelContained` violated |
| `mux_limit` | 1 id | finds `LimitContained` violated |
| `sftp_safety` | window 2, chunks of 1 and 2 bytes, 2 bytes granted, 3 bytes sent, packets of 1 byte | `TypeOK`, `CloseLast`, `ReleasedWhenDead`, `ReceiveCredit`, `SendCredit`, `CompliantServerUnderstood` |
| `sftp_live` | window 1, chunks of 1 and 2 bytes, 1 byte granted, 2 bytes sent, `FairSpec` | `OpenSettles`, `WindowReopens`, `ShutdownUnlessBlocked` |
| `sftp_shutdown` | window 1, 1 byte sent, `FairSpec` | finds `ShutdownCompletes` violated |
| `sftp_client` | 2 operations, 3 ids, limits 1 and 2, one READ, WRITE or READDIR each, `FairSpec` | `TypeOK`, `PendingExact`, `StaleDistance`, `HandlesAccounted`, `RequestTable`, `CallsReturn` |
| `transport` | below | `Connect`: `TypeOK`, `ReleasedOnReject`, `DeadClient`, `ServerUnderstood`, `HostVerifiedFirst`, `AbortEnds`, `SocketClosed`; the parts: `StreamKept`, `FramesKept`, `CiphersInStep`, `Understood`, `KexAgrees`, `HostTrusted` |
| `connect_rfc4253` | `Restarts = FALSE` | finds `MacAccepted` violated |
| `kex_rfc8731` | the exchanges of `transport` | finds `NetworkOrder` violated |

**Why the bounds are enough.** *Multiplexer.* Two ids with one slot make the
second command wait for the release of the first, and two slots put two
`#begin`s and the read loop in one tail; a third command adds no new kind of
owner. A window of one and an output limit of two force a refill between two
chunks and one chunk over the limit. Servers that break the protocol are not
run: `TypeOK`, `NoCommandForgotten`, `SuspendedInTail` and `OutputBounded` are
theorems for them too, and the other properties say nothing of them. `MaxInbox = 1`
holds one unread message: the read loop takes one packet at a time and nothing
looks behind it, while the write tail, where order matters, is unbounded.

*SFTP channel.* A window of two bytes lets data, queue and pending credit all be
non-zero at once; two granted bytes for chunks of up to two split a chunk at the
window and at the packet size, and block the second chunk. `MaxWindow = 9` is
out of reach of the two bytes a compliant server grants. In `sftp_live` INIT may be
longer than what the server ever grants, so opening meets the window that stays shut.

*SFTP client.* One operation is a `stat` or an `upload`, the other a `stat`, a
`readDir` or a `download`, so a reader and a writer with handles of their own
meet. With three ids and a limit of two, an id is reused while its aborted
request is still owed, after two more requests; the limit of one refuses the
CLOSE of a handle while another request waits. Three requests make an operation
with a handle, which is enough for the ids to go round; `MaxWork` bounds the
repetition between OPEN and CLOSE.

*Transport.* `Connect` has one connection, since nothing is shared between two, and
one packet aside: the first one ends the handshake.
The buffer starts at two bytes, grows to five, and reads packets of up to six
(one too long for it) in chunks that fit, cross the end, or exceed the limit; a
stream of twelve bytes compacts and grows more than once. Frames have a header
of three bytes, bodies of up to two and one over the limit. The cipher's counter
has two bytes of four values and starts at 13 of 16, so both bytes wrap within a
packet; there are three sequence numbers; the payloads give every kind of padding
and one over the limit. Messages take every value of a list that holds, for each
kind of field, what the writer takes, what it refuses, and what only one
direction takes, with one unit of each payload changed or cut off. Exchanges vary
the server's lists, the numbers, the host key and signature and one change on
the way. Known-hosts files have up to two lines of every kind, or three entries that
differ in marker, host and key, so that each may come before, between or behind the
others; and every glob of up to four characters is matched against every host of up
to four, so two stars can compete for the same characters.

The runs turn deadlock checking off, as a client that is closed stops.

**Fairness.** Weak fairness of the continuations, of `Transmit`, `WriteDone` and
the read loop says that the event loop runs what is ready and that the transport
is live. `Cancel`, `Close`, `WriteFail`, `ReadFail` and `WriteChunk` have none:
nobody must call or fail. `Take` is weakly fair (the loop of `sftp.ts:503-514`
always has a read pending), and so is `Terminate` when a stream has broken. The
server owes, under strong fairness since `Quiet` and the inbox disable it now
and then, an answer to each open and request and a CLOSE once it has got one;
for commands also the exit status and EOF. A server that stays silent hangs the
client, by design: no operation has a timeout. It owes neither window adjustments
nor the version, which `OpenSettles` therefore names: `openSftp` settles unless the
`#write` of INIT waits for the window for ever, or the version never comes. The
second wait an abort ends, the first it does not (finding 3).

`SftpClient`'s `FairSpec` is weak fairness of the client's own continuations
(`Own` and `Resume(o)`) and of `Written`, the settling of a write whose packet the
server has got: what is left of `#write` then is the completion of the transport's
write. The channel need not come to send a packet (`Sent` has no fairness, since
`#write` may wait for the window for ever), and the server owes nothing. So
`CallsReturn` says that a call waits for ever only for a response the server owes it,
or for a packet that the channel has not sent, its own or one before it; and that an
abort ends the first wait. `Connect` has weak fairness of what the event loop can go on
with (`Loop`), and of the streams of Node, which settle once the socket is
destroyed (`NodeStreams`); none of the server, the user, the host verifier or
the streams of another runtime. So `AbortEnds` is claimed for Node only, and
leaves out the host verifier, which `connect` still awaits after an abort. In
`MCTransport` neither is enabled in the behaviours about another part.

## Findings

Five runs refute what the repository, or a standard it cites, says of the
program; `PROJECT.json` quotes the lines.

1. `mux_cancel`: cancelling a command while its output is arriving ends the
   whole connection (853). Data in flight meets `closing`, and the error is
   thrown outside the handler's `try`.
2. `mux_limit`: a command over its output limit ends the whole connection when
   the server answers the CLOSE (891).
3. `sftp_shutdown`: `SFTPClient.close()` never settles when a write is waiting
   for the send window (1067, 1131): neither `close()` nor `onClose()` wakes the
   waiter, and the stream's abort waits for it. Two more promises hang for the same
   reason. `openSftp` never settles when its signal aborts while INIT waits for the
   window, since `SFTPClient.connect` awaits that write first (`sftp.ts:187`). And a
   request whose packet waits for the window, or behind one that does, is rejected by
   its signal only when the write settles (`sftp.ts:483`), although the comment at
   `sftp.ts:333-337` has an abort bound the work in flight. `OpenSettles` and `CallsReturn` name both as exceptions.
4. `connect_rfc4253`: the MACs of the client count packets from NEWKEYS on, those
   of RFC 4253 from the first packet, so such a server refuses the first packet
   the client encrypts (`cipher.ts:32-38`). The server of the tests uses the same
   class.
5. `kex_rfc8731`: the X25519 secret enters the exchange hash and the key
   derivation with its bytes in the opposite of network order (`kex.ts:445`).

The first has a twin in `SftpChannel`: data in flight when an SFTP channel is
closed ends the parent connection (1041). No run is spent on it;
`CompliantServerUnderstood` of that module lists `dataWhileClosing` among the
ends a compliant server can cause. That end and `badRequest`, any request on the
channel (1058), contradict 266-267 and `jsr/ssh/README.md:89-91`, which say that
closing an SFTP client or a failure of its channel leaves the connection open.

`CompliantServerUnderstood` states the complete list in both modules. For a
command: data that crossed the close, an exit-signal or another request, a
window adjustment, and an exit without status. For SFTP: data that crossed the
close, any request on the channel, and the end of the subsystem by the server.
Two more behaviours are written into properties as what the code does: EXEC and
EOF may follow CLOSE on a command channel (`WireOrder`, since `#begin` does not
look at `closing`), and DATA may follow EOF and CLOSE on an SFTP channel
(`CloseLast`, since `#write` looks at it only when the window is zero).

Smaller facts met on the way; a property that meets one allows for it:

- `sftp.ts:493-501`: ids skip those that are pending, not those whose aborted
  request the server may still answer. Once the ids have gone round, a response
  can reach a later request, and from then on the responses of that id are
  shifted by one. `StaleDistance` says how far the ids must have gone.
- `sftp.ts:456-459`: a CLOSE is refused at the limit on pending requests as any
  request is, and then `readDir`, `download` and `upload` leave the handle open
  (`HandlesAccounted`).
- `sftp.ts:333-337`: the signal does not end an `upload` that waits for the
  response to its CLOSE, which is sent without the signal (431-437).
- `sftp.ts:285`: a `download` whose signal is aborted when it reaches the end of the
  file closes the whole client, as one that is aborted before does.
- 357, 372, 395, 404, 414: every message of the handshake is read by the parser of the
  one expected, so IGNORE, DEBUG (RFC 4253, section 11) and USERAUTH_BANNER (RFC 4252,
  section 5.4), which a server may send there, make `connect` reject.
  `ServerUnderstood` names this as the one way in which such a server fails.
- `sftp.ts:187-190`: when the INIT cannot be written, `#negotiated` is rejected
  with nobody to handle it.
- 381-385: after an abort `connect` still waits for the host verifier.
- 526-548: a write of an application's transport that never settles keeps
  `shutdown` from reaching `transport.close`; hence `AbortEnds` for Node only.
- 1176: a chunk of more than twice the packet limit ends the connection, however
  the packets in it are cut.
- `kex.ts:387-390`: `isKexGuessCorrect` compares the first algorithms of the
  server with those agreed on, not with the client's first ones as RFC 4253 does.
  With one algorithm in each of its lists, as `createKexInit` offers, it is the same.
- Codecs: a byte order mark at the start of a text is dropped and a lone
  surrogate replaced; so a text with two marks is read as one that starts with a
  mark (`connection.ts:473-483`), which the formatters there refuse to write again
  (464-471) and those of `protocol/sftp.ts` write so that the next reader drops the
  second mark too (`Stable`); a language tag with NUL is written and not read; an empty
  `extended` is read back as none; `formatIdentification` does not check the
  length that `readIdentification` enforces. `Understood` compares what was
  written up to these.

## Proofs

A theorem holds for every value of the constants that the assumption of its
module admits. Those below state most of the safety properties that the runs check
on an instance; the end of this section lists the others.

**Multiplexer, any server.** `ChannelMux_proofs`, from `MuxAssumption` alone (ids,
limits, windows and sizes are natural numbers, and there is at least one slot),
for a server that follows the protocol and for one that does not:

- `TypeCorrect`: `Spec => []TypeOK`. Subtractions are on naturals, so this says
  that no window count becomes negative.
- `CommandsRemembered`: `Spec => []NoCommandForgotten`.
- `CoroutinesInTail`: `Spec => []SuspendedInTail`.
- `OutputWithinLimit`: `Spec => []OutputBounded`.

None of these is inductive by itself. The invariant `IInv` has four parts:

- `ChannelsOK` joins the types of the channel variables, the two command
  invariants, and three facts they need: an id that is not allocated names an
  untouched object (or `Run` could overwrite a pending command), a cancelled
  command is settled (or `FinishClose`, which settles no cancelled command,
  would forget it), and a terminal client has an empty map.
- `QueuesOK` is the rest of the types.
- `SuspendedInTail` is needed itself: without it `WriteDone` could resume a
  coroutine that waits for something else.
- `AdjustFits`: the bytes of an `#append` that awaits its ADJUST are not counted
  yet (client.ts:936-943), so the bound on the output holds afterwards only if
  their sum was checked before; and the packet awaited is the one queued.

The proof has a lemma per action. `Suspended(t, w, r)` restates
`SuspendedInTail` for any tail, and `SuspendedAppend` and `SuspendedTail` say
what queueing and completing a packet do to it; `FatalChannels`, `OneChannel`
and `FinishCloseKeeps` carry `ChannelsOK` through the operators that many
actions share. `Inductive` is `Spec => []IInv`, and each theorem is a
consequence.

**Multiplexer, a server that follows RFC 4254.** `MuxWire_proofs`, each under the
hypothesis `Compliant`, the value of the constant with which the server keeps to
the protocol (they compare the client with what such a server has sent, got and
granted; of another server no account is kept):

- `RequestsInOrder` (`WireOrder`), `NumbersReleased` (`ReleasedWhenDead`),
  `ServerHoldsFew` (`ServerChannelsBounded`), `ResultsComplete`
  (`ResultComplete`), `WindowsAgree` (`WindowAgreement`) and `ServerUnderstood`
  (`CompliantServerUnderstood`).

Each relates what the client knows to what the server has seen, and between the
two are the packets that wait and the messages under way. So the second invariant,
`Wired`, speaks of both. The tail and the inbox are shared by all channels, and an
action of one channel must not disturb what is known of another; therefore
`Seen(d)` says that some `w` and `q` are the packets and messages of channel `d`
in the order of the queues (`Picks`), and that `OnWire` holds of the channel, `w`,
`q`, the server's side and what the read loop waits for. What an action does to a
queue (append, remove the first, reject all) is one lemma about `Picks` for the
channel it concerns and one for all others, and each step of
`OnWire` is proved without the multiplexer (the second half of `ChannelMux_proofs`). Its parts:

- `Begun`: where `#begin` is tells which of its requests the server may have.
- `Queued`: a packet that waits is not one that the server has, and behind a
  CLOSE there is no credit.
- `InOrder`: `WireOrder`, of one channel.
- `Flagged`: the flags of a channel, and what it left behind when it left the map:
  a CLOSE in both directions, or a refused OPEN.
- `Answered`: the messages under way are in the order in which a server sends
  them, an answer under way is one that the channel waits for.
- `Counted`: the two windows and the bytes of the output, with those under way.

`Shared` is the rest: an id is taken exactly when its channel has begun, the map
fits the limit, and the packet the read loop waits for is its own. `WireInductive`
is `Spec => []Wired`; the lemma of an action gets `IInv` before and after the step
from the first theorem.

**SFTP channel.** `SftpChannel_proofs`, from `SftpAssumption` (windows, sizes and
bounds are natural numbers, a packet and a window have a byte), for the server of
the model, which follows RFC 4254:

- `TypeCorrect`, `ClosesLast` (`CloseLast`), `Releases` (`ReleasedWhenDead`),
  `ReceiveCredited` (`ReceiveCredit`), `SendCredited` (`SendCredit`).
- `ServerUnderstood` (`CompliantServerUnderstood`), if `MaxGranted <= MaxWindow`:
  the server never grants more than fits the 32 bits of a window, as RFC 4254
  section 5.2 asks of it. One that grants more is told so (`windowAdjust`).

The invariant `IInv` is `Good`, a predicate on the state as a record, since one turn
of the event loop applies several of `Called`, `Broken`, `Replenished` and `Pulled`,
each of which maps such a record to the next and is shown to keep `Good` by a lemma
of its own. The packet at the head of the tail counts as unsent until the peer has
it, so `Good` speaks of what is behind it (`Waiting`). Its parts: `Typed`;
`Released`, when the channel leaves the map and what is read after it; `Started`,
how far `#begin` and `openSftp` have come together; `Owned`, a packet of `#begin`
or `#write` is the only one of its owner; `Flags` and `Shut`, EOF and CLOSE are
queued once, in their order, and nothing but DATA behind them; `Windows`, the two
equations with the bytes in the tail and in the inbox, and the bound on the queue of
the stream; `Answers`, the order of the messages under way. The two window
properties are not inductive because the catch blocks and `close()` may run between
any two writes: what they leave in the tail must be counted in every order.

**Sums.** `Sums_proofs` says what a sum becomes when an element is added at the
end or taken from the front, and that the sums of a sequence's beginnings grow
(`SumFirst`, `Upwards`). `SumOf` is a recursive function, and the induction theorems
of the library cannot be instantiated, so its defining equation is proved by the least
index at which it would fail (`Least`, from the well-foundedness of `<`). `UpTo` is
induction over the numbers up to a bound, stated of a set; with it `Recursion` shows
that a step can be taken any number of times. The other proofs about loops use both.

**Connect.** `Connect_proofs`, from `ConnectAssumption` (which runtimes there are,
and that `Restarts` is a truth value), for every abort, failure and shutdown:

- `TypeCorrect`, `RejectReleases` (`ReleasedOnReject`), `ClientAlive`
  (`DeadClient`), `HostFirst` (`HostVerifiedFirst`).
- `Understands` (`ServerUnderstood`) and `MacsAccepted` (no fault `mac`), if
  `Restarts`, that is for a server that counts as the client does. An RFC 4253 server
  does not, and without that hypothesis they are false: run `connect_rfc4253`. What
  `Understands` says of such a server is that the handshake fails for what it sends
  aside and for nothing else.

`IInv` ties the position in `Script` to everything else, because a property of the
end must know what each step before it did: `Life` (the call, the sockets, the locks
and the signal), `Writes` and `Sends` (what the client has written and the server
sent, packet by packet, each under which cipher and number), `Reads` (what has been
taken of it, with what the buffer still holds; of what was sent aside, that nothing
behind it is ever taken), and `Late` (a shutdown under a call
that goes on is an abort, which fell before the last packet came unless the signal
was late).

**SFTP client.** `SftpClient_proofs` proves, from `ClientAssumption` alone (an id
space of at least two, limits below it):

- `TableExact`: `Spec => []PendingExact`.
- `ClientTyped`: `Spec => []TypeOK`, with the limit on the table. It needs that
  `#allocateId` always finds a free id, which the limit gives.
- `ImplementsRequests`: `Spec => RequestTable`, the refinement of `SftpRequests`.
- `ResponsesClose`: `Spec => []StaleDistance`.
- `HandlesKnown`: `Spec => []HandlesAccounted`.

The invariant `IInv` is `Good(Now)`, a predicate on the state as a record, since
the actions compose functions of such records. Beyond types it says: the table
and the promises agree (`Exact`), the holder of an id is the latest request with
that id, no request is made before `connect` (`Fresh`), and the writer's line
holds the last requests in order while the client is open, or else the table is
empty (`InLine`). The last is needed for `WriteFails`: the catch of `#request`
deletes an id without looking who holds it, and only because the head of the line
and all behind it fail together is that holder a request whose own write fails.

For the refinement, every step is one of four sorts (`Keeps`, some calls are
rejected; `Asks`; `Sends`; `Answers`), shown per action, and each sort is a step or
a stutter of `SftpRequests`. The invariant it adds, `Unused`, says that a request
in line or owed has not been used as an answer yet.

For `StaleDistance`, the invariant `Far` looks back over the last
`IdSpace - limit` requests. Between the id of such a request and the next id the
allocator has passed the requests made since and the ids it skipped (`Round`): those
were pending when the request was made, as are the ids still ahead that are pending
now, for no other could have become pending since. Together they are fewer than the
limit, so the allocator has not gone round, and the ids of these requests differ
(`Apart`). A counting argument modulo the number of ids.

For `HandlesAccounted`, the invariant `Handled` says of each operation which request
it is at (`Asked`), that it has its own handle (`Placed`), that the response to its
OPEN is under way only while it opens or after that was aborted, and that its CLOSE is
its last request (`Before`), and at each place what the server may still hold (`Kept`).
Once a response has crossed to another request (`CrossedIn`) none of it is left, which is
why the property excludes that.

**Packets.** `LayoutKept`: for every payload and every block size whose padding
fits the byte of its length (the code uses 8 and 16; from 253 on it would not
fit), what `formatPacket` lays out passes `assertPacketLayout` unless it is longer
than the limit, and the payload is cut out at its length. It rests on lemmas
about remainders.

**Cipher.** Under `CipherAssumption` (such a block size, a limit and payloads in
the naturals, at least one sequence number), for one direction of the transport:

- `NothingRefused`: `CipherSpec => []NoneRefused`. The invariant `Chained` says that
  each packet under way was sealed at the state in which the reader will be
  behind the packets before it, and that the writer stands behind the last.
- `SequencesAgree`: `CipherSpec => []SequencesInStep`, the difference of the two
  numbers is the number of packets under way, modulo the wrap.
- `CountersAgree`: `CipherSpec => []CiphersInStep`, the property as a whole, so also that
  the reader's counter is the writer's without the blocks under way and that no
  counter is used for two of them, which would give away both.

A counter is a tuple of bytes and its value a recursive function of them, so what
`Incremented` does with the carry is shown digit by digit (`Digits`): up to each
byte, the value of the new counter is that of the old one plus the carry that
comes in, less what goes out. Hence one pass adds one modulo `Counters`
(`IncrementedValue`) and `Advance` the number of blocks (`Advanced`). The invariant
`Counted` adds the reader's counter and the bound on the packets under way. That no
counter is used twice needs that the blocks under way are no more than there are
counters, the last part of `CipherAssumption`: it would take 2^128 blocks to break.

**Receive buffer.** `BytesKept`: `BufferSpec => []StreamKept`, under `BufferAssumption`
(sizes are naturals, the first capacity is positive and within the limit). Its
invariant `IInv` says where each byte of the stream is: `Ring`, that both halves of
the array hold the byte `consumed + i` at the place `start + i` wraps to, so that
`bytes` is one range however the content lies; `Queued`, that what is queued is one
run of bytes behind it; and that at most one chunk is queued, since `readMore` asks
the transport only when `drain` found nothing. `PassKept` is one turn of the loop of
`#fill`; `FillKept` takes as many as there are bytes queued and finds the queue empty
or the ring full; `ConsumeKept`, `GrowKept` and their like are the other methods.

**SFTP frames.** `PacketsKept`: `FramesSpec => []FramesKept`, under `FramesAssumption`
(the header has a byte, lengths and limit are naturals), so for every cut of every
stream. `Taken(r, t)` says what a receiver holds that has taken `t` units: the first
`d` packets dispatched, and the beginning of the next one in the header
(`InHeader`), in the frame (`InFrame`), or in a header whose length it refused
(`AtRefused`). A pass takes a unit at least and keeps `Taken` (`PassTaken`), so the
passes over a chunk take all of it or end at a refused length (`ReceivedTaken`).
`FramesShown` then counts: the packets that have arrived whole are those `d`.

**Known hosts.** `KnownHosts_proofs`, from `HostsAssumption` (the two letters whose
case the model distinguishes are characters, and a file, host and key are of their
kinds, a host without a star):

- `GlobsDenote`: `globMatches(pattern, value) <=> Denotes(pattern, value)` for every
  pattern and every such name.
- `HostsTrusted`: `HostsSpec => []HostTrusted`.

The first says that the loop, which goes back to the last star only, misses no way of
dividing the value among the elements of the pattern. Its invariant `Globbing` says
that the pattern stands for the value only if what is behind the last star stands for
some end of what this star may still leave. So an earlier star never needs to take
more than it has. The number `Travelled` grows with every pass, which shows that
`GlobEnd` takes enough of them. The second has the invariant `HostsInv`: the entries
are those of the lines parsed, each of them good (`Parsed`), what has been seen is what
the entries passed over say (`Verified`), and what was returned is what the file means
(`Meant`). For one entry `Patterned` says the same of the patterns it has considered. None
of these mentions an order, and that is the property.

**Model-checked only.** All liveness (`CommandSettles`, `ClosingReleased`,
`OpenSettles`, `WindowReopens`, `ShutdownUnlessBlocked`, `CallsReturn`, `AbortEnds`,
`SocketClosed`): the prover has neither fairness nor ENABLED.
`Understood` and `KexAgrees`: the codecs are RECURSIVE operators over the structure of
their input, and what a recursion over data computes for every input is out of the
prover's reach.

TLC evaluates every assumption above on the instances of the runs.

## Not modelled

- Messages that name no channel, once a user is accepted: the read loop drops IGNORE
  and DEBUG and refuses a global request, and ends the connection on the rest, a key
  exchange begun by the server, a channel that it opens, UNIMPLEMENTED and DISCONNECT
  among them (616-655). The servers of `ChannelMux` and `SftpChannel` send none, so
  `CompliantServerUnderstood` speaks of the messages on channels.
- Standard input of a command: `run` without input sends EOF directly.
- Validation of options (1290-1425), the choice of the runtime, and the checks of
  host and port.
- Backpressure of the transport: a write on a live transport completes. The read
  loop awaits its handlers' writes (610), so a peer that reads nothing until it
  is read from stalls both; to show it the model would need the flow control of
  the server and of TCP, which are not in this code.
- Rejections that nobody awaits: when the connection fails while OPEN or a
  request is being written, `#opened` or the reply is rejected before `#begin`
  awaits it (703). The states are in the model, no property is about them.
- Cryptographic primitives (AES, HMAC, SHA-256, X25519, signing and verifying) are
  symbolic, and so is base64. The OpenSSH file formats of keys are left out: they
  are layout, decoded once and with no state.
- Texts of errors and statuses. In a codec a text stands for the few kinds of
  characters that the code treats apart.
- Hosts with wildcards of their own: the glob `*` does not match a host that
  contains a `*` (known_hosts.ts), and hosts are taken without.
- `npm/ssh/esm` is generated from `jsr/ssh`, and `eng` builds it.

## Plan

Done: every component is modelled, but for what is listed above, and the safety of
the multiplexer, the SFTP channel, the SFTP client, `connect`, the receive buffer,
the SFTP frames, the ciphers and the verdict on a host key is proved. Next, in this order:

1. An abstract specification of a command's life (pending, then one outcome, with
   the connection alive or not) that `ChannelMux` implements.
2. The receive buffer and the SFTP frames as refinements of one FIFO of bytes.
3. The codecs with recursive functions for their lists, so that `Understood` can be
   proved field by field.
4. The OpenSSH key formats as fields, beside `Messages`.
