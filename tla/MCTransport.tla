---------------------------- MODULE MCTransport ----------------------------
(***************************************************************************)
(* The transport below the channels, in one run: the connection and its     *)
(* handshake, and apart from them the parts that it is made of, each with   *)
(* the bytes, packets, messages or files that it is given.  A behaviour is  *)
(* one of a single part.  The machines of the parts are ByteBuffer,         *)
(* SftpFrames, Cipher and KnownHosts; the others are operators, which take  *)
(* one case.                                                                *)
(***************************************************************************)
EXTENDS Connect, ByteBuffer, SftpFrames, Cipher, MCKnownHosts

VARIABLES
  part,   \* the part that this behaviour is about
  case    \* the exchange, message or stream of a part without a machine

AllRuntimes == Runtime
Sizes == 1..6
Chunks == {0, 1, 2, 3, 7, 11}
Announceable == 0..3
Counting == <<3, 1>>
Lengths == {0, 3, 4, 14, 20, 40}

Messages ==
  INSTANCE MCMessages WITH
    MaxString <- 4000, MaxName <- 2, KeyLength <- 2, SignatureLength <- 3, Radix <- 4
Exchange ==
  INSTANCE MCKex WITH
    MaxString <- 4000, MaxName <- 2, KeyLength <- 2, SignatureLength <- 3, Radix <- 4, HashLength <- 2
Identification == INSTANCE MCIdentification WITH MaximumLineLength <- 8

Machines == {"connect", "buffer", "frames", "cipher", "hosts"}
Operators == {"messages", "exchange", "identification"}

allVars == <<vars, part, case, bufferVars, frameVars, cipherVars, hostVars>>

(* A machine that this behaviour is not about is in one of its initial states. *)
TransportInit ==
  /\ part \in Machines \cup Operators /\ case = <<>>
  /\ Init /\ (part # "connect" => tcp.runtime = "node" /\ server.announced = "nothing")
  /\ BufferInit /\ (part # "buffer" => need = 1)
  /\ FramesInit /\ (part # "frames" => lengths = <<>>)
  /\ CipherInit
  /\ (part # "hosts" => check = NoFile) /\ HostsInit

Machine ==
  \/ part = "connect" /\ Next /\ UNCHANGED <<bufferVars, frameVars, cipherVars, hostVars>>
  \/ part = "buffer" /\ BufferNext /\ UNCHANGED <<vars, frameVars, cipherVars, hostVars>>
  \/ part = "frames" /\ Receive /\ UNCHANGED <<vars, bufferVars, cipherVars, hostVars>>
  \/ part = "cipher" /\ CipherNext /\ UNCHANGED <<vars, bufferVars, frameVars, hostVars>>
  \/ part = "hosts" /\ HostsNext /\ UNCHANGED <<vars, bufferVars, frameVars, cipherVars>>

(* A message is chosen before its values. *)
Case ==
  \/ /\ part = "messages" /\ case = <<>>
     /\ \E name \in DOMAIN Messages!Protocols : \E m \in Messages!Protocols[name] : case' = <<name, m>>
  \/ /\ part = "messages" /\ Len(case) = 2
     /\ \E v \in Messages!Cases(case[2]) : case' = Append(case, v)
  \/ part = "exchange" /\ case = <<>> /\ \E x \in Exchange!Exchanges : case' = <<x>>
  \/ /\ part = "identification" /\ case = <<>>
     /\ \E p \in Identification!Preambles, b \in Identification!Beginnings : case' = <<p, b>>

TransportNext ==
  \/ Machine /\ UNCHANGED <<part, case>>
  \/ Case /\ UNCHANGED <<vars, part, bufferVars, frameVars, cipherVars, hostVars>>

TransportSpec == TransportInit /\ [][TransportNext]_allVars /\ WF_vars(Loop) /\ WF_vars(NodeStreams)

(***************************************************************************)
(* The properties of the operators; those of the machines are in theirs.    *)
(***************************************************************************)
(* Each message is read as it was written, and by its own parser only; no   *)
(* truncated or overlong one is read; and what is read can be written again *)
(* and read alike, unless a text of it starts with a byte order mark.       *)
(* An identification line is the same for any chunks (primitives.ts,        *)
(* connection.ts, transport.ts, auth.ts, kex.ts, sftp.ts, identification.ts). *)
Understood ==
  /\ part = "messages" /\ Len(case) = 3 => Messages!MessageUnderstood(case[1], case[2], case[3])
  /\ part = "identification" =>
       IF case = <<>> THEN \A fields \in Identification!Identifications : Identification!Sendable(fields)
       ELSE \A s \in Identification!StreamsAfter(case[1], case[2]) : Identification!LineKept(s)

(* A key exchange ends with the same keys on both sides, or not at all      *)
(* (kex.ts and cipher.ts:162-177).                                          *)
KexAgrees ==
  part = "exchange" =>
    IF case = <<>> THEN \A secret \in Exchange!Secrets : Exchange!Expands(secret)
    ELSE Exchange!Agreed(case[1])

(* The shared secret is hashed in network byte order (kex.ts:242).          *)
NetworkOrder == part = "exchange" /\ case # <<>> => Exchange!NetworkOrder(case[1])
=============================================================================
