--------------------------- MODULE Connect_proofs ---------------------------
(***************************************************************************)
(* The safety of connect() for any runtime: what it leaves behind when it   *)
(* rejects, whom it tells its keys to, and how its script and the server's  *)
(* packets stay in step.                                                    *)
(***************************************************************************)
EXTENDS Connect, TLAPS, FiniteSetTheorems

\* The packets of a server that breaks no rule, and where its NEWKEYS is.
Guess == IF server.announced = "wrongGuess" THEN 1 ELSE 0
Keys == 4 + Guess
Named(i) ==
  CASE i = 1 -> {"ID"}
    [] i = 2 -> {"KEXINIT"}
    [] i = 3 /\ Guess = 1 -> {"GUESS"}
    [] i = Keys - 1 -> {"ECDH_REPLY"}
    [] i = Keys -> {"NEWKEYS"}
    [] i = Keys + 1 -> {"SERVICE_ACCEPT"}
    [] OTHER -> {"USERAUTH_SUCCESS", "USERAUTH_FAILURE"}

ReadSteps == {2, 4, 5, 8, 13, 16, 19}
WriteSteps == {1, 3, 7, 11, 15, 18}
ComputeSteps == {6, 9, 12, 14, 17}

\* Packets of the server taken, and packets of the client written, before a step.
TakenBefore(step) ==
  CASE step <= 2 -> 0
    [] step \in {3, 4} -> 1
    [] step = 5 -> 2
    [] step \in 6 .. 8 -> 2 + Guess
    [] step \in 9 .. 13 -> 3 + Guess
    [] step \in 14 .. 16 -> 4 + Guess
    [] OTHER -> 5 + Guess
WrittenBefore(step) ==
  CASE step <= 1 -> 0
    [] step \in {2, 3} -> 1
    [] step \in 4 .. 7 -> 2
    [] step \in 8 .. 11 -> 3
    [] step \in 12 .. 15 -> 4
    [] step \in 16 .. 18 -> 5
    [] OTHER -> 6
WrittenAs(j) ==
  CASE j = 1 -> "ID"
    [] j = 2 -> "KEXINIT"
    [] j = 3 -> "ECDH_INIT"
    [] j = 4 -> "NEWKEYS"
    [] j = 5 -> "SERVICE_REQUEST"
    [] OTHER -> "USERAUTH_REQUEST"

\* The packets of the script before the server sent something aside, and those
\* that a client may come to take.
Clean == IF server.aside = 0 THEN Len(server.sent) ELSE server.aside - 1
Known == IF server.aside = 0 THEN Len(server.sent) ELSE server.aside

Counting(on, n) == IF on THEN [on |-> TRUE, count |-> n] ELSE Plain

What == {"none", "ID", "KEXINIT", "GUESS", "ECDH_INIT", "ECDH_REPLY", "NEWKEYS", "SERVICE_REQUEST",
         "SERVICE_ACCEPT", "USERAUTH_REQUEST", "USERAUTH_SUCCESS", "USERAUTH_FAILURE", "OTHER",
         "ASIDE"}
Reason == {"none", "aborted", "locked", "write", "ended", "cipher", "refused", "unexpected",
           "signature", "hostVerification"}
PacketType == [what : What, on : BOOLEAN, count : Nat]
Cipher == [on : BOOLEAN, count : Nat]

Sockets == {"none", "connecting", "open", "closed"}
Tcps == [runtime : Runtimes, at : {"idle", "opening", "resolved", "rejected"}]
Signals == [aborted : BOOLEAN, late : BOOLEAN]
Calls == [step : Nat, waits : BOOLEAN, packet : What, listener : BOOLEAN,
          result : {"idle", "pending", "ending", "returned", "rejected"}, reason : Reason]
Ios == [shutdown : {"no", "cancel", "abort", "close", "done"}, locks : {{}, {"reader", "writer"}},
        buffer : Seq(PacketType), writing : Seq(PacketType), outbound : Cipher, inbound : Cipher]
Servers == [announced : {"nothing", "rightGuess", "wrongGuess"}, got : Seq(PacketType),
            sent : Seq(PacketType), aside : Nat, fault : {"none", "message", "signature", "mac"}]
Types ==
  /\ socket \in Sockets /\ tcp \in Tcps /\ signal \in Signals /\ call \in Calls
  /\ io \in Ios /\ server \in Servers /\ wire \in Seq(PacketType)
  /\ call.step <= 19

\* The call, its socket, its locks and the signal.
Life ==
  /\ call.result = "idle" =>
       /\ call.step = 0 /\ io.shutdown = "no" /\ io.locks = {} /\ io.buffer = <<>>
       /\ io.outbound = Plain /\ io.inbound = Plain
  /\ call.result # "pending" => ~call.listener /\ ~call.waits /\ io.writing = <<>>
  /\ call.result # "idle" => tcp.at = "resolved"
  /\ tcp.at = "resolved" => socket \in {"open", "closed"}
  /\ call.result = "pending" => call.step \in 1 .. 19 /\ call.listener
  /\ call.result = "ending" => io.shutdown # "no" /\ call.reason # "locked"
  /\ call.result \in {"pending", "ending"} /\ io.shutdown # "done" => io.locks # {}
  /\ io.shutdown \in {"close", "done"} => socket = "closed" /\ io.writing = <<>>
  /\ io.shutdown = "done" => io.locks = {}
  /\ call.result \in {"idle", "pending", "returned"} => call.reason = None
  /\ call.result = "rejected" =>
       IF call.reason = "locked" THEN io.shutdown = "no" /\ io.locks = {} ELSE io.shutdown = "done"
  /\ signal.late => signal.aborted

\* What the client has written, and under which cipher.
Writes ==
  /\ Len(server.got) = WrittenBefore(call.step)
  /\ \A j \in 1 .. Len(server.got) :
       server.got[j] = Packet(WrittenAs(j), Counting(j > 4, j - 5))
  /\ call.result = "pending" =>
       LET n == Len(server.got) + Len(io.writing) IN
       /\ io.outbound = Counting(call.step > 12, n - 4)
       /\ call.step \in WriteSteps => (call.waits <=> io.writing # <<>>)
       /\ call.waits => call.step \in WriteSteps \cup ReadSteps
  /\ io.writing # <<>> =>
       /\ call.step \in WriteSteps
       /\ LET n == Len(server.got) + 1 IN
          io.writing = <<Packet(WrittenAs(n), Counting(n > 4, n - 5))>>

\* What the server has sent.
Sends ==
  /\ Clean <= Keys + 2
  /\ server.aside # 0 =>
       /\ server.aside \in 2 .. Keys + 2 /\ server.aside <= Len(server.sent)
       /\ server.sent[server.aside].what = "ASIDE"
       /\ Guess = 1 => server.aside # 3
  /\ \A i \in 1 .. Known :
       LET packet == server.sent[i] IN
       /\ packet.on <=> i > Keys
       /\ Restarts \/ i <= Keys => packet.count = IF i > Keys THEN i - Keys - 1 ELSE 0
  /\ \A i \in 1 .. Clean :
       \/ server.sent[i].what \in Named(i)
       \/ /\ server.aside = 0 /\ i = Len(server.sent) /\ server.fault # None
          /\ server.sent[i].what = "OTHER"
  /\ server.fault = "signature" =>
       IF server.aside = 0 THEN Len(server.sent) = Keys - 1 ELSE server.aside < Keys
  /\ Clean >= Keys - 1 => Len(server.got) >= 3
  /\ Clean = Keys + 1 => Len(server.got) >= 5
  /\ Clean = Keys + 2 => Len(server.got) = 6
  /\ Restarts => server.fault # "mac"

\* What the client has taken of it.
Taking == call.step \in ReadSteps /\ call.waits
Consumed == TakenBefore(call.step) + IF Taking THEN 1 ELSE 0
Misread ==
  /\ Restarts /\ call.reason = "cipher" => server.fault # None
  /\ Restarts /\ call.reason = "unexpected" => server.fault # None \/ call.packet = "ASIDE"
Reads ==
  /\ Len(server.sent) >= Consumed
  /\ server.aside # 0 => TakenBefore(call.step) < server.aside
  /\ call.result \in {"idle", "pending"} =>
       /\ Len(server.sent) = Consumed + Len(io.buffer) + Len(wire)
       /\ \A i \in 1 .. Len(io.buffer) : io.buffer[i] = server.sent[Consumed + i]
       /\ \A i \in 1 .. Len(wire) : wire[i] = server.sent[Consumed + Len(io.buffer) + i]
  /\ call.result = "pending" =>
       /\ io.inbound = Counting(call.step > 14, Consumed - Keys)
       /\ Taking => call.packet = server.sent[Consumed].what /\ (call.step = 5 => server.announced = "wrongGuess")
  /\ call.step > 9 => server.fault # "signature"
  /\ Misread

\* A shutdown under a call that goes on was an abort before the last packet came.
Late ==
  /\ call.result = "pending" /\ io.shutdown # "no" /\ ~signal.late =>
       server.aside # 0 \/ Consumed + Len(io.buffer) < Keys + 2
  /\ call.result \in {"pending", "returned"} /\ io.shutdown # "no" => signal.aborted
  /\ DeadClient

IInv == Types /\ Life /\ Writes /\ Sends /\ Reads /\ Late
-----------------------------------------------------------------------------
(* The script.                                                             *)

LEMMA ScriptRead ==
  /\ LastStep = 19 /\ DOMAIN Script = 1 .. 19
  /\ \A i \in 1 .. 19 :
       /\ Script[i].do = "read" <=> i \in ReadSteps
       /\ Script[i].do = "write" <=> i \in WriteSteps
       /\ Script[i].do = "compute" <=> i \in ComputeSteps
       /\ Script[i].do = "ask" <=> i = 10
  /\ \A i \in WriteSteps : Script[i].what = WrittenAs(WrittenBefore(i) + 1)
  /\ Script[2].what = "ID" /\ Script[4].what = "KEXINIT" /\ Script[5].what = "GUESS"
  /\ Script[8].what = "ECDH_REPLY" /\ Script[13].what = "NEWKEYS"
  /\ Script[16].what = "SERVICE_ACCEPT" /\ Script[19].what = "USERAUTH_SUCCESS"
  /\ Script[9].what = "signature" /\ Script[12].what = "outboundCipher"
  /\ Script[14].what = "inboundCipher"
  /\ Script[6].what = "keyPair" /\ Script[17].what = "userSignature"
  BY DEF Script, LastStep, Step, ReadSteps, WriteSteps, ComputeSteps, WrittenAs, WrittenBefore

LEMMA Numbers == Number("read", "GUESS") = 5 /\ Number("ask", "hostVerifier") = 10
<1>1. \A i \in DOMAIN Script : Script[i] = Step("read", "GUESS") <=> i = 5
  BY DEF Script, Step
<1>2. \A i \in DOMAIN Script : Script[i] = Step("ask", "hostVerifier") <=> i = 10
  BY DEF Script, Step
<1>3. 5 \in DOMAIN Script /\ 10 \in DOMAIN Script
  BY ScriptRead
<1> QED
  BY <1>1, <1>2, <1>3 DEF Number

LEMMA CountedIs ==
  ASSUME NEW n \in Int
  PROVE  Counted([on |-> TRUE, count |-> n]) = [on |-> TRUE, count |-> n + 1] /\ Counted(Plain) = Plain
<1> DEFINE on == [on |-> TRUE, count |-> n]
<1>1. Counted(on) = [on EXCEPT !.count = n + 1]
  BY DEF Counted
<1>2. Counted(Plain) = Plain
  BY DEF Counted, Plain
<1> QED
  BY <1>1, <1>2
-----------------------------------------------------------------------------
(* The actions.                                                            *)

LEMMA InitGood == Init => IInv
<1> SUFFICES ASSUME Init PROVE IInv
  OBVIOUS
<1> USE ConnectAssumption DEF Init, None, Plain, Runtime
<1>1. Types
  <2>1. socket \in Sockets /\ tcp \in Tcps /\ signal \in Signals
    BY DEF Sockets, Tcps, Signals
  <2>2. call \in Calls
    BY DEF Calls, What, Reason
  <2>3. Plain \in Cipher
    BY DEF Cipher
  <2>4. io \in Ios
    BY <2>3 DEF Ios
  <2>5. server \in Servers /\ wire \in Seq(PacketType)
    BY DEF Servers
  <2> QED
    BY <2>1, <2>2, <2>4, <2>5 DEF Types
<1>2. Life
  BY DEF Life
<1>3. Writes
  BY DEF Writes, WrittenBefore
<1>4. Sends
  BY DEF Sends, Clean, Known, Keys, Guess
<1>5. Consumed = 0
  BY DEF Consumed, TakenBefore, Taking, ReadSteps
<1>6. Reads
  BY <1>5 DEF Reads, Misread, TakenBefore
<1>7. Late
  BY DEF Late, DeadClient
<1> QED
  BY <1>1, <1>2, <1>3, <1>4, <1>6, <1>7 DEF IInv

LEMMA TcpKeeps == ASSUME IInv, Tcp PROVE IInv'
<1> USE DEF IInv, Tcp
<1>a. UNCHANGED <<signal, call, io, server, wire>>
  BY DEF OpenTcp, SocketOpens, Opened, SocketFails
<1>1. Types'
  <2>1. socket' \in Sockets /\ tcp' \in Tcps
    BY DEF Types, Sockets, Tcps, OpenTcp, SocketOpens, Opened, SocketFails
  <2> QED
    BY <1>a, <2>1 DEF Types
<1>2. Life'
  BY <1>a DEF Types, Tcps, Sockets, Life, OpenTcp, SocketOpens, Opened, SocketFails
<1>3. Writes'
  BY <1>a DEF Writes
<1>4. Sends'
  BY <1>a DEF Sends, Clean, Known, Keys, Guess, Named
<1>5. Reads'
  <2>1. Consumed' = Consumed /\ Keys' = Keys /\ Taking' = Taking
    BY <1>a DEF Consumed, Taking, TakenBefore, Guess, Keys
  <2> QED
    BY <1>a, <2>1 DEF Reads, Misread, TakenBefore, Guess
<1>6. Late'
  BY <1>a DEF Late, DeadClient, Consumed, Taking, TakenBefore, Guess, Keys
<1> QED
  BY <1>1, <1>2, <1>3, <1>4, <1>5, <1>6

LEMMA ShutdownKeeps == ASSUME IInv, Shutdown PROVE IInv'
<1> USE DEF IInv, Shutdown
<1>a. /\ UNCHANGED <<tcp, signal, call, server, wire>>
      /\ io' = [io EXCEPT !.shutdown = io'.shutdown, !.locks = io'.locks]
      /\ io.shutdown # "no"
  BY DEF CancelSettles, AbortSettles, CloseSettles, Types, Ios
<1>b. io'.buffer = io.buffer /\ io'.writing = io.writing /\ io'.outbound = io.outbound /\ io'.inbound = io.inbound
  BY <1>a DEF Types, Ios
<1>1. Types'
  <2>1. io' \in Ios /\ socket' \in Sockets
    BY DEF Types, Ios, Sockets, CancelSettles, AbortSettles, CloseSettles
  <2> QED
    BY <1>a, <2>1 DEF Types
<1>2. Life'
  BY <1>a DEF Types, Ios, Life, CancelSettles, AbortSettles, CloseSettles
<1>3. Writes'
  BY <1>a, <1>b DEF Writes
<1>4. Sends'
  BY <1>a DEF Sends, Clean, Known, Keys, Guess, Named
<1>5. Reads'
  <2>1. Consumed' = Consumed /\ Keys' = Keys /\ Taking' = Taking
    BY <1>a DEF Consumed, Taking, TakenBefore, Guess, Keys
  <2> QED
    BY <1>a, <1>b, <2>1 DEF Reads, Misread, TakenBefore, Guess
<1>6. Late'
  BY <1>a, <1>b DEF Late, DeadClient, Consumed, Taking, TakenBefore, Guess, Keys
<1> QED
  BY <1>1, <1>2, <1>3, <1>4, <1>5, <1>6

LEMMA FailKeeps ==
  ASSUME IInv, NEW reason \in Reason, Fail(reason), call.result = "pending", io.writing = <<>>,
         reason # "locked", Restarts /\ reason = "cipher" => server.fault # None,
         Restarts /\ reason = "unexpected" => server.fault # None \/ call.packet = "ASIDE"
  PROVE  IInv'
<1> USE DEF IInv, Fail, Caught
<1>a. /\ UNCHANGED <<tcp, signal, server, wire>>
      /\ call'.result = "ending" /\ call'.step = call.step /\ call'.waits = FALSE
      /\ call'.listener = FALSE /\ call'.reason = reason /\ call'.packet = call.packet
      /\ io' = [io EXCEPT !.shutdown = io'.shutdown] /\ io'.shutdown # "no"
      /\ io'.shutdown = IF io.shutdown = "no" THEN "cancel" ELSE io.shutdown
      /\ socket' = socket \/ socket' = "closed"
  BY DEF Types, Calls, Ios, ShutDown, Destroyed
<1>1. Types'
  <2>1. call' \in Calls
    BY DEF Types, Calls, Reason
  <2>2. io' \in Ios
    BY <1>a DEF Types, Ios, ShutDown
  <2> QED
    BY <1>a, <2>1, <2>2 DEF Types, Sockets
<1>2. Life'
  BY <1>a DEF Types, Ios, Calls, Life
<1>3. Writes'
  BY <1>a DEF Types, Ios, Calls, Writes
<1>4. Sends'
  BY <1>a DEF Sends, Clean, Known, Keys, Guess, Named
<1>5. Reads'
  <2>1. Consumed' <= Consumed /\ Consumed \in Nat /\ Consumed' \in Nat
    BY <1>a DEF Consumed, Taking, TakenBefore, Guess
  <2>2. Len(server.sent) \in Nat
    BY DEF Types, Servers
  <2>3. TakenBefore(call.step)' = TakenBefore(call.step)
    BY <1>a DEF TakenBefore, Guess
  <2>4. Misread'
    BY <1>a DEF Misread
  <2> QED
    BY <1>a, <2>1, <2>2, <2>3, <2>4 DEF Reads
<1>6. Late'
  BY <1>a DEF Late, DeadClient
<1> QED
  BY <1>1, <1>2, <1>3, <1>4, <1>5, <1>6

LEMMA ConnectKeeps == ASSUME IInv, Connect PROVE IInv'
<1> USE DEF IInv, Connect, None, Plain
<1> DEFINE locked == [io EXCEPT !.locks = {"reader", "writer"}]
<1>1. /\ call.result = "idle" /\ call.step = 0 /\ ~call.waits /\ ~call.listener /\ call.reason = None
      /\ io.shutdown = "no" /\ io.buffer = <<>> /\ io.writing = <<>> /\ tcp.at = "resolved"
      /\ io.locks = {} /\ socket \in {"open", "closed"}
      /\ io.outbound = Plain /\ io.inbound = Plain
  BY DEF Life
<1>2. UNCHANGED <<tcp, signal, server, wire>>
  OBVIOUS
<1>3. /\ io' \in Ios /\ socket' \in {"open", "closed"} /\ io'.shutdown \in {"no", "cancel"}
      /\ io'.buffer = <<>> /\ io'.writing = <<>> /\ io'.outbound = Plain /\ io'.inbound = Plain
  BY <1>1 DEF Types, Ios, ShutDown, LockFailed, Destroyed
<1>4. /\ call' \in Calls /\ ~call'.waits /\ call'.step \in {0, 1}
      /\ \/ /\ call'.result = "pending" /\ call'.step = 1 /\ call'.listener /\ call'.reason = None
            /\ io'.shutdown = "no" /\ io'.locks # {}
         \/ /\ call'.result = "ending" /\ ~call'.listener /\ call'.reason = "aborted"
            /\ io'.shutdown = "cancel" /\ io'.locks # {}
         \/ /\ call'.result = "rejected" /\ ~call'.listener /\ call'.reason = "locked"
            /\ io'.shutdown = "no" /\ io'.locks = {}
  <2>1. CASE io' = locked /\ call' = [call EXCEPT !.step = 1, !.result = "pending", !.listener = TRUE]
    <3>1. io'.locks # {} /\ io'.shutdown = "no"
      BY <1>1, <2>1 DEF Types, Ios
    <3>2. call' \in Calls
      BY <2>1 DEF Types, Calls
    <3>3. call'.result = "pending" /\ call'.step = 1 
      BY <2>1 DEF Types, Calls
    <3>4. call'.listener
      BY <2>1 DEF Types, Calls
    <3>5. call'.reason = None /\ ~call'.waits
      BY <1>1, <2>1 DEF Types, Calls
    <3> QED
      BY <3>1, <3>2, <3>3, <3>4, <3>5
  <2>2. CASE io' = ShutDown(locked) /\ call' = Caught([call EXCEPT !.step = 1], "aborted")
    <3>1. io'.locks # {} /\ io'.shutdown = "cancel"
      BY <1>1, <2>2 DEF Types, Ios, ShutDown
    <3> QED
      BY <1>1, <2>2, <3>1 DEF Types, Calls, Reason, Caught
  <2>3. CASE io' = io /\ call' = [call EXCEPT !.result = "rejected", !.reason = "locked"]
    BY <1>1, <2>3 DEF Types, Calls, Reason
  <2> QED
    BY <2>1, <2>2, <2>3 DEF LockFailed
<1> HIDE DEF Connect
<1>5. Types'
  BY <1>2, <1>3, <1>4 DEF Types, Sockets
<1>6. Life'
  BY <1>1, <1>2, <1>3, <1>4 DEF Types, Life
<1>7. Writes'
  <2>1. Len(server.got) = 0
    BY <1>1 DEF Writes, WrittenBefore
  <2>2. call'.step \in WriteSteps \/ call'.result # "pending"
    BY <1>4 DEF WriteSteps
  <2>3. WrittenBefore(call'.step) = 0 /\ ~(call'.step > 12)
    BY <1>4 DEF WrittenBefore
  <2>4. Len(server'.got) = 0 /\ Len(io'.writing) = 0 /\ Len(server'.got) + Len(io'.writing) = 0
    BY <1>2, <1>3, <2>1
  <2>5. \A j \in 1 .. Len(server'.got) : FALSE
    BY <2>4
  <2>6. (Len(server'.got) + Len(io'.writing)) - 4 \in Int
    BY <2>4
  <2>7. io'.outbound = Counting(call'.step > 12, (Len(server'.got) + Len(io'.writing)) - 4)
    BY <1>3, <2>3 DEF Counting
  <2>8. io'.writing = <<>> /\ ~call'.waits
    BY <1>3, <1>4
  <2>9. Len(server'.got) = WrittenBefore(call'.step)
    BY <2>3, <2>4
  <2> QED
    BY <2>2, <2>4, <2>5, <2>7, <2>8, <2>9 DEF Writes
<1>8. Sends'
  BY <1>2 DEF Sends, Clean, Known, Keys, Guess, Named
<1>9. Reads'
  <2>1. Consumed = 0 /\ Consumed' = 0 /\ ~Taking' /\ ~(call'.step > 14) /\ ~(call'.step > 9)
    BY <1>1, <1>4 DEF Consumed, Taking, TakenBefore, ReadSteps
  <2>2. Len(io.buffer) = 0 /\ Len(io'.buffer) = 0 /\ io'.buffer = io.buffer
    BY <1>1, <1>3
  <2>3. call'.reason \notin {"cipher", "unexpected"}
    BY <1>4 DEF None
  <2>4. io'.inbound = Counting(call'.step > 14, Consumed' - Keys')
    BY <1>3, <2>1 DEF Counting
  <2>5. UNCHANGED <<server, wire>> /\ Len(server'.sent) >= Consumed'
    BY <1>2, <2>1 DEF Reads
  <2>6. /\ Len(server'.sent) = Consumed' + Len(io'.buffer) + Len(wire')
        /\ \A i \in 1 .. Len(io'.buffer) : io'.buffer[i] = server'.sent[Consumed' + i]
        /\ \A i \in 1 .. Len(wire') : wire'[i] = server'.sent[Consumed' + Len(io'.buffer) + i]
    BY <1>1, <2>1, <2>2, <2>5 DEF Reads
  <2>7. (server.aside # 0 => TakenBefore(call.step) < server.aside)' /\ Misread'
    <3>1. TakenBefore(call.step) = 0 /\ TakenBefore(call.step)' = 0
      BY <1>1, <1>4 DEF TakenBefore
    <3> QED
      BY <2>3, <2>5, <3>1 DEF Reads, Misread
  <2> QED
    BY <2>1, <2>3, <2>4, <2>5, <2>6, <2>7 DEF Reads
<1>10. Late'
  BY <1>2, <1>4 DEF Late, DeadClient
<1> QED
  BY <1>5, <1>6, <1>7, <1>8, <1>9, <1>10

LEMMA WriteKeeps == ASSUME IInv, Write PROVE IInv'
<1> USE DEF IInv
<1>a. call.result = "pending" /\ call.step \in WriteSteps /\ ~call.waits /\ io.writing = <<>>
  BY ScriptRead DEF Write, At, Writes, Now, Types, Calls
<1>1. CASE RefusesWrites
  <2>1. Fail("write") /\ "write" \in Reason
    BY <1>1 DEF Write, Reason
  <2> QED
    BY <1>a, <2>1, FailKeeps
<1>2. CASE ~RefusesWrites
  <2> DEFINE n == Len(server.got) + 1
             packet == Packet(WrittenAs(n), Counting(n > 4, n - 5))
  <2>a. Now.what = WrittenAs(n)
    BY <1>a, ScriptRead, SMTT(60) DEF Now, Writes
  <2>b. n \in 1 .. 6 /\ (n > 4 <=> call.step > 12)
    BY <1>a DEF Writes, WrittenBefore, WriteSteps
  <2>c. io.outbound = Counting(n > 4, n - 5)
    <3>1. io.outbound = Counting(call.step > 12, (n - 1) - 4) /\ (n - 1) - 4 = n - 5
      BY <1>a, <2>b DEF Writes
    <3> QED
      BY <2>b, <3>1 DEF Counting
  <2>d. Packet(Now.what, io.outbound) = packet
    BY <2>a, <2>c
  <2>e. /\ UNCHANGED <<socket, tcp, signal, server, wire>>
        /\ call' = [call EXCEPT !.waits = TRUE]
        /\ io' = [io EXCEPT !.writing = <<packet>>, !.outbound = Counted(@)]
    BY <1>2, <2>d DEF Write
  <2>f. ~Taking /\ ~Taking' /\ Consumed' = Consumed
    BY <1>a, <2>e DEF Consumed, Taking, TakenBefore, Guess, Types, Calls, ReadSteps, WriteSteps
  <2>g. /\ packet \in PacketType /\ Len(<<packet>>) = 1 /\ <<packet>> \in Seq(PacketType)
        /\ <<packet>> # <<>>
    <3>1. WrittenAs(n) \in What
      BY <2>b DEF WrittenAs, What
    <3>2. packet \in PacketType
      BY <2>b, <3>1 DEF PacketType, Packet, Counting, Plain
    <3> HIDE DEF packet
    <3> QED
      BY <3>2
  <2>h. io.outbound \in Cipher /\ Counted(io.outbound) \in Cipher
    <3>1. io.outbound \in Cipher
      BY DEF Types, Ios
    <3> QED
      BY <3>1 DEF Cipher, Counted
  <2> HIDE DEF packet
  <2>1. Types'
    <3>1. call' \in Calls
      BY <2>e DEF Types, Calls
    <3>2. io' \in Ios
      BY <2>e, <2>g, <2>h DEF Types, Ios
    <3> QED
      BY <2>e, <3>1, <3>2 DEF Types
  <2>2. Life'
    BY <2>e, <1>a, <1>2 DEF Types, Calls, Ios, Life, RefusesWrites
  <2>3. Writes'
    <3>1. io'.outbound = Counting(call.step > 12, n - 4)
      <4>1. io'.outbound = Counted(io.outbound)
        BY <2>e DEF Types, Ios
      <4>2. CASE n > 4
        <5>1. Counted([on |-> TRUE, count |-> n - 5]) = [on |-> TRUE, count |-> n - 4]
          BY <2>b, CountedIs
        <5> QED
          BY <2>b, <2>c, <4>1, <4>2, <5>1 DEF Counting
      <4>3. CASE ~(n > 4)
        BY <2>b, <2>c, <4>1, <4>3, CountedIs DEF Counting
      <4> QED
        BY <4>2, <4>3
    <3> QED
      BY <3>1, <2>e, <2>g, <1>a DEF Writes, Types, Calls, Ios, packet
  <2>4. Sends'
    BY <2>e DEF Sends, Clean, Known, Keys, Guess, Named
  <2>5. Reads'
    BY <2>e, <2>f DEF Types, Ios, Calls, Reads, Misread, TakenBefore, Guess, Keys
  <2>6. Late'
    BY <2>e, <2>f DEF Late, DeadClient, Types, Ios, Calls, Keys, Guess
  <2> QED
    BY <2>1, <2>2, <2>3, <2>4, <2>5, <2>6
<1> QED
  BY <1>1, <1>2

LEMMA Reading ==
  ASSUME IInv, At("read") PROVE call.result = "pending" /\ call.step \in ReadSteps /\ io.writing = <<>>
<1>1. call.result = "pending" /\ call.step \in ReadSteps
  BY ScriptRead DEF At, Now, Types, Calls, IInv
<1> QED
  BY <1>1, SMTT(60) DEF IInv, Writes, ReadSteps, WriteSteps

\* Steps and counts of the two scripts, as numbers.
LEMMA Counts ==
  ASSUME NEW step \in Nat, step <= 19
  PROVE  /\ TakenBefore(step) \in Nat /\ WrittenBefore(step) \in Nat
         /\ Guess \in {0, 1} /\ Keys = 4 + Guess
         /\ step = 5 /\ Guess = 0 => TakenBefore(step + 1) = TakenBefore(step)
         /\ step \in ReadSteps /\ step # 19 /\ ~(step = 5 /\ Guess = 0) =>
              TakenBefore(step + 1) = TakenBefore(step) + 1
         /\ step \notin ReadSteps => TakenBefore(step + 1) = TakenBefore(step)
         /\ step \in WriteSteps => WrittenBefore(step + 1) = WrittenBefore(step) + 1
         /\ step \notin WriteSteps => WrittenBefore(step + 1) = WrittenBefore(step)
  BY DEF TakenBefore, WrittenBefore, Guess, Keys, ReadSteps, WriteSteps

LEMMA Bounds ==
  ASSUME NEW step \in Nat
  PROVE  /\ TakenBefore(step) \in Nat /\ WrittenBefore(step) \in Nat /\ WrittenBefore(step) <= 6
         /\ step <= 18 => WrittenBefore(step) <= 5
<1>1. TakenBefore(step) \in Nat
  BY DEF TakenBefore, Guess
<1>2. WrittenBefore(step) \in Nat /\ WrittenBefore(step) <= 6
  BY DEF WrittenBefore
<1>3. step <= 18 => WrittenBefore(step) <= 5
  BY DEF WrittenBefore
<1> QED
  BY <1>1, <1>2, <1>3

LEMMA ReadFailsKeeps == ASSUME IInv, ReadFails PROVE IInv'
<1>1. Fail("ended") /\ "ended" \in Reason
  BY DEF ReadFails, Reason
<1> QED
  BY <1>1, Reading, FailKeeps DEF ReadFails

LEMMA ArriveKeeps == ASSUME IInv, Arrive PROVE IInv'
<1> USE DEF IInv
<1>1. call.result = "pending" /\ call.step \in ReadSteps /\ ~call.waits /\ io.buffer = <<>>
      /\ io.shutdown = "no"
  BY Reading DEF Arrive, Readable
<1>2. PICK n \in 1 .. Len(wire) :
        /\ io' = [io EXCEPT !.buffer = SubSeq(wire, 1, n)]
        /\ wire' = SubSeq(wire, n + 1, Len(wire))
  BY DEF Arrive
<1>3. UNCHANGED <<socket, tcp, signal, call, server>>
  BY DEF Arrive
<1>4. /\ wire \in Seq(PacketType) /\ n \in Nat /\ n <= Len(wire)
      /\ SubSeq(wire, 1, n) \in Seq(PacketType) /\ wire' \in Seq(PacketType)
      /\ Len(SubSeq(wire, 1, n)) = n /\ Len(wire') = Len(wire) - n
      /\ \A i \in 1 .. n : SubSeq(wire, 1, n)[i] = wire[i]
      /\ \A i \in 1 .. Len(wire) - n : wire'[i] = wire[n + i]
  BY <1>2 DEF Types
<1>5. /\ io'.buffer = SubSeq(wire, 1, n) /\ io'.writing = io.writing /\ io'.shutdown = io.shutdown
      /\ io'.locks = io.locks /\ io'.outbound = io.outbound /\ io'.inbound = io.inbound
  BY <1>2 DEF Types, Ios
<1>6. Types'
  <2>1. io' \in Ios
    BY <1>2, <1>4 DEF Types, Ios
  <2> QED
    BY <2>1, <1>3, <1>4 DEF Types
<1>7. Life'
  BY <1>1, <1>3, <1>5 DEF Life
<1>8. Writes'
  BY <1>3, <1>5 DEF Writes
<1>9. Sends'
  BY <1>3 DEF Sends, Clean, Known, Keys, Guess, Named
<1>10. Consumed' = Consumed /\ Taking' = Taking /\ Keys' = Keys /\ Consumed \in Nat
  BY <1>3, Counts DEF Consumed, Taking, TakenBefore, Guess, Keys, Types, Calls
<1>11. Reads'
  <2>1. Len(server.sent) = Consumed + Len(wire) /\ \A i \in 1 .. Len(wire) : wire[i] = server.sent[Consumed + i]
    BY <1>1, <1>4, <1>10 DEF Reads
  <2>2. Len(server.sent) = Consumed + n + Len(wire')
    BY <1>4, <1>10, <2>1
  <2>3. ASSUME NEW i \in 1 .. n PROVE io'.buffer[i] = server.sent[Consumed + i]
    <3>1. i \in 1 .. Len(wire)
      BY <1>4
    <3>2. io'.buffer[i] = wire[i]
      BY <1>4, <1>5
    <3> QED
      BY <2>1, <3>1, <3>2
  <2>4. \A i \in 1 .. Len(wire') : wire'[i] = server.sent[Consumed + n + i]
    <3> SUFFICES ASSUME NEW i \in 1 .. Len(wire') PROVE wire'[i] = server.sent[Consumed + n + i]
      OBVIOUS
    <3>1. n + i \in 1 .. Len(wire) /\ wire'[i] = wire[n + i]
      BY <1>4
    <3>2. wire[n + i] = server.sent[Consumed + (n + i)]
      BY <3>1, <2>1
    <3> QED
      BY <3>1, <3>2, <1>4, <1>10
  <2> QED
    BY <1>3, <1>4, <1>5, <1>10, <2>2, <2>3, <2>4 DEF Reads, Misread, TakenBefore, Guess
<1>12. Late'
  BY <1>1, <1>3, <1>5, <1>10 DEF Late, DeadClient
<1> QED
  BY <1>6, <1>7, <1>8, <1>9, <1>11, <1>12

\* A step that only moves the call on, and takes or writes no packet.
LEMMA GoesKeeps ==
  ASSUME IInv, call.result = "pending", call' = Goes(call), ~call.waits,
         call.step \notin WriteSteps, call.step \notin ReadSteps \/ (call.step = 5 /\ Guess = 0),
         UNCHANGED <<socket, tcp, signal, server, wire>>,
         io' \in Ios, io'.buffer = io.buffer, io'.writing = io.writing,
         io'.shutdown = io.shutdown, io'.locks = io.locks,
         call.step = 12 => io'.outbound = Keyed, call.step # 12 => io'.outbound = io.outbound,
         call.step = 14 => io'.inbound = Keyed, call.step # 14 => io'.inbound = io.inbound,
         call.step = 9 => server.fault # "signature"
  PROVE  IInv'
<1> USE DEF IInv
<1>1. /\ call.step \in Nat /\ call.step \in 1 .. 18 /\ call'.step = call.step + 1 /\ ~call'.waits
      /\ call'.result = "pending" /\ call'.listener = call.listener /\ call'.reason = call.reason
      /\ call'.packet = call.packet /\ call' \in Calls
  <2>1. call.step \in 1 .. 18 /\ call.step \in Nat /\ call.step + 1 \in Nat
    BY DEF Life, Types, Calls, ReadSteps
  <2>2. call' = [call EXCEPT !.step = call.step + 1, !.waits = FALSE]
    BY DEF Goes
  <2>3. call' \in Calls
    BY <2>1, <2>2 DEF Types, Calls
  <2>4. /\ call'.step = call.step + 1 /\ call'.result = call.result /\ call'.listener = call.listener
        /\ call'.reason = call.reason /\ call'.packet = call.packet
    BY <2>2 DEF Types, Calls
  <2>5. ~call'.waits
    BY <2>2 DEF Types, Calls
  <2> QED
    BY <2>1, <2>3, <2>4, <2>5
<1>2. /\ io'.buffer = io.buffer /\ io'.writing = io.writing /\ io'.shutdown = io.shutdown
      /\ io'.locks = io.locks /\ io.writing = <<>> /\ io' \in Ios
      /\ io'.outbound = IF call.step = 12 THEN Keyed ELSE io.outbound
      /\ io'.inbound = IF call.step = 14 THEN Keyed ELSE io.inbound
  <2> QED
    BY DEF Writes
<1>3. Types'
  BY <1>1, <1>2, SMTT(60) DEF Types
<1>4. Life'
  <2>1. call.listener /\ call'.listener /\ call'.step \in 1 .. 19
    BY <1>1, SMTT(60) DEF Life
  <2> QED
    BY <1>1, <1>2, <2>1 DEF Life
<1>5. Consumed' = Consumed /\ ~Taking /\ ~Taking' /\ Keys' = Keys /\ Guess' = Guess /\ Consumed \in Nat
  <2>1. TakenBefore(call.step + 1) = TakenBefore(call.step) /\ TakenBefore(call.step) \in Nat
    BY <1>1, Counts
  <2> QED
    BY <1>1, <2>1 DEF Consumed, Taking, TakenBefore, Guess, Keys
<1>6. Writes'
  <2>1. WrittenBefore(call'.step) = WrittenBefore(call.step)
    BY <1>1, Counts
  <2>2. Len(server.got) + Len(io.writing) = WrittenBefore(call.step) /\ WrittenBefore(call.step) \in Nat
    <3>1. Len(server.got) = WrittenBefore(call.step) /\ Len(io.writing) = 0
      BY <1>2 DEF Writes
    <3> QED
      BY <1>1, <3>1, Counts
  <2>3. io'.outbound = Counting(call'.step > 12, WrittenBefore(call.step) - 4)
    <3>1. CASE call.step = 12
      BY <1>1, <1>2, <3>1 DEF WrittenBefore, Keyed, Counting
    <3>2. CASE call.step # 12
      <4>1. io.outbound = Counting(call.step > 12, WrittenBefore(call.step) - 4)
        BY <2>2 DEF Writes
      <4> QED
        BY <1>1, <1>2, <3>2, <4>1 DEF Counting
    <3> QED
      BY <3>1, <3>2
  <2> QED
    BY <1>1, <1>2, <2>1, <2>2, <2>3 DEF Writes
<1>7. Sends'
  BY DEF Sends, Clean, Known, Keys, Guess, Named
<1>8. Reads'
  <2>1. io'.inbound = Counting(call'.step > 14, Consumed - Keys)
    <3>1. CASE call.step = 14
      <4>1. Consumed - Keys = 0
        BY <1>1, <1>5, <3>1 DEF Consumed, Taking, TakenBefore, Keys, Guess
      <4>2. io'.inbound = [on |-> TRUE, count |-> 0]
        BY <1>2, <3>1 DEF Keyed
      <4>3. call'.step > 14
        BY <1>1, <3>1
      <4> QED
        BY <4>1, <4>2, <4>3 DEF Counting
    <3>2. CASE call.step # 14
      <4>1. io.inbound = Counting(call.step > 14, Consumed - Keys)
        BY DEF Reads
      <4> QED
        BY <1>1, <1>2, <3>2, <4>1 DEF Counting
    <3> QED
      BY <3>1, <3>2
  <2>2. call'.step > 9 => server.fault # "signature"
    BY <1>1 DEF Reads
  <2> QED
    <3>1. TakenBefore(call.step)' = TakenBefore(call.step)
      BY <1>1, Counts DEF TakenBefore, Guess
    <3>2. Misread'
      BY <1>1 DEF Reads, Misread
    <3> QED
      BY <1>1, <1>2, <1>5, <2>1, <2>2, <3>1, <3>2 DEF Reads
<1>9. Late'
  BY <1>1, <1>2, <1>5 DEF Late, DeadClient
<1> QED
  BY <1>3, <1>4, <1>6, <1>7, <1>8, <1>9

LEMMA SkipKeeps == ASSUME IInv, Skip PROVE IInv'
<1>1. call.result = "pending" /\ call.step = 5 /\ ~call.waits /\ Guess = 0
  BY Reading, Numbers DEF Skip, SkipsStep, Guess
<1>2. io' = io /\ io' \in Ios
  BY DEF Skip, IInv, Types, Ios
<1> QED
  BY <1>1, <1>2, GoesKeeps DEF Skip, WriteSteps

LEMMA VerifiedKeeps == ASSUME IInv, Verified PROVE IInv'
<1>1. call.result = "pending" /\ call.step = 10 /\ ~call.waits /\ io.writing = <<>>
  <2>1. call.result = "pending" /\ call.step = 10
    BY ScriptRead DEF Verified, At, Now, IInv, Types, Calls
  <2> QED
    BY <2>1 DEF IInv, Writes, WriteSteps, ReadSteps
<1>2. CASE call' = Goes(call) /\ UNCHANGED <<socket, tcp, signal, io, server, wire>>
  <2>1. io' = io /\ io' \in Ios
    BY <1>2 DEF IInv, Types, Ios
  <2>2. call.step \notin WriteSteps /\ call.step \notin ReadSteps /\ call.step # 9
    BY <1>1 DEF WriteSteps, ReadSteps
  <2> QED
    BY <1>1, <1>2, <2>1, <2>2, GoesKeeps
<1>3. CASE Fail("hostVerification")
  BY <1>1, <1>3, FailKeeps DEF Reason
<1> QED
  BY <1>2, <1>3 DEF Verified

LEMMA ComputeKeeps == ASSUME IInv, Compute PROVE IInv'
<1>1. call.result = "pending" /\ call.step \in ComputeSteps /\ ~call.waits /\ io.writing = <<>>
  <2>1. call.result = "pending" /\ call.step \in ComputeSteps
    BY ScriptRead DEF Compute, At, Now, IInv, Types, Calls
  <2>2. call.step \notin WriteSteps \cup ReadSteps
    BY <2>1 DEF WriteSteps, ReadSteps, ComputeSteps
  <2> QED
    BY <2>1, <2>2 DEF IInv, Writes
<1>2. /\ Now.what = "signature" <=> call.step = 9
      /\ Now.what = "outboundCipher" <=> call.step = 12
      /\ Now.what = "inboundCipher" <=> call.step = 14
  BY <1>1, ScriptRead DEF Now, ComputeSteps
<1>3. CASE Now.what = "signature" /\ server.fault = "signature"
  BY <1>1, <1>3, FailKeeps DEF Compute, Reason
<1>4. CASE ~(Now.what = "signature" /\ server.fault = "signature")
  <2>1. call' = Goes(call) /\ UNCHANGED <<socket, tcp, signal, server, wire>>
    BY <1>4 DEF Compute
  <2>4. \/ call.step = 12 /\ io' = [io EXCEPT !.outbound = Keyed]
        \/ call.step = 14 /\ io' = [io EXCEPT !.inbound = Keyed]
        \/ call.step \notin {12, 14} /\ io' = io
    BY <1>1, <1>2, <1>4 DEF Compute
  <2>5. Keyed \in Cipher
    BY DEF Keyed, Cipher
  <2>6. /\ io' \in Ios /\ io'.buffer = io.buffer /\ io'.writing = io.writing
        /\ io'.shutdown = io.shutdown /\ io'.locks = io.locks
        /\ call.step = 12 => io'.outbound = Keyed
        /\ call.step # 12 => io'.outbound = io.outbound
        /\ call.step = 14 => io'.inbound = Keyed
        /\ call.step # 14 => io'.inbound = io.inbound
    BY <2>4, <2>5 DEF IInv, Types, Ios
  <2>2. call.step \notin WriteSteps /\ call.step \notin ReadSteps
    BY <1>1 DEF ComputeSteps, WriteSteps, ReadSteps
  <2>3. call.step = 9 => server.fault # "signature"
    BY <1>2, <1>4
  <2> QED
    BY <1>1, <2>1, <2>2, <2>3, <2>5, <2>6, GoesKeeps
<1> QED
  BY <1>3, <1>4

LEMMA RejectsKeeps == ASSUME IInv, Rejects PROVE IInv'
<1> USE DEF IInv
<1>1. /\ UNCHANGED <<socket, tcp, signal, io, server, wire>> /\ call.result = "ending"
      /\ io.shutdown = "done" /\ call' = [call EXCEPT !.result = "rejected"]
  BY DEF Rejects
<1>2. /\ call'.step = call.step /\ call'.waits = call.waits /\ call'.result = "rejected"
      /\ call'.listener = call.listener /\ call'.reason = call.reason /\ call' \in Calls
  BY <1>1 DEF Types, Calls
<1>3. Types'
  BY <1>1, <1>2 DEF Types
<1>4. Life'
  BY <1>1, <1>2 DEF Life
<1>5. Writes'
  BY <1>1, <1>2 DEF Writes
<1>6. Sends'
  BY <1>1 DEF Sends, Clean, Known, Keys, Guess, Named
<1>7. Consumed' = Consumed /\ Keys' = Keys
  BY <1>1, <1>2 DEF Consumed, Taking, TakenBefore, Guess, Keys
<1>8. Reads'
  BY <1>1, <1>2, <1>7 DEF Reads, Misread, TakenBefore, Guess
<1>9. Late'
  BY <1>1, <1>2 DEF Late, DeadClient
<1> QED
  BY <1>3, <1>4, <1>5, <1>6, <1>8, <1>9

LEMMA TakeKeeps == ASSUME IInv, Take PROVE IInv'
<1> USE DEF IInv
<1> DEFINE packet == Head(io.buffer)
<1>1. /\ call.result = "pending" /\ call.step \in ReadSteps /\ ~call.waits /\ io.buffer # <<>>
      /\ io.writing = <<>> /\ (call.step = 5 => server.announced = "wrongGuess") /\ call.step \in Nat
  BY Reading, Numbers DEF Take, SkipsStep, Types, Calls
<1>2. Consumed = TakenBefore(call.step) /\ Consumed \in Nat /\ ~Taking
  BY <1>1, Counts, SMTT(60) DEF Consumed, Taking, Types
<1>3. /\ packet = server.sent[Consumed + 1] /\ packet \in PacketType
      /\ Len(io.buffer) \in Nat /\ Len(io.buffer) >= 1 /\ Tail(io.buffer) \in Seq(PacketType)
      /\ Len(Tail(io.buffer)) = Len(io.buffer) - 1
      /\ \A i \in 1 .. Len(io.buffer) - 1 : Tail(io.buffer)[i] = io.buffer[i + 1]
      /\ Consumed + 1 \in 1 .. Len(server.sent)
  <2>1. io.buffer \in Seq(PacketType) /\ wire \in Seq(PacketType)
    BY DEF Types, Ios
  <2>2. Len(io.buffer) >= 1 /\ Len(io.buffer) \in Nat
    BY <1>1, <2>1
  <2>3. packet = io.buffer[1] /\ packet \in PacketType
    BY <1>1, <2>1
  <2>4. io.buffer[1] = server.sent[Consumed + 1]
    BY <1>1, <2>2 DEF Reads
  <2>5. Len(server.sent) = Consumed + Len(io.buffer) + Len(wire)
    BY <1>1 DEF Reads
  <2> QED
    BY <1>1, <1>2, <2>1, <2>2, <2>3, <2>4, <2>5
<1> HIDE DEF packet
<1>4. CASE packet.on = io.inbound.on /\ packet.count = io.inbound.count
  <2>1. /\ io' = [io EXCEPT !.buffer = Tail(@), !.inbound = Counted(@)]
        /\ call' = [call EXCEPT !.waits = TRUE, !.packet = packet.what]
        /\ UNCHANGED <<socket, tcp, signal, server, wire>>
    BY <1>4 DEF Take, packet
  <2>2. io.inbound \in Cipher /\ Counted(io.inbound) \in Cipher
    <3>1. io.inbound \in Cipher
      BY DEF Types, Ios
    <3> QED
      BY <3>1 DEF Cipher, Counted
  <2>3. packet.what \in What
    BY <1>3 DEF PacketType
  <2>4. /\ io' \in Ios /\ io'.buffer = Tail(io.buffer) /\ io'.writing = io.writing
        /\ io'.shutdown = io.shutdown /\ io'.locks = io.locks /\ io'.outbound = io.outbound
        /\ io'.inbound = Counted(io.inbound)
    BY <1>3, <2>1, <2>2 DEF Types, Ios
  <2>5. /\ call' \in Calls /\ call'.step = call.step /\ call'.waits /\ call'.packet = packet.what
        /\ call'.result = "pending" /\ call'.listener = call.listener /\ call'.reason = call.reason
    BY <1>1, <2>1, <2>3 DEF Types, Calls
  <2>6. Types'
    BY <2>1, <2>4, <2>5 DEF Types
  <2>7. Life'
    BY <1>1, <2>1, <2>4, <2>5 DEF Life
  <2>8. Writes'
    <3>1. call'.step \notin WriteSteps /\ call'.step \in WriteSteps \cup ReadSteps
      BY <1>1, <2>5 DEF WriteSteps, ReadSteps
    <3>2. /\ server' = server /\ io'.writing = <<>> /\ io.writing = <<>> /\ call'.step = call.step
          /\ call.result = "pending" /\ io'.outbound = io.outbound
      BY <1>1, <2>1, <2>4, <2>5
    <3> QED
      BY <3>1, <3>2 DEF Writes
  <2>9. Sends'
    BY <2>1 DEF Sends, Clean, Known, Keys, Guess, Named
  <2>10. Taking' /\ Consumed' = Consumed + 1 /\ Keys' = Keys /\ Guess' = Guess
    BY <1>1, <1>2, <2>1, <2>5 DEF Taking, Consumed, TakenBefore, Guess, Keys
  <2>11. Reads'
    <3>1. /\ Len(server.sent) = Consumed + 1 + Len(io'.buffer) + Len(wire)
          /\ \A i \in 1 .. Len(io'.buffer) : io'.buffer[i] = server.sent[Consumed + 1 + i]
          /\ \A i \in 1 .. Len(wire) : wire[i] = server.sent[Consumed + 1 + Len(io'.buffer) + i]
      <4>1. /\ Len(io'.buffer) = Len(io.buffer) - 1 /\ Len(wire) \in Nat
            /\ Len(io.buffer) \in Nat /\ Len(io.buffer) >= 1
        BY <1>3, <2>4 DEF Types
      <4>a. Len(server.sent) = Consumed + Len(io.buffer) + Len(wire)
        BY <1>1 DEF Reads
      <4>2. Len(server.sent) = Consumed + 1 + Len(io'.buffer) + Len(wire)
        BY <1>2, <4>1, <4>a
      <4>3. ASSUME NEW i \in 1 .. Len(io'.buffer) PROVE io'.buffer[i] = server.sent[Consumed + 1 + i]
        <5>1. io'.buffer[i] = io.buffer[i + 1] /\ i + 1 \in 1 .. Len(io.buffer)
          BY <1>3, <2>4, <4>1
        <5>2. io.buffer[i + 1] = server.sent[Consumed + (i + 1)]
          BY <5>1, <1>1 DEF Reads
        <5>3. Consumed + (i + 1) = Consumed + 1 + i
          BY <1>2
        <5> QED
          BY <5>1, <5>2, <5>3
      <4>4. ASSUME NEW i \in 1 .. Len(wire)
            PROVE  wire[i] = server.sent[Consumed + 1 + Len(io'.buffer) + i]
        <5>1. wire[i] = server.sent[Consumed + Len(io.buffer) + i]
          BY <1>1 DEF Reads
        <5>2. Consumed + Len(io.buffer) + i = Consumed + 1 + Len(io'.buffer) + i
          BY <1>2, <4>1, SMTT(60)
        <5> QED
          BY <5>1, <5>2
      <4> QED
        BY <4>2, <4>3, <4>4
    <3>2. io'.inbound = Counting(call.step > 14, Consumed + 1 - Keys)
      <4>1. io.inbound = Counting(call.step > 14, Consumed - Keys) /\ Keys \in Nat
        BY <1>1 DEF Reads, Keys, Guess
      <4>2. CASE call.step > 14
        <5>1. Consumed - Keys \in Int /\ Consumed - Keys + 1 = Consumed + 1 - Keys
          BY <1>2, <4>1
        <5>2. Counted([on |-> TRUE, count |-> Consumed - Keys]) = [on |-> TRUE, count |-> Consumed + 1 - Keys]
          BY <5>1, CountedIs
        <5> QED
          BY <2>4, <4>1, <4>2, <5>2 DEF Counting
      <4>3. CASE ~(call.step > 14)
        <5>1. Counted(Plain) = Plain
          BY CountedIs, 0 \in Int
        <5> QED
          BY <2>4, <4>1, <4>3, <5>1 DEF Counting
      <4> QED
        BY <4>2, <4>3
    <3>3. call'.packet = server.sent[Consumed + 1].what
      BY <1>3, <2>5
    <3>4. Len(server.sent) >= Consumed + 1
      BY <1>3
    <3>5. /\ server' = server /\ wire' = wire /\ Consumed' = Consumed + 1 /\ Keys' = Keys
          /\ call'.result = "pending" /\ call'.step = call.step /\ call'.reason = call.reason
      BY <2>1, <2>5, <2>10
    <3>6. (call.step > 9 => server.fault # "signature")'
      BY <3>5 DEF Reads
    <3>7. Misread' /\ (server.aside # 0 => TakenBefore(call.step) < server.aside)'
      <4>1. TakenBefore(call.step)' = TakenBefore(call.step)
        BY <3>5 DEF TakenBefore, Guess
      <4>2. call.reason = None
        BY <1>1 DEF Life
      <4> QED
        BY <3>5, <4>1, <4>2 DEF Reads, Misread, None
    <3>8. (/\ Len(server.sent) = Consumed + Len(io.buffer) + Len(wire)
           /\ \A i \in 1 .. Len(io.buffer) : io.buffer[i] = server.sent[Consumed + i]
           /\ \A i \in 1 .. Len(wire) : wire[i] = server.sent[Consumed + Len(io.buffer) + i])'
      BY <3>1, <3>5
    <3>9. (io.inbound = Counting(call.step > 14, Consumed - Keys))'
      <4>1. io'.inbound = Counting(call.step > 14, Consumed' - Keys')
        <5>1. Consumed' - Keys' = Consumed + 1 - Keys
          BY <1>2, <3>5, Keys \in Nat DEF Keys, Guess
        <5> QED
          BY <3>2, <5>1
      <4>2. call'.step = call.step
        BY <3>5
      <4> QED
        BY <1>1, <4>1, <4>2
    <3>10. (call.packet = server.sent[Consumed].what /\ (call.step = 5 => server.announced = "wrongGuess"))'
      BY <1>1, <3>3, <3>5
    <3>11. (Len(server.sent) >= Consumed)'
      BY <3>4, <3>5
    <3> QED
      BY <3>5, <3>6, <3>7, <3>8, <3>9, <3>10, <3>11 DEF Reads
  <2>12. Late'
    <3>1. Consumed' + Len(io'.buffer) = Consumed + Len(io.buffer)
      <4>1. \A taken, left \in Nat : taken + 1 + (left - 1) = taken + left
        OBVIOUS
      <4>2. Consumed' = Consumed + 1 /\ Len(io'.buffer) = Len(io.buffer) - 1
        BY <1>3, <2>4, <2>10
      <4>3. Consumed + 1 + (Len(io.buffer) - 1) = Consumed + Len(io.buffer)
        BY <1>2, <1>3, <4>1
      <4> QED
        BY <4>2, <4>3
    <3> QED
      BY <1>1, <2>1, <2>4, <2>5, <2>10, <3>1 DEF Late, DeadClient
  <2> QED
    BY <2>6, <2>7, <2>8, <2>9, <2>11, <2>12
<1>5. CASE ~(packet.on = io.inbound.on /\ packet.count = io.inbound.count)
  <2>1. Fail("cipher") /\ "cipher" \in Reason
    BY <1>5 DEF Take, Reason, packet
  <2>2. ASSUME Restarts PROVE FALSE
    <3>1. (Consumed + 1 > Keys) = (call.step > 14) /\ Keys \in Nat
      BY <1>1, <1>2, SMTT(60) DEF TakenBefore, Keys, Guess, ReadSteps
    <3>b. Consumed + 1 \in 1 .. Known /\ packet = server.sent[Consumed + 1]
      <4>1. server.aside # 0 => Consumed < server.aside /\ server.aside \in Nat
        BY <1>2 DEF Reads, Types, Servers
      <4> QED
        BY <1>2, <1>3, <4>1 DEF Known
    <3>2. packet.on <=> Consumed + 1 > Keys
      BY <3>b DEF Sends
    <3>a. \A i \in 1 .. Known :
            Restarts => server.sent[i].count = IF i > Keys THEN i - Keys - 1 ELSE 0
      BY DEF Sends
    <3>3. packet.count = IF Consumed + 1 > Keys THEN Consumed + 1 - Keys - 1 ELSE 0
      BY <1>2, <2>2, <3>1, <3>a, <3>b
    <3>c. io.inbound = Counting(call.step > 14, Consumed - Keys)
      BY <1>1 DEF Reads
    <3>4. /\ io.inbound.on <=> (call.step > 14)
          /\ io.inbound.count = IF call.step > 14 THEN Consumed - Keys ELSE 0
      BY <3>c DEF Counting, Plain
    <3>5. Consumed + 1 - Keys - 1 = Consumed - Keys
      BY <1>2, <3>1
    <3>6. packet.on = io.inbound.on
      <4>1. packet.on <=> call.step > 14
        BY <3>1, <3>2
      <4>2. packet.on \in BOOLEAN /\ io.inbound.on \in BOOLEAN
        BY <1>3 DEF Types, Ios, Cipher, PacketType
      <4> QED
        BY <3>4, <4>1, <4>2
    <3>7. packet.count = io.inbound.count
      BY <3>1, <3>3, <3>4, <3>5
    <3> QED
      BY <1>5, <3>6, <3>7
  <2> QED
    BY <1>1, <2>1, <2>2, FailKeeps
<1> QED
  BY <1>4, <1>5

\* What is read, when the server breaks no rule.
LEMMA ReadsNamed ==
  ASSUME IInv, call.result = "pending", Taking
  PROVE  /\ Consumed = TakenBefore(call.step) + 1 /\ Consumed \in 1 .. Len(server.sent)
         /\ call.packet = server.sent[Consumed].what
         /\ server.aside # 0 => Consumed <= server.aside
         /\ Consumed = server.aside => call.packet = "ASIDE"
         /\ server.fault = None /\ Consumed # server.aside => call.packet \in Named(Consumed)
<1>1. Consumed = TakenBefore(call.step) + 1 /\ TakenBefore(call.step) \in Nat
  BY Counts DEF Consumed, IInv, Types, Calls
<1>2. Len(server.sent) >= Consumed /\ call.packet = server.sent[Consumed].what
  BY DEF IInv, Reads
<1>3. Consumed \in 1 .. Len(server.sent)
  BY <1>1, <1>2 DEF IInv, Types, Servers
<1>4. server.aside # 0 => Consumed <= server.aside /\ server.aside \in Nat
  BY <1>1 DEF IInv, Reads, Types, Servers
<1>5. Consumed = server.aside => call.packet = "ASIDE"
  BY <1>1, <1>2 DEF IInv, Sends
<1>6. ASSUME server.fault = None, Consumed # server.aside PROVE call.packet \in Named(Consumed)
  <2>1. Consumed \in 1 .. Clean
    BY <1>3, <1>4, <1>6 DEF Clean
  <2> QED
    BY <1>2, <1>6, <2>1 DEF IInv, Sends
<1> QED
  BY <1>1, <1>2, <1>3, <1>4, <1>5, <1>6

LEMMA TakenKeeps == ASSUME IInv, Taken PROVE IInv'
<1> USE DEF IInv
<1> DEFINE good == call.packet = Now.what \/ Now.what = "GUESS"
<1>1. /\ call.result = "pending" /\ call.step \in ReadSteps /\ call.waits /\ Taking
      /\ io.writing = <<>> /\ call.step \in Nat /\ call.step <= 19 /\ (call.step = 5 => Guess = 1)
  <2>1. call.result = "pending" /\ call.step \in ReadSteps /\ call.waits /\ io.writing = <<>>
    BY Reading DEF Taken
  <2> QED
    BY <2>1 DEF Taking, Reads, Types, Calls, Guess
<1>2. Consumed = TakenBefore(call.step) + 1 /\ Consumed \in Nat /\ Len(server.sent) >= Consumed
  BY <1>1, ReadsNamed DEF Types, Servers
<1>3. CASE good /\ call.step = LastStep
  <2>1. call' = Ends(call) /\ UNCHANGED <<socket, tcp, signal, io, server, wire>> /\ call.step = 19
    BY <1>3, ScriptRead DEF Taken
  <2>2. /\ call' \in Calls /\ call'.step = 19 /\ ~call'.waits /\ ~call'.listener
        /\ call'.result = "returned" /\ call'.reason = call.reason
    BY <2>1 DEF Ends, Types, Calls
  <2>3. Types'
    BY <2>1, <2>2 DEF Types
  <2>4. Life'
    BY <1>1, <2>1, <2>2 DEF Life
  <2>5. Writes'
    BY <1>1, <2>1, <2>2 DEF Writes
  <2>6. Sends'
    BY <2>1 DEF Sends, Clean, Known, Keys, Guess, Named
  <2>7. Consumed = Keys + 2 /\ Consumed' = Consumed - 1
    BY <1>1, <1>2, <2>1, <2>2 DEF Consumed, TakenBefore, Keys, Taking, Guess
  <2>a. server.aside = 0
    <3>1. call.packet # "ASIDE"
      BY <1>3, <2>1, ScriptRead DEF Now
    <3>2. server.aside # 0 => Consumed <= server.aside /\ Consumed # server.aside
      BY <1>1, <3>1, ReadsNamed
    <3>3. server.aside # 0 => server.aside \in Nat /\ server.aside <= Keys + 2
      BY DEF Sends, Types, Servers
    <3> QED
      BY <1>2, <2>7, <3>2, <3>3
  <2>8. Reads'
    <3>1. Len(server.sent) >= Consumed'
      BY <1>2, <2>7 DEF Types, Servers
    <3>2. server.fault # "signature" /\ call.reason = None
      BY <1>1, <2>1 DEF Reads, Life
    <3> QED
      BY <2>1, <2>2, <2>a, <3>1, <3>2 DEF Reads, Misread, None
  <2>9. Late'
    <3>1. ~(Consumed + Len(io.buffer) < Keys + 2) /\ server.aside = 0
      BY <1>2, <2>7, <2>a DEF Types, Ios
    <3> QED
      BY <1>1, <2>1, <2>2, <3>1 DEF Late, DeadClient
  <2> QED
    BY <2>3, <2>4, <2>5, <2>6, <2>8, <2>9
<1>4. CASE good /\ call.step # LastStep
  <2>1. call' = Goes(call) /\ UNCHANGED <<socket, tcp, signal, io, server, wire>> /\ call.step # 19
    BY <1>4, ScriptRead DEF Taken
  <2>2. /\ call' \in Calls /\ call'.step = call.step + 1 /\ ~call'.waits
        /\ call'.listener = call.listener /\ call'.packet = call.packet
        /\ call'.result = "pending" /\ call'.reason = call.reason
    <3>1. call' = [call EXCEPT !.step = call.step + 1, !.waits = FALSE] /\ call.step + 1 \in Nat
      BY <1>1, <2>1 DEF Goes
    <3>2. call' \in Calls
      BY <3>1 DEF Types, Calls
    <3>3. /\ call'.step = call.step + 1 /\ call'.result = call.result /\ call'.packet = call.packet
          /\ call'.listener = call.listener /\ call'.reason = call.reason
      BY <3>1 DEF Types, Calls
    <3>4. ~call'.waits
      BY <3>1 DEF Types, Calls
    <3> QED
      BY <1>1, <3>2, <3>3, <3>4
  <2>3. Types'
    BY <1>1, <2>1, <2>2 DEF Types
  <2>4. Life'
    <3>1. call'.listener /\ call'.step \in 1 .. 19
      BY <1>1, <2>1, <2>2, SMTT(60) DEF Life
    <3> QED
      BY <1>1, <2>1, <2>2, <3>1 DEF Life
  <2>5. Writes'
    <3>1. (call.step + 1 > 12) = (call.step > 12) /\ call.step \notin WriteSteps
      BY <1>1 DEF ReadSteps, WriteSteps
    <3>2. WrittenBefore(call.step + 1) = WrittenBefore(call.step)
      BY <1>1, <3>1, Counts
    <3> QED
      BY <1>1, <2>1, <2>2, <3>1, <3>2 DEF Writes
  <2>6. Sends'
    BY <2>1 DEF Sends, Clean, Known, Keys, Guess, Named
  <2>7. Consumed' = Consumed /\ ~Taking' /\ Keys' = Keys
    <3>1. TakenBefore(call.step + 1) = TakenBefore(call.step) + 1
      <4>1. ~(call.step = 5 /\ Guess = 0)
        BY <1>1
      <4> QED
        BY <1>1, <2>1, <4>1, Counts
    <3> QED
      BY <1>2, <2>1, <2>2, <3>1 DEF Consumed, Taking, TakenBefore, Keys, Guess
  <2>8. Reads'
    <3>1. (call.step + 1 > 14) = (call.step > 14) /\ (call.step + 1 > 9) = (call.step > 9)
      BY <1>1 DEF ReadSteps
    <3>2. (server.aside # 0 => TakenBefore(call.step) < server.aside)'
      <4>1. Consumed # server.aside
        <5> SUFFICES ASSUME Consumed = server.aside PROVE FALSE
          OBVIOUS
        <5>1. call.packet = "ASIDE"
          BY <1>1, ReadsNamed
        <5>2. Now.what = "GUESS"
          <6>1. call.step \in {2, 4, 5, 8, 13, 16} /\ Now.what = Script[call.step].what
            BY <1>1, <2>1 DEF ReadSteps, Now
          <6>2. Now.what # "ASIDE"
            BY <6>1, ScriptRead
          <6> QED
            BY <1>4, <5>1, <6>2
        <5>3. call.step = 5
          <6>1. call.step \in {2, 4, 5, 8, 13, 16} /\ Now.what = Script[call.step].what
            BY <1>1, <2>1 DEF ReadSteps, Now
          <6> QED
            BY <5>2, <6>1, ScriptRead
        <5>4. Guess = 1 /\ server.aside = 3
          BY <1>1, <1>2, <5>3 DEF TakenBefore
        <5> QED
          BY <5>4 DEF Sends
      <4>2. server.aside # 0 => Consumed < server.aside
        <5>1. server.aside # 0 => Consumed <= server.aside
          BY <1>1, ReadsNamed
        <5>2. server.aside \in Nat
          BY DEF Types, Servers
        <5> QED
          BY <1>2, <4>1, <5>1, <5>2
      <4>3. TakenBefore(call.step)' = Consumed
        <5>1. TakenBefore(call.step + 1) = TakenBefore(call.step) + 1
          <6>1. ~(call.step = 5 /\ Guess = 0)
            BY <1>1
          <6> QED
            BY <1>1, <2>1, <6>1, Counts
        <5>2. TakenBefore(call.step)' = TakenBefore(call.step + 1)
          BY <2>1, <2>2 DEF TakenBefore, Guess
        <5> QED
          BY <1>2, <5>1, <5>2
      <4> QED
        BY <2>1, <4>2, <4>3
    <3>3. Misread'
      <4>1. call'.reason = None
        BY <1>1, <2>2 DEF Life
      <4> QED
        BY <4>1 DEF Misread, None
    <3> QED
      BY <1>1, <2>1, <2>2, <2>7, <3>1, <3>2, <3>3 DEF Reads
  <2>9. Late'
    BY <1>1, <2>1, <2>2, <2>7 DEF Late, DeadClient
  <2> QED
    BY <2>3, <2>4, <2>5, <2>6, <2>8, <2>9
<1>5. CASE ~good
  <2>1. PICK reason \in {"refused", "unexpected"} :
          Fail(reason) /\ (call.packet = "USERAUTH_FAILURE" => reason = "refused")
    BY <1>5 DEF Taken
  <2>2. ASSUME server.fault = None, call.packet # "ASIDE" PROVE call.packet = "USERAUTH_FAILURE"
    <3>1. call.packet \in Named(Consumed) /\ call.packet # Now.what /\ Now.what # "GUESS"
      BY <1>1, <1>5, <2>2, ReadsNamed
    <3>2. Now.what = Script[call.step].what
      BY DEF Now
    <3>3. \/ call.step = 5
          \/ <<call.step, Consumed>> \in {<<2, 1>>, <<4, 2>>, <<8, Keys - 1>>, <<13, Keys>>,
                                         <<16, Keys + 1>>, <<19, Keys + 2>>}
      BY <1>1, <1>2, SMTT(60) DEF ReadSteps, TakenBefore, Keys, Guess
    <3> QED
      BY <3>1, <3>2, <3>3, ScriptRead DEF Named, Keys, Guess
  <2> QED
    BY <1>1, <2>1, <2>2, FailKeeps DEF Reason
<1> QED
  BY <1>3, <1>4, <1>5

LEMMA AbortKeeps == ASSUME IInv, Abort PROVE IInv'
<1> USE DEF IInv
<1>1. /\ UNCHANGED <<call, server, wire>> /\ ~signal.aborted /\ signal'.aborted
      /\ signal'.late <=> (call.step = 19 /\ (call.waits \/ io.buffer # <<>>))
  BY ScriptRead DEF Abort
<1>2. /\ io' \in Ios /\ io'.buffer = io.buffer /\ io'.writing = io.writing /\ io'.locks = io.locks
      /\ io'.outbound = io.outbound /\ io'.inbound = io.inbound
      /\ io'.shutdown = IF call.listener /\ io.shutdown = "no" THEN "cancel" ELSE io.shutdown
  <2>1. io' = io \/ (io' = [io EXCEPT !.shutdown = "cancel"] /\ call.listener /\ io.shutdown = "no")
    BY DEF Abort, Aborted, ShutDown
  <2>2. io' = io => ~call.listener \/ io.shutdown # "no"
    BY DEF Abort, Aborted, ShutDown, Types, Ios
  <2> QED
    BY <2>1, <2>2 DEF Types, Ios
<1>3. /\ signal' \in Signals /\ tcp' \in Tcps /\ socket' \in Sockets
      /\ tcp'.at = (IF tcp.at = "opening" THEN "rejected" ELSE tcp.at)
      /\ socket' = socket \/ socket' = "closed"
  <2>1. signal' \in Signals
    BY ScriptRead DEF Abort, Signals
  <2>2. tcp' \in Tcps /\ tcp'.at = (IF tcp.at = "opening" THEN "rejected" ELSE tcp.at)
    BY DEF Abort, Types, Tcps
  <2>3. socket' = socket \/ socket' = "closed"
    BY DEF Abort, Destroyed
  <2> QED
    BY <2>1, <2>2, <2>3 DEF Types, Sockets
<1>4. Types'
  BY <1>1, <1>2, <1>3 DEF Types
<1>5. Life'
  BY <1>1, <1>2, <1>3 DEF Life
<1>6. Writes'
  BY <1>1, <1>2 DEF Writes
<1>7. Sends'
  BY <1>1 DEF Sends, Clean, Known, Keys, Guess, Named
<1>8. Consumed' = Consumed /\ Taking' = Taking /\ Keys' = Keys
  BY <1>1 DEF Consumed, Taking, TakenBefore, Guess, Keys
<1>9. Reads'
  BY <1>1, <1>2, <1>8 DEF Reads, Misread, TakenBefore, Guess
<1>10. Late'
  <2>1. ASSUME call.result = "pending", ~signal'.late, server.aside = 0
        PROVE  Consumed + Len(io.buffer) < Keys + 2
    <3>1. io.buffer \in Seq(PacketType) /\ wire \in Seq(PacketType) /\ call.step \in Nat /\ Guess \in {0, 1}
      BY DEF Types, Ios, Calls, Guess
    <3>2. CASE call.step = 19
      <4>1. ~call.waits /\ Len(io.buffer) = 0
        BY <1>1, <2>1, <3>2
      <4> QED
        BY <3>1, <3>2, <4>1 DEF Consumed, Taking, TakenBefore, Keys
    <3>3. CASE call.step # 19
      <4>1. Len(server.got) # 6
        <5>1. call.step <= 18 /\ Len(server.got) = WrittenBefore(call.step)
          BY <3>1, <3>3 DEF Writes, Types
        <5>2. call.step \in Nat
          BY <3>1
        <5>3. WrittenBefore(call.step) <= 5 /\ WrittenBefore(call.step) \in Nat
          BY <5>1, <5>2, Bounds
        <5> QED
          BY <5>1, <5>3
      <4>2. Len(server.sent) < Keys + 2
        BY <2>1, <3>1, <4>1 DEF Sends, Clean, Keys, Types, Servers
      <4>3. Len(server.sent) = Consumed + Len(io.buffer) + Len(wire)
        BY <2>1 DEF Reads
      <4>4. Consumed \in Nat /\ Keys \in Nat
        <5>1. TakenBefore(call.step) \in Nat
          BY <3>1, Bounds
        <5> QED
          BY <3>1, <5>1 DEF Consumed, Keys
      <4> QED
        BY <3>1, <4>2, <4>3, <4>4
    <3> QED
      BY <3>2, <3>3
  <2>2. call.result \in {"pending", "returned"} => io.shutdown = "no"
    BY <1>1 DEF Late
  <2>3. call.result = "returned" => io'.shutdown = "no"
    BY <1>2, <2>2 DEF Life
  <2> QED
    BY <1>1, <1>2, <1>8, <2>1, <2>3 DEF Late, DeadClient
<1> QED
  BY <1>4, <1>5, <1>6, <1>7, <1>9, <1>10

\* A write is under way only while connect() waits for it.
LEMMA Writing ==
  ASSUME IInv, io.writing # <<>>
  PROVE  /\ call.result = "pending" /\ call.step \in WriteSteps /\ call.waits /\ call.step \in Nat
         /\ Len(server.got) + 1 \in 1 .. 6 /\ Len(io.writing) = 1
         /\ LET n == Len(server.got) + 1 IN
            io.writing[1] = Packet(WrittenAs(n), Counting(n > 4, n - 5))
         /\ io.writing[1] \in PacketType
<1>1. call.result = "pending" /\ call.step \in WriteSteps
  BY DEF IInv, Life, Writes
<1>2. call.waits /\ call.step \in Nat
  BY <1>1 DEF IInv, Writes, WriteSteps
<1>3. Len(server.got) + 1 \in 1 .. 6
  BY <1>1 DEF IInv, Writes, WriteSteps, WrittenBefore
<1> DEFINE n == Len(server.got) + 1
           packet == Packet(WrittenAs(n), Counting(n > 4, n - 5))
<1>a. io.writing = <<packet>>
  BY DEF IInv, Writes
<1> HIDE DEF packet
<1>b. Len(io.writing) = 1 /\ io.writing[1] = packet
  BY <1>a
<1>4. Len(io.writing) = 1 /\ io.writing[1] = Packet(WrittenAs(n), Counting(n > 4, n - 5))
  BY <1>b DEF packet
<1>5. io.writing[1] \in PacketType
  <2>1. io.writing \in Seq(PacketType)
    BY DEF IInv, Types, Ios
  <2> QED
    BY <1>4, <2>1
<1> QED
  BY <1>1, <1>2, <1>3, <1>4, <1>5

LEMMA WriteFailsKeeps == ASSUME IInv, WriteFails PROVE IInv'
<1> USE DEF IInv
<1>1. /\ UNCHANGED <<tcp, signal, server, wire>> /\ socket' = Destroyed(io')
      /\ call' = Caught(call, "write") /\ io' = [ShutDown(io) EXCEPT !.writing = <<>>]
      /\ call.result = "pending" /\ call.step \in WriteSteps
  BY Writing DEF WriteFails
<1>2. /\ call' \in Calls /\ call'.result = "ending" /\ call'.step = call.step /\ ~call'.waits
      /\ ~call'.listener /\ call'.reason = "write"
  BY <1>1 DEF Caught, Types, Calls, Reason
<1>3. /\ io' \in Ios /\ io'.writing = <<>> /\ io'.locks = io.locks /\ io'.buffer = io.buffer
      /\ io'.shutdown = IF io.shutdown = "no" THEN "cancel" ELSE io.shutdown
  <2>1. <<>> \in Seq(PacketType)
    OBVIOUS
  <2>2. io' = [io EXCEPT !.writing = <<>>, !.shutdown = IF io.shutdown = "no" THEN "cancel" ELSE io.shutdown]
    BY <1>1 DEF ShutDown, Types, Ios
  <2> QED
    BY <2>1, <2>2 DEF Types, Ios
<1>4. socket' = socket \/ socket' = "closed"
  BY <1>1 DEF Destroyed
<1>5. Types'
  BY <1>1, <1>2, <1>3, <1>4 DEF Types, Sockets
<1>6. Life'
  BY <1>1, <1>2, <1>3, <1>4 DEF Life
<1>7. Writes'
  BY <1>1, <1>2, <1>3 DEF Writes
<1>8. Sends'
  BY <1>1 DEF Sends, Clean, Known, Keys, Guess, Named
<1>9. Consumed' = Consumed
  BY <1>1, <1>2, SMTT(60) DEF Consumed, Taking, TakenBefore, Guess, ReadSteps, WriteSteps
<1>10. Reads'
  BY <1>1, <1>2, <1>9 DEF Reads, Misread, TakenBefore, Guess
<1>11. Late'
  BY <1>1, <1>2 DEF Late, DeadClient
<1> QED
  BY <1>5, <1>6, <1>7, <1>8, <1>10, <1>11

\* The server counts as the client does, if it counts from NEWKEYS on.
LEMMA GotSequence == ASSUME IInv, Restarts, Len(server.got) >= 4 PROVE Sequence(server.got) = Len(server.got) - 4
<1> DEFINE n == Len(server.got)
<1>1. n \in Nat /\ n <= 6
  BY Counts DEF IInv, Writes, WrittenBefore, Types, Servers
<1>2. DOMAIN server.got = 1 .. n
  BY DEF IInv, Types, Servers
<1>3. \A j \in 1 .. n : (server.got[j].on <=> j > 4) /\ (j > 4 => server.got[j].what # "ID")
  <2> SUFFICES ASSUME NEW j \in 1 .. n
               PROVE  (server.got[j].on <=> j > 4) /\ (j > 4 => server.got[j].what # "ID")
    OBVIOUS
  <2>1. server.got[j] = Packet(WrittenAs(j), Counting(j > 4, j - 5))
    BY DEF IInv, Writes
  <2>2. server.got[j].on <=> j > 4
    BY <2>1 DEF Packet, Counting, Plain
  <2>3. server.got[j].what = WrittenAs(j)
    BY <2>1 DEF Packet
  <2> QED
    BY <1>1, <2>2, <2>3 DEF WrittenAs
<1> HIDE DEF n
<1>4. {i \in DOMAIN server.got : (server.got[i].on \/ ~Restarts) /\ server.got[i].what # "ID"} = 5 .. n
  BY <1>1, <1>2, <1>3
<1>5. Cardinality(5 .. n) = n - 4
  <2>1. n >= 4 /\ 5 \in Int /\ n \in Int
    BY <1>1 DEF n
  <2>2. Cardinality(5 .. n) = IF 5 > n THEN 0 ELSE n - 5 + 1
    BY <2>1, FS_Interval
  <2> QED
    BY <2>1, <2>2
<1> QED
  BY <1>4, <1>5 DEF Sequence, n

LEMMA WrittenKeeps == ASSUME IInv, Written PROVE IInv'
<1> USE DEF IInv
<1> DEFINE n == Len(server.got) + 1
           packet == Head(io.writing)
<1>1. /\ UNCHANGED <<socket, tcp, signal, wire>> /\ call' = Goes(call)
      /\ io' = [io EXCEPT !.writing = <<>>] /\ io.writing # <<>>
      /\ server' = [server EXCEPT !.got = Append(@, packet),
           !.fault = IF packet.on /\ packet.count # Sequence(server.got) THEN "mac" ELSE @]
  BY Writing DEF Written
<1>2. /\ call.result = "pending" /\ call.step \in WriteSteps /\ call.waits /\ call.step \in Nat
      /\ n \in 1 .. 6 /\ Len(io.writing) = 1
  BY <1>1, Writing
<1>3. packet = Packet(WrittenAs(n), Counting(n > 4, n - 5)) /\ packet \in PacketType
  <2>1. packet = io.writing[1]
    BY <1>2 DEF Types, Ios
  <2> QED
    BY <1>1, <2>1, Writing
<1> HIDE DEF packet
<1>4. /\ call' \in Calls /\ call'.step = call.step + 1 /\ ~call'.waits /\ call'.packet = call.packet
      /\ call'.listener = call.listener /\ call'.result = "pending" /\ call'.reason = call.reason
  <2>1. call' = [call EXCEPT !.step = call.step + 1, !.waits = FALSE] /\ call.step + 1 \in Nat
    BY <1>1, <1>2 DEF Goes
  <2>2. call' \in Calls
    BY <2>1 DEF Types, Calls
  <2>3. /\ call'.step = call.step + 1 /\ call'.result = call.result /\ call'.packet = call.packet
        /\ call'.listener = call.listener /\ call'.reason = call.reason
    BY <2>1 DEF Types, Calls
  <2>4. ~call'.waits
    BY <2>1 DEF Types, Calls
  <2> QED
    BY <1>2, <2>2, <2>3, <2>4
<1>5. /\ io' \in Ios /\ io'.writing = <<>> /\ io'.shutdown = io.shutdown /\ io'.locks = io.locks
      /\ io'.buffer = io.buffer /\ io'.outbound = io.outbound /\ io'.inbound = io.inbound
  <2>1. <<>> \in Seq(PacketType)
    OBVIOUS
  <2> QED
    BY <1>1, <2>1 DEF Types, Ios
<1>6. /\ server' \in Servers /\ server'.got = Append(server.got, packet)
      /\ server'.sent = server.sent /\ server'.announced = server.announced
      /\ server'.aside = server.aside
      /\ server'.fault = IF packet.on /\ packet.count # Sequence(server.got) THEN "mac" ELSE server.fault
  <2>1. server.got \in Seq(PacketType) /\ Append(server.got, packet) \in Seq(PacketType)
    BY <1>3 DEF Types, Servers
  <2> QED
    BY <1>1, <2>1 DEF Types, Servers
<1>7. Restarts => server'.fault = server.fault
  <2>1. ASSUME Restarts, packet.on PROVE packet.count = Sequence(server.got)
    <3>1. n > 4 /\ packet.count = n - 5
      BY <1>3, <2>1 DEF Packet, Counting, Plain
    <3>2. Len(server.got) \in Nat
      BY DEF Types, Servers
    <3> QED
      BY <2>1, <3>1, <3>2, GotSequence
  <2> QED
    BY <1>6, <2>1
<1>8. /\ Len(server'.got) = n /\ server'.got[n] = packet /\ Len(server.got) \in Nat
      /\ \A j \in 1 .. Len(server.got) : server'.got[j] = server.got[j]
  BY <1>6 DEF Types, Servers
<1>9. call.step <= 18 /\ call.step >= 1 /\ (call.step + 1 > 12 <=> call.step > 12)
      /\ (call.step + 1 > 14 <=> call.step > 14) /\ (call.step + 1 > 9 <=> call.step > 9)
      /\ call.step + 1 \notin WriteSteps
  BY <1>2, SMTT(60) DEF WriteSteps
<1>10. Types'
  BY <1>1, <1>2, <1>4, <1>5, <1>6, <1>9 DEF Types
<1>11. Life'
  <2>1. call'.step \in 1 .. 19
    BY <1>2, <1>4, <1>9, SMTT(60)
  <2>2. call'.listener
    BY <1>2, <1>4 DEF Life
  <2> QED
    BY <1>1, <1>2, <1>4, <1>5, <2>1, <2>2 DEF Life
<1>12. Writes'
  <2>1. Len(server'.got) = WrittenBefore(call'.step)
    <3>1. WrittenBefore(call.step + 1) = WrittenBefore(call.step) + 1
      <4>1. call.step \in Nat /\ call.step <= 19
        BY <1>2, <1>9
      <4> QED
        BY <1>2, <4>1, Counts
    <3> QED
      BY <1>4, <1>8, <3>1 DEF Writes
  <2>2. ASSUME NEW j \in 1 .. n PROVE server'.got[j] = Packet(WrittenAs(j), Counting(j > 4, j - 5))
    <3>1. CASE j = n
      BY <1>3, <1>8, <3>1
    <3>2. CASE j # n
      <4>1. j \in 1 .. Len(server.got)
        BY <1>8, <3>2
      <4> QED
        BY <1>8, <4>1 DEF Writes
    <3> QED
      BY <3>1, <3>2
  <2>3. io'.outbound = Counting(call'.step > 12, Len(server'.got) + Len(io'.writing) - 4)
    <3>1. io.outbound = Counting(call.step > 12, Len(server.got) + Len(io.writing) - 4)
      BY <1>2 DEF Writes
    <3>2. /\ Len(server.got) + Len(io.writing) - 4 = n - 4
          /\ Len(server'.got) + Len(io'.writing) - 4 = n - 4
      BY <1>2, <1>5, <1>8
    <3> QED
      BY <1>4, <1>5, <1>9, <3>1, <3>2 DEF Counting
  <2> QED
    BY <1>4, <1>5, <1>8, <1>9, <2>1, <2>2, <2>3 DEF Writes
<1>13. Sends'
  <2>1. \A i : Named(i)' = Named(i)
    BY <1>6 DEF Named, Keys, Guess
  <2>2. /\ Keys' = Keys /\ Guess' = Guess /\ server'.sent = server.sent /\ server'.aside = server.aside
        /\ Clean' = Clean /\ Known' = Known /\ Len(server'.got) = Len(server.got) + 1
    BY <1>6, <1>8 DEF Keys, Guess, Clean, Known
  <2>3. server'.fault = server.fault \/ server'.fault = "mac"
    BY <1>6
  <2>4. Len(server.got) <= 5
    BY <1>2, <1>8
  <2>5. /\ (Clean <= Keys + 2)' /\ (Clean >= Keys - 1 => Len(server.got) >= 3)'
        /\ (Clean = Keys + 1 => Len(server.got) >= 5)'
        /\ (Clean = Keys + 2 => Len(server.got) = 6)'
    <3>1. /\ Clean <= Keys + 2 /\ (Clean >= Keys - 1 => Len(server.got) >= 3)
          /\ (Clean = Keys + 1 => Len(server.got) >= 5) /\ Clean # Keys + 2
      <4>1. Len(server.got) \in Nat /\ Len(server.got) <= 5
        BY <1>8, <2>4
      <4>2. /\ Clean <= Keys + 2 /\ (Clean >= Keys - 1 => Len(server.got) >= 3)
            /\ (Clean = Keys + 1 => Len(server.got) >= 5)
            /\ (Clean = Keys + 2 => Len(server.got) = 6)
        BY DEF Sends
      <4>3. Len(server.got) # 6
        <5>1. \A k \in Nat : k <= 5 => k # 6
          OBVIOUS
        <5> QED
          BY <4>1, <5>1, Zenon
      <4> QED
        BY <4>2, <4>3
    <3> QED
      BY <1>8, <2>2, <3>1
  <2>6. /\ (server.fault = "signature" =>
             IF server.aside = 0 THEN Len(server.sent) = Keys - 1 ELSE server.aside < Keys)'
        /\ (Restarts => server.fault # "mac")'
    BY <1>7, <2>2, <2>3 DEF Sends
  <2>7. ASSUME NEW i \in 1 .. Clean
        PROVE  \/ server.sent[i].what \in Named(i)
               \/ /\ server.aside = 0 /\ i = Len(server.sent) /\ server'.fault # None
                  /\ server.sent[i].what = "OTHER"
    BY <2>3 DEF Sends, None
  <2>8. (\A i \in 1 .. Known :
           LET packet0 == server.sent[i] IN
           /\ packet0.on <=> i > Keys
           /\ Restarts \/ i <= Keys => packet0.count = IF i > Keys THEN i - Keys - 1 ELSE 0)'
    BY <2>2 DEF Sends
  <2>9. (server.aside # 0 =>
           /\ server.aside \in 2 .. Keys + 2 /\ server.aside <= Len(server.sent)
           /\ server.sent[server.aside].what = "ASIDE"
           /\ Guess = 1 => server.aside # 3)'
    BY <2>2 DEF Sends
  <2>10. (\A i \in 1 .. Clean :
            \/ server.sent[i].what \in Named(i)
            \/ /\ server.aside = 0 /\ i = Len(server.sent) /\ server.fault # None
               /\ server.sent[i].what = "OTHER")'
    BY <2>1, <2>2, <2>7
  <2> QED
    BY <2>5, <2>6, <2>8, <2>9, <2>10 DEF Sends
<1>14. Consumed' = Consumed /\ ~Taking /\ ~Taking' /\ Keys' = Keys
  <2>1. TakenBefore(call.step + 1) = TakenBefore(call.step) /\ call.step \notin ReadSteps
    <3>1. call.step \in Nat /\ call.step <= 19 /\ call.step \notin ReadSteps
      BY <1>2, <1>9, SMTT(60) DEF ReadSteps, WriteSteps
    <3> QED
      BY <3>1, Counts
  <2> QED
    BY <1>4, <1>6, <2>1 DEF Consumed, Taking, TakenBefore, Guess, Keys
<1>15. Reads'
  <2>1. io'.inbound = Counting(call'.step > 14, Consumed' - Keys')
    <3>1. io.inbound = Counting(call.step > 14, Consumed - Keys)
      BY <1>2 DEF Reads
    <3> QED
      BY <1>4, <1>5, <1>9, <1>14, <3>1 DEF Counting
  <2>2. (call.step > 9 => server.fault # "signature")'
    BY <1>4, <1>6, <1>9 DEF Reads
  <2>3. Misread' /\ (server.aside # 0 => TakenBefore(call.step) < server.aside)'
    <3>1. TakenBefore(call.step)' = TakenBefore(call.step)
      <4>1. call.step \in Nat /\ call.step <= 19 /\ call.step \notin ReadSteps
        BY <1>2, <1>9, SMTT(60) DEF ReadSteps, WriteSteps
      <4>2. TakenBefore(call.step + 1) = TakenBefore(call.step)
        BY <4>1, Counts
      <4> QED
        BY <1>4, <1>6, <4>2 DEF TakenBefore, Guess
    <3>2. call'.reason = None
      BY <1>2, <1>4 DEF Life
    <3> QED
      BY <1>6, <3>1, <3>2 DEF Reads, Misread, None
  <2>4. /\ (Len(server.sent) >= Consumed)'
        /\ (Len(server.sent) = Consumed + Len(io.buffer) + Len(wire))'
        /\ (\A i \in 1 .. Len(io.buffer) : io.buffer[i] = server.sent[Consumed + i])'
        /\ (\A i \in 1 .. Len(wire) : wire[i] = server.sent[Consumed + Len(io.buffer) + i])'
    BY <1>1, <1>2, <1>5, <1>6, <1>14 DEF Reads
  <2> QED
    BY <1>4, <1>14, <2>1, <2>2, <2>3, <2>4 DEF Reads
<1>16. Late'
  BY <1>1, <1>2, <1>4, <1>5, <1>14 DEF Late, DeadClient
<1> QED
  BY <1>10, <1>11, <1>12, <1>13, <1>15, <1>16

\* What a server that broke no rule and sent nothing aside has sent, by what it
\* sent last.
LEMMA SentIs ==
  ASSUME IInv, server.fault = None, server.aside = 0
  PROVE  LET n == Len(server.sent) IN
         /\ n \in Nat /\ Keys \in {4, 5} /\ Guess = Keys - 4
         /\ Sent("ID") <=> n >= 1
         /\ Sent("KEXINIT") <=> n >= 2
         /\ Sent("GUESS") <=> Guess = 1 /\ n >= 3
         /\ Sent("ECDH_REPLY") <=> n >= Keys - 1
         /\ Sent("NEWKEYS") <=> n >= Keys
         /\ Sent("SERVICE_ACCEPT") <=> n >= Keys + 1
         /\ Sent("USERAUTH_SUCCESS") \/ Sent("USERAUTH_FAILURE") <=> n >= Keys + 2
<1> DEFINE n == Len(server.sent)
           Name(i) == server.sent[i].what
<1>1. n \in Nat /\ Keys \in {4, 5} /\ Guess = Keys - 4 /\ n <= Keys + 2 /\ DOMAIN server.sent = 1 .. n
  BY DEF IInv, Types, Servers, Keys, Guess, Sends, Clean
<1>2. \A i \in 1 .. n : Name(i) \in Named(i)
  BY DEF IInv, Sends, Clean
<1>3. \A i \in 1 .. n : Name(i) \in
        CASE i = 1 -> {"ID"}
          [] i = 2 -> {"KEXINIT"}
          [] i = 3 /\ Keys = 5 -> {"GUESS"}
          [] i = Keys - 1 -> {"ECDH_REPLY"}
          [] i = Keys -> {"NEWKEYS"}
          [] i = Keys + 1 -> {"SERVICE_ACCEPT"}
          [] OTHER -> {"USERAUTH_SUCCESS", "USERAUTH_FAILURE"}
  BY <1>1, <1>2 DEF Named
<1>4. \A what : Sent(what) <=> \E i \in 1 .. n : Name(i) = what
  BY <1>1 DEF Sent
<1> HIDE DEF n, Name
<1>5. CASE Keys = 4
  <2>1. /\ n >= 1 => Name(1) = "ID"
        /\ n >= 2 => Name(2) = "KEXINIT"
        /\ n >= 3 => Name(3) = "ECDH_REPLY"
        /\ n >= 4 => Name(4) = "NEWKEYS"
        /\ n >= 5 => Name(5) = "SERVICE_ACCEPT"
        /\ n >= 6 => Name(6) \in {"USERAUTH_SUCCESS", "USERAUTH_FAILURE"}
    BY <1>1, <1>3, <1>5
  <2>2. \A i \in 1 .. n : i \in {1, 2, 3, 4, 5, 6}
    BY <1>1, <1>5
  <2> QED
    BY <1>1, <1>4, <1>5, <2>1, <2>2 DEF n
<1>6. CASE Keys = 5
  <2>1. /\ n >= 1 => Name(1) = "ID"
        /\ n >= 2 => Name(2) = "KEXINIT"
        /\ n >= 3 => Name(3) = "GUESS"
        /\ n >= 4 => Name(4) = "ECDH_REPLY"
        /\ n >= 5 => Name(5) = "NEWKEYS"
        /\ n >= 6 => Name(6) = "SERVICE_ACCEPT"
        /\ n >= 7 => Name(7) \in {"USERAUTH_SUCCESS", "USERAUTH_FAILURE"}
    BY <1>1, <1>3, <1>6
  <2>2. \A i \in 1 .. n : i \in {1, 2, 3, 4, 5, 6, 7}
    BY <1>1, <1>6
  <2> QED
    BY <1>1, <1>4, <1>6, <2>1, <2>2, SMTT(60) DEF n
<1> QED
  BY <1>1, <1>5, <1>6

\* What the server has got tells how many packets it has.
LEMMA GotIs ==
  ASSUME IInv
  PROVE  /\ Got("ECDH_INIT") => Len(server.got) >= 3
         /\ Got("SERVICE_REQUEST") => Len(server.got) >= 5
         /\ Got("USERAUTH_REQUEST") => Len(server.got) = 6
<1> DEFINE n == Len(server.got)
<1>1. n \in Nat /\ n <= 6 /\ DOMAIN server.got = 1 .. n
  <2>1. n \in Nat /\ DOMAIN server.got = 1 .. n /\ call.step \in Nat /\ n = WrittenBefore(call.step)
    BY DEF IInv, Types, Servers, Calls, Writes
  <2> QED
    BY <2>1, Bounds
<1>2. \A j \in 1 .. n : server.got[j].what = WrittenAs(j)
  <2> SUFFICES ASSUME NEW j \in 1 .. n PROVE server.got[j].what = WrittenAs(j)
    OBVIOUS
  <2>1. server.got[j] = Packet(WrittenAs(j), Counting(j > 4, j - 5))
    BY DEF IInv, Writes
  <2> QED
    BY <2>1 DEF Packet
<1>3. \A what : Got(what) => \E j \in 1 .. n : WrittenAs(j) = what
  BY <1>1, <1>2 DEF Got
<1> HIDE DEF n
<1>4. Got("ECDH_INIT") => n >= 3
  BY <1>1, <1>3 DEF WrittenAs
<1>5. Got("SERVICE_REQUEST") => n >= 5
  BY <1>1, <1>3 DEF WrittenAs
<1>6. Got("USERAUTH_REQUEST") => n = 6
  BY <1>1, <1>3 DEF WrittenAs
<1> QED
  BY <1>4, <1>5, <1>6 DEF n

\* What is due is the next packet of the script, and what it answers has come.
LEMMA DueIs ==
  ASSUME IInv, server.fault = None, server.aside = 0, NEW what \in Due
  PROVE  LET n == Len(server.sent) + 1 IN
         /\ n <= Keys + 2 /\ what \in Named(n) /\ what \in What
         /\ what = "ECDH_REPLY" => n = Keys - 1
         /\ n = Keys - 1 => Len(server.got) >= 3
         /\ n = Keys + 1 => Len(server.got) >= 5
         /\ n = Keys + 2 => Len(server.got) = 6
<1> DEFINE n == Len(server.sent)
<1>1. /\ n \in Nat /\ Keys \in {4, 5} /\ Guess = Keys - 4
      /\ Sent("ID") <=> n >= 1
      /\ Sent("KEXINIT") <=> n >= 2
      /\ Sent("GUESS") <=> Guess = 1 /\ n >= 3
      /\ Sent("ECDH_REPLY") <=> n >= Keys - 1
      /\ Sent("NEWKEYS") <=> n >= Keys
      /\ Sent("SERVICE_ACCEPT") <=> n >= Keys + 1
      /\ Sent("USERAUTH_SUCCESS") \/ Sent("USERAUTH_FAILURE") <=> n >= Keys + 2
  BY SentIs
<1>2. server.announced = "wrongGuess" <=> Keys = 5
  BY DEF Keys, Guess
<1> HIDE DEF n
<1>3. \/ n = 0 /\ what = "ID"
      \/ n = 1 /\ what = "KEXINIT"
      \/ n = 2 /\ Keys = 5 /\ what = "GUESS"
      \/ n = Keys - 1 /\ what = "NEWKEYS"
      \/ n = Keys /\ what = "SERVICE_ACCEPT" /\ Got("SERVICE_REQUEST")
      \/ n = Keys + 1 /\ what \in {"USERAUTH_SUCCESS", "USERAUTH_FAILURE"} /\ Got("USERAUTH_REQUEST")
      \/ n = Keys - 2 /\ what = "ECDH_REPLY" /\ Got("ECDH_INIT")
  BY <1>1, <1>2 DEF Due
<1>4. n + 1 <= Keys + 2 /\ what \in Named(n + 1) /\ what \in What
  BY <1>1, <1>3 DEF Named, What
<1>5. what = "ECDH_REPLY" => n + 1 = Keys - 1
  BY <1>1, <1>3
<1>6. /\ n + 1 = Keys - 1 => Got("ECDH_INIT")
      /\ n + 1 = Keys + 1 => Got("SERVICE_REQUEST")
      /\ n + 1 = Keys + 2 => Got("USERAUTH_REQUEST")
  BY <1>1, <1>3
<1> QED
  BY <1>4, <1>5, <1>6, GotIs DEF n

LEMMA SequenceType == ASSUME IInv PROVE Sequence(server.sent) \in Nat
<1> DEFINE n == Len(server.sent)
           counted == {i \in DOMAIN server.sent :
                         (server.sent[i].on \/ ~Restarts) /\ server.sent[i].what # "ID"}
<1>1. n \in Nat /\ DOMAIN server.sent = 1 .. n
  BY DEF IInv, Types, Servers
<1>2. IsFiniteSet(1 .. n)
  BY <1>1, FS_Interval
<1>3. counted \subseteq 1 .. n /\ Sequence(server.sent) = Cardinality(counted)
  BY <1>1 DEF Sequence
<1> QED
  BY <1>2, <1>3, FS_Subset, FS_CardinalityType

LEMMA SentSequence ==
  ASSUME IInv, server.fault = None, server.aside = 0, Len(server.sent) >= Keys, Restarts
  PROVE  Sequence(server.sent) = Len(server.sent) - Keys
<1> DEFINE n == Len(server.sent)
           counted == {i \in DOMAIN server.sent :
                         (server.sent[i].on \/ ~Restarts) /\ server.sent[i].what # "ID"}
<1>1. n \in Nat /\ Keys \in {4, 5} /\ DOMAIN server.sent = 1 .. n
  BY SentIs DEF IInv, Types, Servers
<1>2. \A i \in 1 .. n : server.sent[i].on <=> i > Keys
  BY DEF IInv, Sends, Known
<1>3. \A i \in 1 .. n : i > Keys => server.sent[i].what # "ID"
  <2> SUFFICES ASSUME NEW i \in 1 .. n, i > Keys PROVE server.sent[i].what # "ID"
    OBVIOUS
  <2>1. server.sent[i].what \in Named(i)
    BY DEF IInv, Sends, Clean
  <2> QED
    BY <1>1, <2>1 DEF Named
<1>4. counted = Keys + 1 .. n
  BY <1>1, <1>2, <1>3
<1>5. /\ Cardinality(5 .. n) = (IF 5 > n THEN 0 ELSE n - 5 + 1)
      /\ Cardinality(6 .. n) = (IF 6 > n THEN 0 ELSE n - 6 + 1)
  <2>1. n \in Int /\ 5 \in Int /\ 6 \in Int
    BY <1>1
  <2> HIDE DEF n
  <2> QED
    BY <2>1, FS_Interval
<1>6. (Keys = 4 \/ Keys = 5) /\ n >= Keys
  BY <1>1
<1>7. Cardinality(Keys + 1 .. n) = n - Keys
  BY <1>1, <1>5, <1>6
<1> QED
  BY <1>4, <1>7 DEF Sequence

\* What a packet of the server looks like, as the next one of its script.
LEMMA OutgoingIs ==
  ASSUME IInv, NEW what \in What
  PROVE  /\ Outgoing(what) \in PacketType /\ Outgoing(what).what = what
         /\ server.fault = None /\ server.aside = 0 =>
              LET n == Len(server.sent) + 1 IN
              /\ Outgoing(what).on <=> n > Keys
              /\ Restarts \/ n <= Keys => Outgoing(what).count = IF n > Keys THEN n - Keys - 1 ELSE 0
<1> DEFINE n == Len(server.sent) + 1
           count == IF Sent("NEWKEYS") THEN Sequence(server.sent) ELSE 0
<1>1. Outgoing(what) = [what |-> what, on |-> Sent("NEWKEYS"), count |-> count]
  BY DEF Outgoing
<1>2. count \in Nat
  BY SequenceType
<1>3. Sent("NEWKEYS") \in BOOLEAN
  BY DEF Sent
<1>4. ASSUME server.fault = None, server.aside = 0
      PROVE  /\ Sent("NEWKEYS") <=> n > Keys
             /\ Restarts \/ n <= Keys => count = IF n > Keys THEN n - Keys - 1 ELSE 0
  <2>1. Keys \in {4, 5} /\ Len(server.sent) \in Nat /\ (Sent("NEWKEYS") <=> Len(server.sent) >= Keys)
    BY <1>4, SentIs
  <2>2. Sent("NEWKEYS") <=> n > Keys
    BY <2>1
  <2>3. CASE n > Keys
    <3>1. Len(server.sent) >= Keys
      BY <2>1, <2>3
    <3>2. Restarts => count = n - Keys - 1
      BY <1>4, <2>1, <2>2, <2>3, <3>1, SentSequence
    <3> QED
      BY <2>1, <2>2, <2>3, <3>2
  <2>4. CASE ~(n > Keys)
    BY <2>2, <2>4
  <2> QED
    BY <2>2, <2>3, <2>4
<1> HIDE DEF count
<1> QED
  BY <1>1, <1>2, <1>3, <1>4 DEF PacketType

\* A packet that the server sends joins those under way.
LEMMA AppendKeeps ==
  ASSUME IInv, UNCHANGED <<socket, tcp, signal, call, io>>, server.fault = None,
         NEW packet \in PacketType, wire' = Append(wire, packet), server' \in Servers,
         server'.sent = Append(server.sent, packet), server'.got = server.got,
         server'.announced = server.announced, Sends',
         \/ server'.aside = server.aside
         \/ server.aside = 0 /\ server'.aside = Len(server.sent) + 1
  PROVE  IInv'
<1> USE DEF IInv
<1> DEFINE n == Len(server.sent) + 1
<1>1. Keys \in {4, 5} /\ Len(server.sent) \in Nat
  BY DEF Keys, Guess, Types, Servers
<1>2. /\ Len(server'.sent) = n /\ server'.sent[n] = packet
      /\ \A i \in 1 .. Len(server.sent) : server'.sent[i] = server.sent[i]
  BY DEF Types, Servers
<1>3. /\ wire' \in Seq(PacketType) /\ Len(wire') = Len(wire) + 1 /\ wire'[Len(wire) + 1] = packet
      /\ Len(wire) \in Nat /\ \A i \in 1 .. Len(wire) : wire'[i] = wire[i]
  BY DEF Types
<1>4. Types'
  BY <1>3 DEF Types
<1>5. Life'
  BY DEF Life
<1>6. Writes'
  BY DEF Writes
<1>7. Keys' = Keys /\ Guess' = Guess /\ TakenBefore(call.step)' = TakenBefore(call.step)
  BY DEF Keys, Guess, TakenBefore
<1>8. /\ Consumed' = Consumed /\ (Taking' <=> Taking) /\ Consumed \in Nat /\ (Taking => Consumed >= 1)
      /\ call.step > 9 => TakenBefore(call.step) >= Keys - 1
      /\ TakenBefore(call.step) \in Nat /\ TakenBefore(call.step) <= Consumed
  <2>1. Consumed' = Consumed /\ (Taking' <=> Taking)
    BY <1>7 DEF Consumed, Taking
  <2>2. call.step \in Nat /\ call.step <= 19
    BY DEF Types, Calls
  <2>3. TakenBefore(call.step) \in Nat
    BY <2>2, Bounds
  <2>4. Consumed \in Nat /\ (Taking => Consumed >= 1) /\ Consumed >= TakenBefore(call.step)
    BY <2>3 DEF Consumed
  <2>5. call.step > 9 => TakenBefore(call.step) >= Keys - 1
    BY <2>2, SMTT(60) DEF TakenBefore, Keys, Guess
  <2> QED
    BY <1>1, <2>1, <2>3, <2>4, <2>5
<1>9. Reads'
  <2>1. Len(server.sent) >= Consumed /\ n > Consumed
    BY <1>1, <1>8 DEF Reads
  <2>a. (server.aside # 0 => TakenBefore(call.step) < server.aside)'
    <3>1. server.aside # 0 => TakenBefore(call.step) < server.aside
      BY DEF Reads
    <3>2. TakenBefore(call.step) < n
      BY <1>1, <1>8, <2>1
    <3> QED
      BY <1>7, <3>1, <3>2
  <2>2. ASSUME call.result \in {"idle", "pending"}
        PROVE  /\ n = Consumed + Len(io.buffer) + Len(wire')
               /\ \A i \in 1 .. Len(io.buffer) : io.buffer[i] = server'.sent[Consumed + i]
               /\ \A i \in 1 .. Len(wire') : wire'[i] = server'.sent[Consumed + Len(io.buffer) + i]
    <3>1. Len(server.sent) = Consumed + Len(io.buffer) + Len(wire) /\ Len(io.buffer) \in Nat
      BY <2>2 DEF Reads, Types, Ios
    <3>b. Len(wire) \in Nat /\ Len(wire') \in Nat /\ Len(wire') = Len(wire) + 1
      BY <1>3
    <3>2. n = Consumed + Len(io.buffer) + Len(wire')
      <4> DEFINE sent == Len(server.sent)
                 buffer == Len(io.buffer)
                 under == Len(wire)
      <4>1. sent \in Nat /\ buffer \in Nat /\ under \in Nat /\ Consumed \in Nat
            /\ sent = Consumed + buffer + under
        BY <1>1, <1>8, <3>1, <3>b
      <4> HIDE DEF sent, buffer, under
      <4>2. sent + 1 = Consumed + buffer + (under + 1)
        BY <4>1
      <4> QED
        BY <3>b, <4>2 DEF sent, buffer, under
    <3>3. ASSUME NEW i \in 1 .. Len(io.buffer) PROVE io.buffer[i] = server'.sent[Consumed + i]
      <4>1. Consumed + i \in 1 .. Len(server.sent)
        <5>1. i \in Nat /\ 1 <= i /\ i <= Len(io.buffer)
          BY <3>1
        <5> QED
          BY <1>1, <1>3, <1>8, <3>1, <5>1
      <4>2. io.buffer[i] = server.sent[Consumed + i]
        BY <2>2 DEF Reads
      <4> QED
        BY <1>2, <4>1, <4>2
    <3>4. ASSUME NEW i \in 1 .. Len(wire') PROVE wire'[i] = server'.sent[Consumed + Len(io.buffer) + i]
      <4>1. CASE i = Len(wire) + 1
        <5>1. Consumed + Len(io.buffer) + i = n
          <6>1. Consumed + Len(io.buffer) + (Len(wire) + 1) = n
            BY <3>2, <3>b
          <6> QED
            BY <4>1, <6>1
        <5> QED
          BY <1>2, <1>3, <4>1, <5>1
      <4>2. CASE i # Len(wire) + 1
        <5>1. i \in 1 .. Len(wire)
          BY <1>3, <4>2
        <5>2. Consumed + Len(io.buffer) + i \in 1 .. Len(server.sent)
          BY <1>3, <1>8, <3>1, <5>1
        <5>3. wire[i] = server.sent[Consumed + Len(io.buffer) + i]
          BY <2>2, <5>1 DEF Reads
        <5> QED
          BY <1>2, <1>3, <5>1, <5>2, <5>3
      <4> QED
        BY <4>1, <4>2
    <3> QED
      BY <3>2, <3>3, <3>4
  <2>3. ASSUME call.result = "pending"
        PROVE  /\ io.inbound = Counting(call.step > 14, Consumed - Keys)
               /\ Taking => call.packet = server'.sent[Consumed].what
                             /\ (call.step = 5 => server.announced = "wrongGuess")
    <3>1. /\ io.inbound = Counting(call.step > 14, Consumed - Keys)
          /\ Taking => call.packet = server.sent[Consumed].what
                        /\ (call.step = 5 => server.announced = "wrongGuess")
      BY <2>3 DEF Reads
    <3>2. Taking => Consumed \in 1 .. Len(server.sent)
      BY <1>1, <1>8, <2>1
    <3> QED
      BY <1>2, <3>1, <3>2
  <2>4. call.step > 9 => server'.fault # "signature"
    <3> SUFFICES ASSUME call.step > 9, server'.fault = "signature" PROVE FALSE
      OBVIOUS
    <3>1. TakenBefore(call.step) >= Keys - 1 /\ n > TakenBefore(call.step)
      BY <1>1, <1>8, <2>1
    <3>2. IF server'.aside = 0 THEN n = Keys - 1 ELSE server'.aside < Keys
      BY <1>2, <1>7 DEF Sends
    <3>3. server'.aside # 0 => TakenBefore(call.step) < server'.aside
      BY <1>7, <2>a
    <3>4. server'.aside \in Nat
      BY DEF Servers
    <3> QED
      BY <1>1, <1>8, <3>1, <3>2, <3>3, <3>4
  <2>5. Misread'
    BY DEF Reads, Misread
  <2>6. io' = io /\ call' = call
    OBVIOUS
  <2>7. Len(server'.sent) >= Consumed
    BY <1>1, <1>2, <1>8, <2>1
  <2>8. (call.result \in {"idle", "pending"} =>
          /\ Len(server.sent) = Consumed + Len(io.buffer) + Len(wire)
          /\ \A i \in 1 .. Len(io.buffer) : io.buffer[i] = server.sent[Consumed + i]
          /\ \A i \in 1 .. Len(wire) : wire[i] = server.sent[Consumed + Len(io.buffer) + i])'
    BY <1>2, <1>8, <2>2, <2>6
  <2>9. (call.result = "pending" =>
          /\ io.inbound = Counting(call.step > 14, Consumed - Keys)
          /\ Taking => call.packet = server.sent[Consumed].what
                        /\ (call.step = 5 => server.announced = "wrongGuess"))'
    BY <1>7, <1>8, <2>3, <2>6
  <2> QED
    BY <1>8, <2>4, <2>5, <2>6, <2>7, <2>8, <2>9, <2>a DEF Reads
<1>10. Late'
  BY <1>1, <1>7, <1>8 DEF Late, DeadClient
<1> QED
  BY <1>4, <1>5, <1>6, <1>9, <1>10

\* What a server may send aside comes after its ID and before its last packet, and
\* not in the place of a guess.
LEMMA InterjectKeeps == ASSUME IInv, Interject PROVE IInv'
<1> DEFINE packet == Outgoing("ASIDE")
           n == Len(server.sent) + 1
<1>1. /\ UNCHANGED <<socket, tcp, signal, call, io>> /\ server.fault = None /\ server.aside = 0
      /\ wire' = Append(wire, packet)
      /\ server' = [server EXCEPT !.sent = Append(@, packet), !.aside = n]
  BY DEF Interject
<1>2. "ASIDE" \in What
  BY DEF What
<1>3. /\ packet \in PacketType /\ packet.what = "ASIDE" /\ (packet.on <=> n > Keys)
      /\ Restarts \/ n <= Keys => packet.count = IF n > Keys THEN n - Keys - 1 ELSE 0
  BY <1>1, <1>2, OutgoingIs
<1> HIDE DEF packet
<1>4. Len(server.sent) \in Nat /\ Keys \in {4, 5} /\ Guess = Keys - 4
  BY <1>1, SentIs
<1>5. n \in 2 .. Keys + 2 /\ (Guess = 1 => n # 3)
  <2>1. Len(server.sent) >= 1 /\ ~(Len(server.sent) >= Keys + 2)
    BY <1>1, SentIs DEF Interject
  <2>2. ASSUME Guess = 1 PROVE Len(server.sent) # 2
    <3>1. ASSUME Len(server.sent) = 2 PROVE Due = {"GUESS"}
      <4>1. Sent("ID") /\ Sent("KEXINIT") /\ ~Sent("GUESS") /\ ~Sent("ECDH_REPLY") /\ ~Sent("NEWKEYS")
            /\ ~Sent("SERVICE_ACCEPT")
        BY <1>1, <1>4, <2>2, <3>1, SentIs
      <4>2. server.announced = "wrongGuess"
        BY <2>2 DEF Guess
      <4> QED
        BY <4>1, <4>2 DEF Due
    <3> QED
      BY <3>1 DEF Interject
  <2> DEFINE sent == Len(server.sent)
  <2>3. /\ sent \in Nat /\ Keys \in {4, 5} /\ sent >= 1 /\ ~(sent >= Keys + 2)
        /\ Guess = 1 => sent # 2
    BY <1>4, <2>1, <2>2
  <2> HIDE DEF sent
  <2>4. sent + 1 \in 2 .. Keys + 2 /\ (Guess = 1 => sent + 1 # 3)
    BY <2>3
  <2> QED
    BY <2>4 DEF sent
<1>6. /\ server' \in Servers /\ server'.sent = Append(server.sent, packet) /\ server'.aside = n
      /\ server'.got = server.got /\ server'.announced = server.announced
      /\ server'.fault = server.fault
  <2>1. server.sent \in Seq(PacketType) /\ Append(server.sent, packet) \in Seq(PacketType)
    BY <1>3 DEF IInv, Types, Servers
  <2>2. n \in Nat
    BY <1>4
  <2> HIDE DEF n
  <2> QED
    BY <1>1, <2>1, <2>2 DEF IInv, Types, Servers
<1>7. /\ Len(server'.sent) = n /\ server'.sent[n] = packet
      /\ \A i \in 1 .. Len(server.sent) : server'.sent[i] = server.sent[i]
  BY <1>3, <1>6 DEF IInv, Types, Servers
<1>8. Sends'
  <2>1. Keys' = Keys /\ Guess' = Guess /\ \A i : Named(i)' = Named(i)
    BY <1>6 DEF Keys, Guess, Named
  <2>2. Clean = Len(server.sent) /\ Known = Len(server.sent) /\ Clean' = Len(server.sent) /\ Known' = n
    BY <1>1, <1>4, <1>6 DEF Clean, Known
  <2>3. (server.aside # 0 =>
           /\ server.aside \in 2 .. Keys + 2 /\ server.aside <= Len(server.sent)
           /\ server.sent[server.aside].what = "ASIDE"
           /\ Guess = 1 => server.aside # 3)'
    BY <1>3, <1>4, <1>5, <1>6, <1>7, <2>1
  <2>4. ASSUME NEW i \in 1 .. n
        PROVE  LET other == server'.sent[i] IN
               /\ other.on <=> i > Keys
               /\ Restarts \/ i <= Keys => other.count = IF i > Keys THEN i - Keys - 1 ELSE 0
    <3>1. CASE i = n
      BY <1>3, <1>7, <3>1
    <3>2. CASE i # n
      <4>1. i \in 1 .. Known /\ server'.sent[i] = server.sent[i]
        BY <1>4, <1>7, <2>2, <3>2
      <4> QED
        BY <4>1 DEF IInv, Sends
    <3> QED
      BY <3>1, <3>2
  <2>5. ASSUME NEW i \in 1 .. Len(server.sent) PROVE server'.sent[i].what \in Named(i)
    BY <1>1, <1>7, <2>2 DEF IInv, Sends
  <2>6. /\ Clean <= Keys + 2 /\ (Clean >= Keys - 1 => Len(server.got) >= 3)
        /\ (Clean = Keys + 1 => Len(server.got) >= 5) /\ (Clean = Keys + 2 => Len(server.got) = 6)
    BY DEF IInv, Sends
  <2>7. (\A i \in 1 .. Known :
           LET packet0 == server.sent[i] IN
           /\ packet0.on <=> i > Keys
           /\ Restarts \/ i <= Keys => packet0.count = IF i > Keys THEN i - Keys - 1 ELSE 0)'
    BY <2>1, <2>2, <2>4
  <2>8. (\A i \in 1 .. Clean :
           \/ server.sent[i].what \in Named(i)
           \/ /\ server.aside = 0 /\ i = Len(server.sent) /\ server.fault # None
              /\ server.sent[i].what = "OTHER")'
    BY <2>1, <2>2, <2>5
  <2>9. server'.fault = None
    BY <1>1, <1>6
  <2> QED
    BY <1>6, <2>1, <2>2, <2>3, <2>6, <2>7, <2>8, <2>9 DEF Sends, None
<1> QED
  BY <1>1, <1>3, <1>6, <1>8, AppendKeeps

\* The server's next packet, after it sent something aside or not.
LEMMA SendKeeps == ASSUME IInv, Send PROVE IInv'
<1> DEFINE n == Len(server.sent) + 1
<1>1. PICK what \in Due, fault \in {None, "message", "signature"} :
        /\ fault = "signature" => what = "ECDH_REPLY"
        /\ LET packet == Outgoing(IF fault = "message" THEN "OTHER" ELSE what)
           IN  /\ wire' = Append(wire, packet)
               /\ server' = [server EXCEPT !.sent = Append(@, packet), !.fault = fault]
  BY DEF Send
<1>2. UNCHANGED <<socket, tcp, signal, call, io>> /\ server.fault = None
  BY DEF Send
<1> DEFINE name == IF fault = "message" THEN "OTHER" ELSE what
           packet == Outgoing(name)
<1>3. name \in What /\ (fault # "message" => name = what) /\ (fault = "message" => name = "OTHER")
  BY <1>1 DEF Due, What
<1> HIDE DEF name
<1>4. /\ packet \in PacketType /\ packet.what = name
      /\ server.aside = 0 =>
           /\ packet.on <=> n > Keys
           /\ Restarts \/ n <= Keys => packet.count = IF n > Keys THEN n - Keys - 1 ELSE 0
  BY <1>2, <1>3, OutgoingIs
<1>5. /\ wire' = Append(wire, packet)
      /\ server' = [server EXCEPT !.sent = Append(@, packet), !.fault = fault]
  BY <1>1 DEF name
<1> HIDE DEF packet
<1>6. /\ server' \in Servers /\ server'.sent = Append(server.sent, packet)
      /\ server'.got = server.got /\ server'.announced = server.announced /\ server'.fault = fault
      /\ server'.aside = server.aside
  <2>1. server.sent \in Seq(PacketType) /\ Append(server.sent, packet) \in Seq(PacketType)
    BY <1>4 DEF IInv, Types, Servers
  <2>2. fault \in {"none", "message", "signature", "mac"}
    BY DEF None
  <2> QED
    BY <1>5, <2>1, <2>2 DEF IInv, Types, Servers
<1>7. /\ Len(server'.sent) = n /\ server'.sent[n] = packet /\ Len(server.sent) \in Nat
      /\ \A i \in 1 .. Len(server.sent) : server'.sent[i] = server.sent[i]
  BY <1>4, <1>6 DEF IInv, Types, Servers
<1>8. Keys' = Keys /\ Guess' = Guess /\ (\A i : Named(i)' = Named(i)) /\ Keys \in {4, 5}
  BY <1>6 DEF Keys, Guess, Named
<1>9. CASE server.aside = 0
  <2>1. /\ n <= Keys + 2 /\ what \in Named(n)
        /\ what = "ECDH_REPLY" => n = Keys - 1
        /\ n = Keys - 1 => Len(server.got) >= 3
        /\ n = Keys + 1 => Len(server.got) >= 5
        /\ n = Keys + 2 => Len(server.got) = 6
    BY <1>2, <1>9, DueIs
  <2>2. Clean = Len(server.sent) /\ Known = Len(server.sent) /\ Clean' = n /\ Known' = n
        /\ server'.aside = 0
    BY <1>6, <1>7, <1>9 DEF Clean, Known
  <2>3. ASSUME NEW i \in 1 .. n
        PROVE  LET other == server'.sent[i] IN
               /\ other.on <=> i > Keys
               /\ Restarts \/ i <= Keys => other.count = IF i > Keys THEN i - Keys - 1 ELSE 0
               /\ \/ other.what \in Named(i)
                  \/ i = n /\ fault # None /\ other.what = "OTHER"
    <3>1. CASE i = n
      <4>1. packet.what \in Named(n) \/ (fault # None /\ packet.what = "OTHER")
        BY <1>3, <1>4, <2>1 DEF None
      <4> QED
        BY <1>4, <1>7, <1>9, <3>1, <4>1
    <3>2. CASE i # n
      <4>1. i \in 1 .. Len(server.sent) /\ server'.sent[i] = server.sent[i]
        BY <1>7, <3>2
      <4> QED
        BY <1>2, <2>2, <4>1 DEF IInv, Sends
    <3> QED
      BY <3>1, <3>2
  <2>4. (\A i \in 1 .. Known :
           LET packet0 == server.sent[i] IN
           /\ packet0.on <=> i > Keys
           /\ Restarts \/ i <= Keys => packet0.count = IF i > Keys THEN i - Keys - 1 ELSE 0)'
    BY <1>8, <2>2, <2>3
  <2>5. (\A i \in 1 .. Clean :
           \/ server.sent[i].what \in Named(i)
           \/ /\ server.aside = 0 /\ i = Len(server.sent) /\ server.fault # None
              /\ server.sent[i].what = "OTHER")'
    BY <1>6, <1>7, <1>8, <2>2, <2>3
  <2>6. (Clean >= Keys - 1 => Len(server.got) >= 3)'
    <3>1. Clean >= Keys - 1 => Len(server.got) >= 3
      BY DEF IInv, Sends
    <3> QED
      BY <1>6, <1>7, <1>8, <2>1, <2>2, <3>1
  <2>7. /\ (Clean <= Keys + 2)' /\ (server.fault = "signature" => Len(server.sent) = Keys - 1)'
        /\ (Clean = Keys + 1 => Len(server.got) >= 5)'
        /\ (Clean = Keys + 2 => Len(server.got) = 6)' /\ (Restarts => server.fault # "mac")'
    BY <1>1, <1>6, <1>7, <1>8, <2>1, <2>2 DEF None
  <2>8. Sends'
    BY <2>2, <2>4, <2>5, <2>6, <2>7 DEF Sends
  <2> QED
    BY <1>2, <1>4, <1>5, <1>6, <2>8, AppendKeeps
<1>10. CASE server.aside # 0
  <2>1. server.aside \in Nat /\ server.aside <= Len(server.sent) /\ server.aside \in 2 .. Keys + 2
    BY <1>10 DEF IInv, Sends, Types, Servers
  <2>2. Clean' = Clean /\ Known' = Known /\ Clean \in 1 .. Len(server.sent) /\ Known = Clean + 1
        /\ Known = server.aside
    BY <1>6, <1>7, <1>8, <1>10, <2>1 DEF Clean, Known
  <2>3. \A i \in 1 .. Known : server'.sent[i] = server.sent[i]
    BY <1>7, <2>1, <2>2
  <2>4. (\A i \in 1 .. Known :
           LET packet0 == server.sent[i] IN
           /\ packet0.on <=> i > Keys
           /\ Restarts \/ i <= Keys => packet0.count = IF i > Keys THEN i - Keys - 1 ELSE 0)'
    BY <1>8, <2>2, <2>3 DEF IInv, Sends
  <2>5. \A i \in 1 .. Clean : server.sent[i].what \in Named(i)
    BY <1>10 DEF IInv, Sends
  <2>6. (\A i \in 1 .. Clean :
           \/ server.sent[i].what \in Named(i)
           \/ /\ server.aside = 0 /\ i = Len(server.sent) /\ server.fault # None
              /\ server.sent[i].what = "OTHER")'
    <3>1. \A i \in 1 .. Clean : i \in 1 .. Known
      BY <2>1, <2>2
    <3> QED
      BY <1>8, <2>2, <2>3, <2>5, <3>1
  <2>7. (server.aside # 0 =>
           /\ server.aside \in 2 .. Keys + 2 /\ server.aside <= Len(server.sent)
           /\ server.sent[server.aside].what = "ASIDE"
           /\ Guess = 1 => server.aside # 3)'
    <3>1. server.sent[server.aside].what = "ASIDE" /\ (Guess = 1 => server.aside # 3)
      BY <1>10 DEF IInv, Sends
    <3>2. server'.sent[server.aside] = server.sent[server.aside]
      BY <2>1, <2>2, <2>3
    <3> QED
      BY <1>6, <1>7, <1>8, <2>1, <3>1, <3>2
  <2>8. ASSUME fault = "signature" PROVE server.aside < Keys
    <3>1. ~Sent("ECDH_REPLY")
      BY <1>1, <2>8 DEF Due
    <3>2. \A i \in 1 .. Clean : server.sent[i].what # "ECDH_REPLY"
      BY <2>2, <3>1 DEF Sent, IInv, Types, Servers
    <3>3. Named(Keys - 1) = {"ECDH_REPLY"}
      BY DEF Named, Keys, Guess
    <3>4. ~(Clean >= Keys - 1)
      <4> SUFFICES ASSUME Clean >= Keys - 1 PROVE FALSE
        OBVIOUS
      <4>1. Keys - 1 \in 1 .. Clean
        BY <1>8, <2>1, <2>2
      <4> QED
        BY <2>5, <3>2, <3>3, <4>1
    <3> QED
      BY <1>8, <2>1, <2>2, <3>4
  <2>9. /\ (Clean <= Keys + 2)' /\ (Clean >= Keys - 1 => Len(server.got) >= 3)'
        /\ (Clean = Keys + 1 => Len(server.got) >= 5)'
        /\ (Clean = Keys + 2 => Len(server.got) = 6)'
    BY <1>6, <1>8, <2>2 DEF IInv, Sends
  <2>10. (Restarts => server.fault # "mac")'
    BY <1>6 DEF None
  <2>11. (server.fault = "signature" =>
            IF server.aside = 0 THEN Len(server.sent) = Keys - 1 ELSE server.aside < Keys)'
    BY <1>6, <1>8, <1>10, <2>8
  <2>12. Sends'
    BY <2>4, <2>6, <2>7, <2>9, <2>10, <2>11 DEF Sends
  <2> QED
    BY <1>2, <1>4, <1>5, <1>6, <2>12, AppendKeeps
<1> QED
  BY <1>9, <1>10
-----------------------------------------------------------------------------
(* The theorems.                                                           *)

\* The invariant is inductive: the client's step, what it wrote and what it took
\* tell where the server is in its own script, and the other way round
\* (client.ts:341-433).
THEOREM Inductive == Spec => []IInv
<1>1. IInv /\ [Next]_vars => IInv'
  <2> SUFFICES ASSUME IInv, [Next]_vars PROVE IInv'
    OBVIOUS
  <2>1. CASE Tcp
    BY <2>1, TcpKeeps
  <2>2. CASE Handshake
    BY <2>2, ConnectKeeps, WriteKeeps, ReadFailsKeeps, ArriveKeeps, SkipKeeps, TakeKeeps,
       TakenKeeps, ComputeKeeps, VerifiedKeeps, RejectsKeeps DEF Handshake
  <2>3. CASE Shutdown
    BY <2>3, ShutdownKeeps
  <2>4. CASE Abort
    BY <2>4, AbortKeeps
  <2>5. CASE Written
    BY <2>5, WrittenKeeps
  <2>6. CASE WriteFails
    BY <2>6, WriteFailsKeeps
  <2>7. CASE Send
    BY <2>7, SendKeeps
  <2>9. CASE Interject
    BY <2>9, InterjectKeeps
  <2>8. CASE UNCHANGED vars
    <3>1. /\ UNCHANGED <<socket, tcp, signal, call, io, server, wire>>
      BY <2>8 DEF vars
    <3>2. Types' /\ Life' /\ Writes'
      BY <3>1 DEF IInv, Types, Life, Writes
    <3>3. Sends'
      BY <3>1 DEF IInv, Sends, Clean, Known, Keys, Guess, Named
    <3>4. Consumed' = Consumed /\ Taking' = Taking /\ Keys' = Keys
      BY <3>1 DEF Consumed, Taking, TakenBefore, Keys, Guess
    <3>5. Reads' /\ Late'
      BY <3>1, <3>4 DEF IInv, Reads, Misread, TakenBefore, Guess, Late, DeadClient
    <3> QED
      BY <3>2, <3>3, <3>5 DEF IInv
  <2> QED
    BY <2>1, <2>2, <2>3, <2>4, <2>5, <2>6, <2>7, <2>8, <2>9 DEF Next
<1> QED
  BY InitGood, <1>1, PTL DEF Spec

\* Every variable keeps its type, and a write is under way only while connect()
\* waits for it.
THEOREM TypeCorrect == Spec => []TypeOK
<1>1. IInv => TypeOK
  <2> SUFFICES ASSUME IInv PROVE TypeOK
    OBVIOUS
  <2>1. socket \in Sockets /\ tcp \in Tcps /\ call \in Calls /\ io \in Ios /\ call.step <= 19
    BY DEF IInv, Types
  <2>2. io.writing # <<>> => call.result = "pending" /\ Now.do = "write" /\ call.waits
    BY Writing, ScriptRead, SMTT(60) DEF Now, WriteSteps
  <2> QED
    <3>1. call.step \in 0 .. LastStep
      BY <2>1, ScriptRead DEF Calls
    <3>2. /\ call.waits \in BOOLEAN /\ call.listener \in BOOLEAN
          /\ call.result \in {"idle", "pending", "ending", "returned", "rejected"}
      BY <2>1 DEF Calls
    <3>3. /\ io.shutdown \in {"no", "cancel", "abort", "close", "done"}
          /\ io.locks \in {{}, {"reader", "writer"}}
      BY <2>1 DEF Ios
    <3> QED
      BY <2>1, <2>2, <3>1, <3>2, <3>3 DEF TypeOK, Sockets, Tcps
<1> QED
  BY <1>1, Inductive, PTL

\* When connect() rejects, the transport it took is closed and unlocked, and one
\* it could not lock is left alone (client.ts:332-339 and 429-433).
THEOREM RejectReleases == Spec => []ReleasedOnReject
<1>1. IInv => ReleasedOnReject
  BY DEF IInv, Life, ReleasedOnReject
<1> QED
  BY <1>1, Inductive, PTL

\* connect() returns a client whose transport is shut down only if the abort fell
\* between the arrival of the last packet and its being decoded
\* (client.ts:341-346 and 414-416).
THEOREM ClientAlive == Spec => []DeadClient
<1>1. IInv => DeadClient
  BY DEF IInv, Late
<1> QED
  BY <1>1, Inductive, PTL

\* NEWKEYS is sent only to a host that proved its key and that the verifier
\* accepted (client.ts:365-396).
THEOREM HostFirst == Spec => []HostVerifiedFirst
<1>1. IInv => HostVerifiedFirst
  <2> SUFFICES ASSUME IInv, Got("NEWKEYS")
               PROVE  call.step > 10 /\ server.fault # "signature"
    BY Numbers DEF HostVerifiedFirst
  <2>1. PICK j \in DOMAIN server.got : server.got[j].what = "NEWKEYS"
    BY DEF Got
  <2>2. j \in 1 .. Len(server.got) /\ Len(server.got) \in Nat /\ call.step \in Nat
    BY <2>1 DEF IInv, Types, Servers, Calls
  <2>3. server.got[j] = Packet(WrittenAs(j), Counting(j > 4, j - 5))
    BY <2>2 DEF IInv, Writes
  <2>4. j >= 4
    BY <2>1, <2>2, <2>3 DEF Packet, WrittenAs
  <2>5. call.step > 11
    <3>1. WrittenBefore(call.step) >= 4
      BY <2>2, <2>4 DEF IInv, Writes
    <3> QED
      BY <2>2, <3>1, SMTT(60) DEF WrittenBefore
  <2> QED
    BY <2>2, <2>5 DEF IInv, Reads
<1> QED
  BY <1>1, Inductive, PTL

\* No packet of a server that keeps to the protocol, and counts its MACs from
\* NEWKEYS on as the client does (an RFC 4253 server does not), is misread, whatever
\* guess it announces and however its packets are joined to chunks; the handshake
\* fails by what it sends aside, and by nothing else of it (client.ts:357-361, 372,
\* 387-402, 404 and 414).
THEOREM Understands == ASSUME Restarts PROVE Spec => []ServerUnderstood
<1>1. IInv => ServerUnderstood
  BY DEF IInv, Reads, Misread, Sends, Types, Servers, ServerUnderstood, None
<1> QED
  BY <1>1, Inductive, PTL

\* A server that counts packets from NEWKEYS on, as this client does, finds every
\* MAC right (cipher.ts:32).
THEOREM MacsAccepted == ASSUME Restarts PROVE Spec => []MacAccepted
<1>1. IInv => MacAccepted
  BY DEF IInv, Sends, MacAccepted
<1> QED
  BY <1>1, Inductive, PTL
=============================================================================
