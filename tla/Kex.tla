--------------------------------- MODULE Kex ---------------------------------
(***************************************************************************)
(* The key exchange of kex.ts and cipher.ts as connect() runs it: the       *)
(* negotiation, the guess of the server, the exchange hash, the server's    *)
(* signature over it, and the six keys of the two directions.  X25519,      *)
(* SHA-256 and Ed25519 are symbolic: the shared secret is the product of    *)
(* the two private numbers, a hash is what went into it, a signature names  *)
(* its key and its hash.                                                    *)
(***************************************************************************)
EXTENDS Messages, FiniteSets

CONSTANT HashLength   \* the 32 bytes of SHA-256

(***************************************************************************)
(* Negotiation.  Of a proposal, as it is parsed, 2..9 are the lists that    *)
(* must share an algorithm, 10 and 11 those of languages, 12 the flag that  *)
(* a guessed packet follows.                                                *)
(***************************************************************************)
Curve == 1100
Aes == 1101
Hmac == 1102

createKexInit ==
  <<<<1, 2>>, <<<<Curve>>>>, <<<<Ed25519>>>>, <<<<Aes>>>>, <<<<Aes>>>>, <<<<Hmac>>>>, <<<<Hmac>>>>,
    <<<<None>>>>, <<<<None>>>>, <<>>, <<>>, FALSE, 0>>

Required == 2..9

(* selectOptional: the client's algorithms that the server has, the selected one first. *)
Shared(client, server) == SelectSeq(client, LAMBDA a : Contains(server, a))

negotiateKexInit(client, server) ==
  IF \E i \in Required : Shared(client[i], server[i]) = <<>> THEN {}
  ELSE {[i \in Required |-> Head(Shared(client[i], server[i]))]}

isKexGuessCorrect(proposal, selection) ==
  Head(proposal[2]) = selection[2] /\ Head(proposal[3]) = selection[3]

SkipsGuess(proposal, selection) == proposal[12] /\ ~isKexGuessCorrect(proposal, selection)

(***************************************************************************)
(* The exchange hash and the keys                                           *)
(***************************************************************************)
Public(private) == <<private, 1>>
Zeroes == [i \in 1..KeyLength |-> 0]

(* A point of small order gives zeroes. *)
Secret25519(private, public) ==
  IF public = Zeroes THEN Zeroes
  ELSE <<(private * public[1]) % Radix, (private * public[1]) \div Radix>>

(* Mutant: the proposal of the client stands in for that of the server. *)
HashInputOneProposal(view, secret) ==
  <<view.clientIdentification, view.serverIdentification, view.clientKexInit, view.clientKexInit,
    view.hostKey, view.clientPublic, view.serverPublic, secret>>

(* encodeExchangeHashInput, of what one side saw *)
HashInput(view, secret) ==
  <<view.clientIdentification, view.serverIdentification, view.clientKexInit, view.serverKexInit,
    view.hostKey, view.clientPublic, view.serverPublic, secret>>

ExchangeHash(view, secret) == Format(ExchangeHashInput, HashInput(view, secret))

(* Two parts of a seed are apart because the secret is written with its length. *)
InitialSeed(k, h, label, session) == [k |-> k, h |-> h, label |-> label, session |-> session, material |-> <<>>]
NextSeed(k, h, material) == [k |-> k, h |-> h, label |-> "", session |-> <<>>, material |-> material]
Sha256(seed) == [i \in 1..HashLength |-> <<seed, i>>]

deriveKeyMaterial(secret, h, session, label, length) ==
  LET k == MpintBytes(x25519SecretToMpint(secret))
      Seed(material) == IF material = <<>> THEN InitialSeed(k, h, label, session) ELSE NextSeed(k, h, material)
      Expanded[blocks \in Nat] ==
        IF blocks = 0 THEN <<>>
        ELSE Expanded[blocks - 1] \o Sha256(Seed(Expanded[blocks - 1]))
  IN  SubSeq(Expanded[(length + HashLength - 1) \div HashLength], 1, length)

Labels(direction) ==
  IF direction = "client-to-server" THEN [iv |-> "A", key |-> "C", mac |-> "E"]
  ELSE [iv |-> "B", key |-> "D", mac |-> "F"]

CipherKeys(secret, h, direction) ==
  LET label == Labels(direction)
      Material(l, length) == deriveKeyMaterial(secret, h, h, l, length)
  IN  <<Material(label.iv, HashLength \div 2), Material(label.key, HashLength \div 2),
        Material(label.mac, HashLength)>>

(* The outbound and the inbound keys of the client *)
Keys(secret, h) == <<CipherKeys(secret, h, "client-to-server"), CipherKeys(secret, h, "server-to-client")>>

(***************************************************************************)
(* One exchange: the numbers of the two sides, the proposal and host key of *)
(* the server, whether its signature is right, and one item that reaches    *)
(* the other side as another one, or none.                                  *)
(***************************************************************************)
HostKey(type) == WriteString(<<type>>) \o WriteString(<<5, 6>>)

Sent(x) ==
  [clientIdentification |-> <<10>>, serverIdentification |-> <<11>>,
   clientKexInit |-> Format(KexInit, createKexInit), serverKexInit |-> Format(KexInit, x.proposal),
   hostKey |-> HostKey(x.hostType), clientPublic |-> Public(x.client), serverPublic |-> Public(x.server)]

Received(x, items) == IF x.changed \in items THEN [Sent(x) EXCEPT ![x.changed] = x.to] ELSE Sent(x)
ClientView(x) == Received(x, {"serverIdentification", "serverKexInit", "hostKey", "serverPublic"})
ServerView(x) == Received(x, {"clientIdentification", "clientKexInit", "clientPublic"})

ClientSecret(x) == Secret25519(x.client, ClientView(x).serverPublic)
ServerSecret(x) == Secret25519(x.server, ServerView(x).clientPublic)
ServerHash(x) == ExchangeHash(ServerView(x), ServerSecret(x))

Signature(x) ==
  [format |-> IF x.signature = "otherFormat" THEN Rsa ELSE Ed25519,
   key |-> IF x.signature = "otherKey" THEN <<>> ELSE Sent(x).hostKey,
   hash |-> ServerHash(x)]

(* verifyCurve25519Sha256Reply: the hash that the client takes its keys from, if it throws nothing *)
VerifiedHash(x) ==
  LET Verified(view, signature, items) ==
        /\ KeyTypes(view.hostKey) = {<<Ed25519>>} /\ signature.format = Ed25519
        /\ CanFormat(ExchangeHashInput, items)
        /\ signature.key = view.hostKey /\ signature.hash = Format(ExchangeHashInput, items)
  IN  UNION {{signature.hash : items \in {items \in {HashInput(view, ClientSecret(x))} :
                                            Verified(view, signature, items)}} :
               view \in {ClientView(x)}, signature \in {Signature(x)}}

Selections(x) ==
  UNION {negotiateKexInit(createKexInit, proposal) : proposal \in Parse(KexInit, ClientView(x).serverKexInit)}

(* What connect() has after NEWKEYS *)
Outcomes(x) ==
  IF Selections(x) = {} THEN {}
  ELSE {Keys(ClientSecret(x), h) : h \in VerifiedHash(x)}

(***************************************************************************)
(* Properties of an exchange                                                *)
(***************************************************************************)
(* The client goes on exactly when the server has its algorithms, signed    *)
(* with the right key what both of them saw alike, and gave no point of     *)
(* small order; both sides then hold the same keys, of which no two are     *)
(* equal.  It skips a packet exactly when the server announced one for      *)
(* another preferred key exchange or host key.                              *)
Agreed(x) ==
  LET right == /\ x.changed = "nothing" /\ x.signature = "right" /\ x.hostType = Ed25519
               /\ \A i \in Required : Contains(x.proposal[i], Head(createKexInit[i]))
  IN  /\ \A keys \in {Keys(ServerSecret(x), ServerHash(x))} : \A all \in {keys[1] \o keys[2]} :
           /\ Outcomes(x) = IF right THEN {keys} ELSE {}
           /\ \A i, j \in DOMAIN all : i # j => all[i] # all[j]
      /\ x.changed = "nothing" => \A s \in Selections(x) :
           SkipsGuess(x.proposal, s) <=>
             x.proposal[12] /\ \E i \in {2, 3} : Head(x.proposal[i]) # Head(createKexInit[i])

(* RFC 8731, section 3.1: the secret is hashed as the number that its bytes *)
(* are in network byte order (kex.ts:242, "Computes the RFC 8731            *)
(* curve25519-sha256 exchange hash").                                       *)
NetworkOrder(x) ==
  \A h \in VerifiedHash(x) : IsSuffix(WriteString(MpintBytes(BigEndian(ClientSecret(x)))), h)

(* Key material of any length starts with the shorter ones, and no unit of  *)
(* it occurs twice.                                                         *)
Expands(secret) ==
  LET Material(n) == deriveKeyMaterial(secret, <<1>>, <<1>>, "A", n)
  IN  \A n \in 1..(3 * HashLength) :
        /\ Len(Material(n)) = n
        /\ IsPrefix(Material(n), Material(3 * HashLength))
        /\ Cardinality(ToSet(Material(n))) = n
=============================================================================
