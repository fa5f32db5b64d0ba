---------------------------- MODULE MCMessages ----------------------------
(***************************************************************************)
(* The values that are written and read: for each kind of field those that  *)
(* a formatter takes, those that it refuses, and those that only one of the *)
(* two directions takes; for each message one or two fields at a time.      *)
(***************************************************************************)
EXTENDS Messages

Texts == {<<97>>, <<>>, <<97, Nul>>, <<Space, Comma>>, <<Bom, 97>>, <<Bom, Bom, 97>>,
          <<97, Surrogate>>}

Blob(type, fields) == WriteString(<<type>>) \o fields
GoodKey == Blob(Ed25519, WriteString([i \in 1..KeyLength |-> i]))
Keys ==
  {GoodKey, Append(GoodKey, 1), Blob(Ed25519, WriteString(<<5>>)),
   Blob(Rsa, WriteString(<<1>>) \o WriteString(<<0, 2>>)), Blob(Rsa, WriteString(<<1>>) \o WriteString(<<2>>)),
   Blob(Rsa, WriteString(<<1>>) \o WriteString(<<0, 1>>)),
   Blob(Ecdsa(256), WriteString(<<Nistp(256)>>) \o WriteString(<<4, 5, 6>>)),
   Blob(Ecdsa(384), WriteString(<<Nistp(256)>>) \o WriteString(<<4, 5, 6, 7>>)),
   Blob(Ecdsa(521), WriteString(<<Nistp(521)>>) \o WriteString(<<3, 5, 6, 7, 8>>)),
   Blob(97, <<7>>), WriteString(<<97, Comma>>)}
Signatures ==
  {Blob(Ed25519, WriteString([i \in 1..SignatureLength |-> i])), Blob(Ed25519, WriteString(<<5, 6>>)),
   Blob(Rsa, WriteString(<<1>>)), Blob(Rsa, WriteString(<<>>)), Blob(97, WriteString(<<>>)),
   Blob(Ecdsa(256), WriteString(WriteString(<<1>>) \o WriteString(<<0, 3>>))),
   Blob(Ecdsa(256), WriteString(WriteString(<<1>>) \o WriteString(<<3>>)))}
ValidKeys == {k \in Keys : KeyTypes(k) # {}}
ValidSignatures == {s \in Signatures : SignatureFormats(s) # {}}

AttributeSets ==
  {<<>>, [size |-> 7], [uid |-> 1], [uid |-> 1, gid |-> 2], [permissions |-> 3, atime |-> 4, mtime |-> 5],
   [size |-> 0, uid |-> 1, gid |-> 2, permissions |-> 3, atime |-> 4, mtime |-> 5,
    extended |-> <<<<<<97>>, <<Malformed>>>>>>],
   [extended |-> <<<<<<Nul>>, <<>>>>>>], [extended |-> <<<<<<Bom, Bom, 97>>, <<>>>>>>],
   [size |-> 1, extended |-> <<<<<<>>, <<>>>>, <<<<97>>, <<1, 2>>>>>>]}

Default(f) ==
  CASE f.kind \in {"uint", "window", "mpint", "positive"} -> 1
    [] f.kind = "boolean" -> TRUE
    [] f.kind = "zero" -> 0
    [] f.kind = "false" -> FALSE
    [] f.kind = "word" -> f.word
    [] f.kind \in {"fixed", "raw"} -> [i \in 1..f.length |-> i]
    [] f.kind = "secret" -> [i \in 1..KeyLength |-> IF i = 1 THEN 3 ELSE 0]
    [] f.kind \in {"names", "algorithms"} -> <<<<97>>>>
    [] f = Proof -> [signed |-> FALSE, key |-> GoodKey, signature |-> <<>>]
    [] f \in {Attributes, Entries, Extensions} -> <<>>
    [] OTHER -> <<97>>

Values(f) ==
  CASE f.kind \in {"uint", "window"} -> {0, 1, 9}
    [] f.kind = "boolean" -> BOOLEAN
    [] f.kind \in {"zero", "false", "word"} -> {Default(f)}
    [] f.kind \in {"fixed", "raw"} -> {Default(f), [i \in 1..f.length |-> 0], <<1>>}
    [] f.kind = "secret" -> {<<b, c>> : b \in 0..(Radix - 1), c \in 0..(Radix - 1)} \cup {<<1>>}
    [] f.kind \in {"names", "algorithms"} ->
         {<<<<97>>>>, <<>>, <<<<97>>, <<98, 99>>>>, <<<<97, Comma>>>>, <<<<>>>>, <<<<97, 97, 97>>>>, <<<<Space>>>>}
    [] f.kind \in {"mpint", "positive"} -> -(Radix ^ 3 + 2)..(Radix ^ 3 + 2)
    [] f = Proof -> [signed : {FALSE}, key : ValidKeys, signature : {<<>>}] \cup
                    [signed : {TRUE}, key : ValidKeys, signature : ValidSignatures]
    [] f = Attributes -> AttributeSets \cup {[extended |-> <<>>]}
    [] f = Entries -> {<<>>} \cup {<<<<n, <<>>, a>>>> : n \in {<<97>>, <<Nul>>, <<Bom, 97>>}, a \in AttributeSets} \cup
                      {<<<<<<97>>, <<>>, a>>, <<<<98>>, <<>>, <<>>>>>> : a \in AttributeSets}
    [] f = Extensions -> {<<>>, <<<<<<97>>, <<1, 2>>>>>>, <<<<<<>>, <<1, 2>>>>>>,
                          <<<<<<97>>, <<1, 2>>>>, <<<<97, Comma>>, <<>>>>>>}
    [] f.kind \in {"text", "strict", "tag", "user"} -> Texts
    [] OTHER -> {<<97>>, <<>>, <<97, Comma>>, <<Space>>}

(* A message that is a single mpint, for the numbers that no message has *)
Number == Message(0, <<Mpint>>)

Protocols == [ssh |-> SshMessages, sftp |-> SftpMessages, number |-> {Number},
              hash |-> {ExchangeHashInput}, signature |-> {UserAuthSignatureData}]

(* Two fields vary together in short messages, one at a time in long ones. *)
Cases(m) ==
  LET default == [i \in DOMAIN m.fields |-> Default(m.fields[i])]
      Together == {ij \in (DOMAIN default) \X (DOMAIN default) : ij[1] = ij[2] \/ (ij[1] < ij[2] /\ Len(default) <= 3)}
  IN  {default} \cup
      UNION {{[default EXCEPT ![ij[1]] = x, ![ij[2]] = y] : x \in Values(m.fields[ij[1]]), y \in Values(m.fields[ij[2]])} :
               ij \in Together}

(* What takes the place of one unit of a payload *)
Units == {0, 1, 2, 97, Comma, Bom, Malformed}

MessageUnderstood(name, m, v) ==
  CanFormat(m, v) =>
    \A payload \in {Format(m, v)}, protocol \in {Protocols[name]} :
      /\ ReadBack(protocol, m, v, payload)
      /\ ExactLength(m, payload)
      /\ \A i \in DOMAIN payload, u \in Units :
           \A changed \in {[payload EXCEPT ![i] = u]} : Stable(m, changed)
=============================================================================
