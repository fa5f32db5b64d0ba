------------------------------- MODULE Fields -------------------------------
(***************************************************************************)
(* The kinds of fields in the messages of transport.ts, auth.ts, kex.ts,    *)
(* connection.ts and protocol/sftp.ts: which values a formatter takes       *)
(* (Accepts), the units it writes (Write) and what a parser reads (Read).   *)
(* The helpers that the modules repeat (encodeName, decodeUtf8, ...) are    *)
(* kinds, and so are the public-key and signature blobs of public_key.ts    *)
(* and signature.ts.                                                        *)
(***************************************************************************)
EXTENDS Codec

Field(kind) == [kind |-> kind]
Word(w) == [kind |-> "word", word |-> <<w>>]
Fixed(length) == [kind |-> "fixed", length |-> length]
Raw(length) == [kind |-> "raw", length |-> length]

Uint == Field("uint")
Window == Field("window")
Boolean == Field("boolean")
Bytes == Field("bytes")
Some == Field("some")
Name == Field("name")
Label == Field("label")
Text == Field("text")
Strict == Field("strict")
User == Field("user")
Tag == Field("tag")
Names == Field("names")
Algorithms == Field("algorithms")
Zero == Field("zero")
False == Field("false")
Rest == Field("rest")
Mpint == Field("mpint")
Positive == Field("positive")
Secret == Field("secret")
Proof == Field("proof")
Attributes == Field("attributes")
Entries == Field("entries")
Extensions == Field("extensions")

(***************************************************************************)
(* Fields that hold one value of an SSH data type                           *)
(***************************************************************************)
x25519SecretToMpint(bytes) == BigEndian(Reverse(bytes))

AcceptsScalar(f, v) ==
  CASE f.kind = "window" -> v # 0
    [] f.kind = "some" -> v # <<>>
    [] f.kind = "name" -> IsName(v)
    [] f.kind = "label" -> v # <<>> /\ Printable(v)
    [] f.kind = "text" -> ~Contains(v, Nul)
    [] f.kind = "strict" -> ~Contains(v, Nul) /\ IsPlain(v)
    [] f.kind = "user" -> v # <<>> /\ ~Contains(v, Nul)
    [] f.kind = "names" -> \A i \in DOMAIN v : IsName(v[i]) /\ Len(v[i]) <= MaxName
    [] f.kind = "algorithms" -> v # <<>> /\ \A i \in DOMAIN v : IsName(v[i]) /\ Len(v[i]) <= MaxName
    [] f.kind \in {"fixed", "raw"} -> Len(v) = f.length
    [] f.kind = "positive" -> v > 0
    [] f.kind = "secret" -> Len(v) = KeyLength /\ x25519SecretToMpint(v) # 0
    [] OTHER -> TRUE

WriteScalar(f, v) ==
  CASE f.kind \in {"uint", "window"} -> <<v>>
    [] f.kind = "boolean" -> <<IF v THEN 1 ELSE 0>>
    [] f.kind \in {"zero", "false"} -> <<0>>
    [] f.kind = "word" -> WriteString(f.word)
    [] f.kind \in {"rest", "raw"} -> v
    [] f.kind \in {"names", "algorithms"} -> WriteNameList(v)
    [] f.kind \in {"mpint", "positive"} -> WriteString(MpintBytes(v))
    [] f.kind = "secret" -> WriteString(MpintBytes(x25519SecretToMpint(v)))
    [] OTHER -> WriteString(TextEncode(v))

ReadScalar(f, s) ==
  CASE f.kind = "uint" -> ReadUint(s)
    [] f.kind = "window" -> {r \in ReadUint(s) : r[1] # 0}
    [] f.kind = "zero" -> {r \in ReadUint(s) : r[1] = 0}
    [] f.kind = "boolean" -> ReadBoolean(s)
    [] f.kind = "false" -> {r \in ReadBoolean(s) : ~r[1]}
    [] f.kind = "word" -> {r \in ReadString(s) : r[1] = f.word}
    [] f.kind = "bytes" -> ReadString(s)
    [] f.kind = "some" -> {r \in ReadString(s) : r[1] # <<>>}
    [] f.kind = "fixed" -> {r \in ReadString(s) : Len(r[1]) = f.length}
    [] f.kind = "raw" -> IF Len(s) < f.length THEN {}
                         ELSE {<<SubSeq(s, 1, f.length), SubSeq(s, f.length + 1, Len(s))>>}
    [] f.kind = "name" -> {r \in ReadString(s) : IsName(r[1])}
    [] f.kind = "label" -> {r \in ReadString(s) : r[1] # <<>> /\ Printable(r[1])}
    [] f.kind \in {"text", "strict", "tag"} -> ReadUtf8(s)
    [] f.kind = "user" -> {r \in ReadUtf8(s) : r[1] # <<>>}
    [] f.kind = "names" -> ReadNameList(s)
    [] f.kind = "algorithms" -> {r \in ReadNameList(s) : r[1] # <<>>}
    [] f.kind = "rest" -> {<<s, <<>>>>}
    [] f.kind = "mpint" -> ReadMpint(s)
    [] f.kind = "positive" -> {r \in ReadMpint(s) : r[1] > 0}
    [] f.kind = "secret" -> {<<Reverse(Digits(r[1], KeyLength)), r[2]>> :
                               r \in {r \in ReadMpint(s) : r[1] \in 1..(Radix ^ KeyLength - 1)}}

(***************************************************************************)
(* Public keys and signatures: blobs whose fields follow from their type.   *)
(* A blob of an unknown type is kept whole.                                 *)
(***************************************************************************)
Ed25519 == 2000
Rsa == 2001
RsaSha2 == {2002, 2003}
Curves == {256, 384, 521}
Ecdsa(curve) == 2100 + curve
Nistp(curve) == 3100 + curve
PointLength(curve) == CASE curve = 256 -> 3 [] curve = 384 -> 4 [] curve = 521 -> 5

KeyFields(type) ==
  CASE type = <<Ed25519>> -> <<Fixed(KeyLength)>>
    [] type = <<Rsa>> -> <<Positive, Positive>>
    [] \E c \in Curves : type = <<Ecdsa(c)>> ->
         LET c == CHOOSE c \in Curves : type = <<Ecdsa(c)>>
         IN  <<Word(Nistp(c)), Fixed(PointLength(c))>>
    [] OTHER -> <<Rest>>

(* The point of an ECDSA key starts with the byte of an uncompressed point. *)
KeyTypes(blob) ==
  {type[1] : type \in {t \in ReadString(blob) :
     /\ IsKeyType(t[1])
     /\ \E fields \in Whole(ReadSeq(ReadScalar, KeyFields(t[1]), t[2])) :
          Len(fields) = 2 /\ KeyFields(t[1])[1].kind = "word" => fields[2][1] = 4}}

SignatureAccepted(format, blob) ==
  CASE format = <<Ed25519>> -> Len(blob) = SignatureLength
    [] format \in {<<w>> : w \in RsaSha2 \cup {Rsa}} -> blob # <<>>
    [] \E c \in Curves : format = <<Ecdsa(c)>> ->
         Whole(ReadSeq(ReadScalar, <<Positive, Positive>>, blob)) # {}
    [] OTHER -> TRUE

SignatureFormats(wire) ==
  {r[1] : r \in {r \in Whole(ReadSeq(ReadScalar, <<Bytes, Bytes>>, wire)) :
     IsKeyType(r[1]) /\ SignatureAccepted(r[1], r[2])}}

(* The end of a publickey request: the key and, if it is signed, its signature. *)
AcceptsProof(v) ==
  /\ \A type \in KeyTypes(v.key) : IsName(type)
  /\ v.signed => SignatureFormats(v.signature) = KeyTypes(v.key)

WriteProof(v) ==
  LET type == CHOOSE t \in KeyTypes(v.key) : TRUE
  IN  WriteScalar(Boolean, v.signed) \o WriteString(type) \o WriteString(v.key)
        \o (IF v.signed THEN WriteString(v.signature) ELSE <<>>)

ReadProof(s) ==
  LET keys == {r \in ReadSeq(ReadScalar, <<Boolean, Name, Bytes>>, s) : KeyTypes(r[1][3]) = {r[1][2]}}
      Unsigned(r) == {<<[signed |-> FALSE, key |-> r[1][3], signature |-> <<>>], r[2]>>}
      Signed(r) == {<<[signed |-> TRUE, key |-> r[1][3], signature |-> w[1]], w[2]>> :
                      w \in {w \in ReadString(r[2]) : SignatureFormats(w[1]) = {r[1][2]}}}
  IN  UNION {IF r[1][1] THEN Signed(r) ELSE Unsigned(r) : r \in keys}

(***************************************************************************)
(* File attributes: a function on the names that are present, and on "extended" *)
(* a sequence of <<type, data>>.  One flag announces each group of names.   *)
(***************************************************************************)
Groups == <<<<"size">>, <<"uid", "gid">>, <<"permissions">>, <<"atime", "mtime">>>>
ExtendedFlag == 2 ^ Len(Groups)   \* SSH_FILEXFER_ATTR_EXTENDED, bit 31 of the flags
ExtendedPair == <<Text, Bytes>>

AcceptsAttributes(v) ==
  /\ \A g \in DOMAIN Groups : ToSet(Groups[g]) \subseteq DOMAIN v \/ ToSet(Groups[g]) \cap DOMAIN v = {}
  /\ "extended" \in DOMAIN v => \A i \in DOMAIN v.extended : AcceptsScalar(Text, v.extended[i][1])

(* A count that the rest can hold: the loop that reads the items throws for any other. *)
ReadCount(s) == {n \in ReadUint(s) : n[1] <= Len(n[2])}

WritePairs(pairs) ==
  FlattenSeq([i \in DOMAIN pairs |-> WriteString(TextEncode(pairs[i][1])) \o WriteString(pairs[i][2])])

WriteAttributes(v) ==
  LET announced == {g \in DOMAIN Groups : Groups[g][1] \in DOMAIN v}
      extended == IF "extended" \in DOMAIN v THEN v.extended ELSE <<>>
      flags == SumSet({2 ^ (g - 1) : g \in announced}) + (IF extended # <<>> THEN ExtendedFlag ELSE 0)
      Values(g) == IF g \in announced THEN [i \in DOMAIN Groups[g] |-> v[Groups[g][i]]] ELSE <<>>
  IN  <<flags>> \o FlattenSeq([g \in DOMAIN Groups |-> Values(g)])
        \o (IF extended # <<>> THEN <<Len(extended)>> \o WritePairs(extended) ELSE <<>>)

ReadAttributes(s) ==
  LET Has(flags, bit) == (flags \div bit) % 2 = 1
      Present(flags) == FlattenSeq([g \in DOMAIN Groups |-> IF Has(flags, 2 ^ (g - 1)) THEN Groups[g] ELSE <<>>])
      Pairs(n, t) == ReadSeq(LAMBDA f, u : ReadSeq(ReadScalar, f, u), [i \in 1..n |-> ExtendedPair], t)
      Extended(flags, t) ==
        IF Has(flags, ExtendedFlag)
        THEN UNION {{<<("extended" :> e[1]), e[2]>> : e \in Pairs(n[1], n[2])} : n \in ReadCount(t)}
        ELSE {<<<<>>, t>>}
      Named(names, values) == [k \in ToSet(names) |-> values[CHOOSE i \in DOMAIN names : names[i] = k]]
      After(f) == UNION {{<<Named(Present(f[1]), r[1]) @@ e[1], e[2]>> : e \in Extended(f[1], r[2])} :
                           r \in ReadSeq(ReadScalar, [i \in DOMAIN Present(f[1]) |-> Uint], f[2])}
  IN  UNION {After(f) : f \in {f \in ReadUint(s) : f[1] < 2 * ExtendedFlag}}

(***************************************************************************)
(* Counted directory entries, and extension pairs up to the end             *)
(***************************************************************************)
WriteEntries(v) ==
  <<Len(v)>> \o FlattenSeq([i \in DOMAIN v |->
     WriteString(TextEncode(v[i][1])) \o WriteString(TextEncode(v[i][2])) \o WriteAttributes(v[i][3])])

ReadEntries(s) ==
  LET Column(f, t) == IF f = Attributes THEN ReadAttributes(t) ELSE ReadScalar(f, t)
      Entry(f, t) == ReadSeq(Column, f, t)
  IN  UNION {ReadSeq(Entry, [i \in 1..n[1] |-> <<Text, Text, Attributes>>], n[2]) : n \in ReadCount(s)}

ReadExtensions(s) ==
  LET Pair(f, t) == ReadSeq(ReadScalar, f, t)
  IN  UNION {{<<e, <<>>>> : e \in Whole(ReadSeq(Pair, [i \in 1..n |-> <<Label, Bytes>>], s))} : n \in 0..Len(s)}

(***************************************************************************)
(* Any field, and any sequence of fields                                    *)
(***************************************************************************)
Accepts(f, v) ==
  CASE f = Proof -> AcceptsProof(v)
    [] f = Attributes -> AcceptsAttributes(v)
    [] f = Entries -> \A i \in DOMAIN v : /\ AcceptsScalar(Text, v[i][1]) /\ AcceptsScalar(Text, v[i][2])
                                          /\ AcceptsAttributes(v[i][3])
    [] f = Extensions -> \A i \in DOMAIN v : AcceptsScalar(Label, v[i][1])
    [] OTHER -> AcceptsScalar(f, v)

Write(f, v) ==
  CASE f = Proof -> WriteProof(v)
    [] f = Attributes -> WriteAttributes(v)
    [] f = Entries -> WriteEntries(v)
    [] f = Extensions -> WritePairs(v)
    [] OTHER -> WriteScalar(f, v)

Read(f, s) ==
  CASE f = Proof -> ReadProof(s)
    [] f = Attributes -> ReadAttributes(s)
    [] f = Entries -> ReadEntries(s)
    [] f = Extensions -> ReadExtensions(s)
    [] OTHER -> ReadScalar(f, s)
=============================================================================
