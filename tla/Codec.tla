------------------------------- MODULE Codec -------------------------------
(***************************************************************************)
(* The SSH data types of primitives.ts and the kinds of fields that the    *)
(* message modules build from them.  A payload is a sequence of units: a    *)
(* byte, a boolean, a uint32 and a uint64 take one unit each, a string takes*)
(* its length and then one unit for each element.                          *)
(*                                                                         *)
(* A reader yields the set of <<value, unread units>> it can return: no     *)
(* element when the code throws, one otherwise.  A field is a record whose  *)
(* "kind" selects what is written and what is read; a message is a leading  *)
(* type unit and a sequence of fields.                                      *)
(***************************************************************************)
EXTENDS Integers, Sequences, SequencesExt, FiniteSetsExt

CONSTANTS
  MaxString,     \* DEFAULT_MAX_STRING_LENGTH
  MaxName,       \* the 64 bytes of a name in a name-list and of a key type
  KeyLength,     \* the 32 bytes of an X25519 or Ed25519 public key
  SignatureLength, \* the 64 bytes of an Ed25519 signature
  Radix          \* values of one byte of an mpint, its sign bit included

(***************************************************************************)
(* Elements of strings.  Every other number stands for a word or a letter   *)
(* that is allowed everywhere.                                              *)
(***************************************************************************)
Nul == 0
Space == 32
Comma == 44
Bom == 252           \* U+FEFF, which TextDecoder drops at the start of a text
Replacement == 253   \* U+FFFD, which TextEncoder writes for a lone surrogate
Surrogate == 254     \* a lone surrogate, only in JavaScript strings
Malformed == 255     \* bytes that are not UTF-8, only in payloads

Printable(s) == \A i \in DOMAIN s : s[i] \notin {Nul, Space, Bom, Replacement, Surrogate, Malformed}
IsName(s) == s # <<>> /\ Printable(s) /\ ~Contains(s, Comma)
IsKeyType(s) == Len(s) \in 1..MaxName /\ Printable(s)

TextEncode(s) == [i \in DOMAIN s |-> IF s[i] = Surrogate THEN Replacement ELSE s[i]]
TextDecode(s) == IF s # <<>> /\ s[1] = Bom THEN Tail(s) ELSE s

(* The texts that survive TextEncoder and TextDecoder. *)
IsPlain(s) == TextDecode(TextEncode(s)) = s

(***************************************************************************)
(* SSHReader: each read takes units from the front or throws.               *)
(***************************************************************************)
ReadUint(s) == IF s = <<>> THEN {} ELSE {<<Head(s), Tail(s)>>}

ReadBoolean(s) == {<<r[1] # 0, r[2]>> : r \in ReadUint(s)}

(* Mutant: what is left of a truncated string is returned. *)
ReadStringUnchecked(s) ==
  IF s # <<>> /\ Head(s) <= MaxString
  THEN {<<SubSeq(s, 2, Min({Head(s) + 1, Len(s)})), SubSeq(s, Head(s) + 2, Len(s))>>}
  ELSE {}

ReadString(s) ==
  IF s # <<>> /\ Head(s) <= MaxString /\ Head(s) < Len(s)
  THEN {<<SubSeq(s, 2, Head(s) + 1), SubSeq(s, Head(s) + 2, Len(s))>>}
  ELSE {}

ReadUtf8(s) ==
  {<<TextDecode(r[1]), r[2]>> : r \in {r \in ReadString(s) :
     ~Contains(r[1], Malformed) /\ ~Contains(r[1], Nul)}}

(* Commas end a name; the loop refuses empty, long and unprintable names. *)
ReadNameList(s) ==
  LET Cut(names, c) == IF c = Comma THEN Append(names, <<>>)
                       ELSE [names EXCEPT ![Len(names)] = Append(@, c)]
      Split(bytes) == IF bytes = <<>> THEN <<>> ELSE FoldLeft(Cut, <<<<>>>>, bytes)
  IN  {r \in {<<Split(r[1]), r[2]>> : r \in ReadString(s)} :
         \A i \in DOMAIN r[1] : Len(r[1][i]) \in 1..MaxName /\ Printable(r[1][i])}

Negative(bytes) == bytes[1] >= Radix \div 2

Canonical(bytes) ==
  /\ bytes # <<>> /\ bytes[1] = 0 => Len(bytes) > 1 /\ Negative(Tail(bytes))
  /\ Len(bytes) > 1 /\ bytes[1] = Radix - 1 => ~Negative(Tail(bytes))

BigEndian(bytes) == FoldLeft(LAMBDA n, b : n * Radix + b, 0, bytes)

ReadMpint(s) ==
  {<<BigEndian(r[1]) - (IF r[1] # <<>> /\ Negative(r[1]) THEN Radix ^ Len(r[1]) ELSE 0), r[2]>> :
     r \in {r \in ReadString(s) : (\A i \in DOMAIN r[1] : r[1][i] < Radix) /\ Canonical(r[1])}}

(***************************************************************************)
(* SSHWriter                                                                *)
(***************************************************************************)
WriteString(bytes) == <<Len(bytes)>> \o bytes

WriteNameList(names) ==
  WriteString(FoldLeft(LAMBDA s, n : IF s = <<>> THEN n ELSE s \o <<Comma>> \o n, <<>>, names))

Digits(n, width) == [i \in 1..width |-> (n \div Radix ^ (width - i)) % Radix]

(* The shortest width whose range, given by the operator, holds the value. *)
Shortest(Fits(_)) == CHOOSE w \in 1..16 : Fits(w) /\ \A x \in 1..(w - 1) : ~Fits(x)

MpintBytes(v) ==
  LET positive == Digits(v, Shortest(LAMBDA w : v < Radix ^ w))
      width == Shortest(LAMBDA w : v >= -(Radix ^ w \div 2))
  IN  IF v = 0 THEN <<>>
      ELSE IF v < 0 THEN Digits(Radix ^ width + v, width)
      ELSE IF Negative(positive) THEN <<0>> \o positive
      ELSE positive

(***************************************************************************)
(* Sequencing: a field of the sequence is read where the one before ended.  *)
(***************************************************************************)
ReadSeq(Reader(_, _), fields, s) ==
  FoldLeft(LAMBDA read, f : UNION {{<<Append(a[1], r[1]), r[2]>> : r \in Reader(f, a[2])} : a \in read},
           {<<<<>>, s>>}, fields)

Whole(reads) == {r[1] : r \in {r \in reads : r[2] = <<>>}}
=============================================================================
