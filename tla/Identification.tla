--------------------------- MODULE Identification ---------------------------
(***************************************************************************)
(* The identification lines of identification.ts and readPeerIdentification *)
(* of client.ts.  A unit of the input is a byte or a word of bytes that are *)
(* never split: the prefix "SSH-", a protocol version, a word without       *)
(* spaces and dashes.                                                       *)
(***************************************************************************)
EXTENDS Naturals, Sequences, SequencesExt, FiniteSetsExt

CONSTANT MaximumLineLength   \* the 255 bytes of a line, its CRLF included

Versions == {"2.0", "1.99"}
Printable(line) == \A i \in DOMAIN line : line[i] \notin {"control", "CR", "LF"}

(* Where a unit first occurs from a position on, or just after the end. *)
IndexFrom(line, unit, from) == Min({i \in from..Len(line) : line[i] = unit} \cup {Len(line) + 1})

(***************************************************************************)
(* parseIdentification yields the version, the software version and the     *)
(* comments of a line, the latter two as units; it has no value when it     *)
(* throws.  There are no comments where the code has undefined.             *)
(***************************************************************************)
parseIdentification(line) ==
  LET dash == IndexFrom(line, "-", 2)
      space == IndexFrom(line, " ", dash + 1)
      fields == [version |-> SubSeq(line, 2, dash - 1),
                 software |-> SubSeq(line, dash + 1, space - 1),
                 commented |-> space <= Len(line),
                 comments |-> SubSeq(line, space + 1, Len(line))]
  IN  IF /\ line # <<>> /\ Head(line) = "SSH-" /\ Printable(line)
         /\ dash <= Len(line)
         /\ fields.version \in {<<v>> : v \in Versions}
         /\ fields.software # <<>>
         /\ fields.commented => fields.comments # <<>>
      THEN {fields} ELSE {}

(* formatIdentification, without its CRLF, and what readPeerIdentification returns *)
LineOf(fields) ==
  <<"SSH-">> \o fields.version \o <<"-">> \o fields.software
    \o (IF fields.commented THEN <<" ">> \o fields.comments ELSE <<>>)

formatIdentification(fields) ==
  IF /\ fields.version \in {<<v>> : v \in Versions}
     /\ fields.software # <<>> /\ Printable(fields.software) /\ ~Contains(fields.software, " ")
     /\ fields.commented => fields.comments # <<>> /\ Printable(fields.comments)
  THEN {LineOf(fields) \o <<"CR", "LF">>} ELSE {}

(***************************************************************************)
(* readIdentification, on the input so far: more is needed, or it throws,   *)
(* or the identification and the units that it took.                        *)
(***************************************************************************)
More == [status |-> "more"]
Throws == [status |-> "throws"]
Found(fields, consumed) == [status |-> "found", fields |-> fields, consumed |-> consumed]

Content(line) ==
  LET n == Len(line)
  IN  IF n > 1 /\ line[n - 1] = "CR" THEN SubSeq(line, 1, n - 2) ELSE SubSeq(line, 1, n - 1)

(* One pass of the loop at a LF: the result, or More to go on behind the line *)
AtLine(line, consumed) ==
  LET content == Content(line)
  IN  IF Len(line) > MaximumLineLength THEN Throws
      ELSE IF content = <<>> \/ Head(content) # "SSH-" THEN More
      ELSE IF Len(content) = Len(line) - 1 \/ parseIdentification(content) = {} THEN Throws
      ELSE Found(CHOOSE f \in parseIdentification(content) : TRUE, consumed)

readIdentification(input) ==
  LET ends == SetToSortSeq({i \in DOMAIN input : input[i] = "LF"}, <)
      Start(k) == IF k = 1 THEN 1 ELSE ends[k - 1] + 1
      Result(k) == AtLine(SubSeq(input, Start(k), ends[k]), ends[k])
      decisive == {k \in DOMAIN ends : Result(k) # More}
  IN  IF decisive # {} THEN Result(Min(decisive))
      ELSE IF Len(input) + 1 - Start(Len(ends) + 1) > MaximumLineLength THEN Throws
      ELSE More

(***************************************************************************)
(* Whatever the chunks in which a stream arrives, the same identification   *)
(* is read from it, up to the same place, or the same stream is refused; a  *)
(* line that the client can put together again is the one that the server   *)
(* sent, which both of them hash; and every line that is formatted is read. *)
(***************************************************************************)
LineKept(stream) ==
  LET Read(n) == readIdentification(SubSeq(stream, 1, n))
      first == Min({n \in 0..Len(stream) : Read(n) # More} \cup {Len(stream)})
      result == Read(first)
  IN  /\ \A n \in first..Len(stream) : Read(n) = result
      /\ result.status = "found" =>
           /\ result.consumed = first
           /\ \A line \in formatIdentification(result.fields) : IsSuffix(line, SubSeq(stream, 1, first))
           /\ formatIdentification(result.fields) # {}

Sendable(fields) ==
  \A line \in formatIdentification(fields) :
    LET result == readIdentification(line)
    IN  IF Len(line) > MaximumLineLength THEN result = Throws ELSE result = Found(fields, Len(line))
=============================================================================
