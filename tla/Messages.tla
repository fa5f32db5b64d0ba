------------------------------ MODULE Messages ------------------------------
(***************************************************************************)
(* The messages of the SSH protocols and of SFTP: for each, the unit it     *)
(* starts with and the fields that its formatter writes and its parser      *)
(* reads, in their order.  Format and Parse are the formatter and the       *)
(* parser of a message; Parse yields no value when the code throws.         *)
(***************************************************************************)
EXTENDS Fields

(***************************************************************************)
(* Words of the protocols                                                   *)
(***************************************************************************)
Session == 1000
Exec == 1001
Subsystem == 1002
ExitStatus == 1003
None == 1004
PublicKey == 1005

Message(code, fields) == [head |-> <<code>>, fields |-> fields]
Transcript(fields) == [head |-> <<>>, fields |-> fields]

CanFormat(m, v) == \A i \in DOMAIN m.fields : Accepts(m.fields[i], v[i])

Format(m, v) == m.head \o FlattenSeq([i \in DOMAIN m.fields |-> Write(m.fields[i], v[i])])

Parse(m, payload) ==
  IF IsPrefix(m.head, payload)
  THEN Whole(ReadSeq(Read, m.fields, SubSeq(payload, Len(m.head) + 1, Len(payload))))
  ELSE {}

(***************************************************************************)
(* transport.ts                                                             *)
(***************************************************************************)
Disconnect == Message(1, <<Uint, Text, Tag>>)
Ignore == Message(2, <<Bytes>>)
Unimplemented == Message(3, <<Uint>>)
Debug == Message(4, <<Boolean, Text, Tag>>)

(***************************************************************************)
(* kex.ts: the proposal ends with its two optional language lists, the      *)
(* guess flag and a reserved zero.                                          *)
(***************************************************************************)
KexInit ==
  Message(20, <<Raw(2)>> \o [i \in 1..8 |-> Algorithms] \o <<Names, Names, Boolean, Zero>>)
NewKeys == Message(21, <<>>)
KexEcdhInit == Message(30, <<Some>>)
KexEcdhReply == Message(31, <<Some, Some, Some>>)

(* What is hashed: the two identifications, the two proposals, the host key, *)
(* both ephemeral keys and the shared secret.                               *)
ExchangeHashInput ==
  Transcript(<<Some, Some, Some, Some, Some, Fixed(KeyLength), Fixed(KeyLength), Secret>>)

(***************************************************************************)
(* auth.ts                                                                  *)
(***************************************************************************)
ServiceRequest == Message(5, <<Name>>)
ServiceAccept == Message(6, <<Name>>)
UserAuthNone == Message(50, <<User, Name, Word(None)>>)
UserAuthPublicKey == Message(50, <<User, Name, Word(PublicKey), Proof>>)
UserAuthFailure == Message(51, <<Names, Boolean>>)
UserAuthSuccess == Message(52, <<>>)

(* What is signed: the session, then the request up to its signature. *)
UserAuthSignatureData ==
  Transcript(<<Some, Uint, User, Name, Word(PublicKey), Boolean, Name, Bytes>>)

(***************************************************************************)
(* connection.ts                                                            *)
(***************************************************************************)
GlobalRequest == Message(80, <<Name, Boolean, Rest>>)
GlobalRequestSuccess == Message(81, <<Rest>>)
GlobalRequestFailure == Message(82, <<>>)
SessionChannelOpen == Message(90, <<Word(Session), Uint, Window, Window>>)
ChannelOpenConfirmation == Message(91, <<Uint, Uint, Window, Window>>)
ChannelOpenFailure == Message(92, <<Uint, Uint, Strict, Tag>>)
ChannelWindowAdjust == Message(93, <<Uint, Window>>)
ChannelData == Message(94, <<Uint, Bytes>>)
ChannelExtendedData == Message(95, <<Uint, Uint, Bytes>>)
ChannelEof == Message(96, <<Uint>>)
ChannelClose == Message(97, <<Uint>>)
ChannelRequest == Message(98, <<Uint, Name, Boolean, Rest>>)
ExecRequest == Message(98, <<Uint, Word(Exec), Boolean, Strict>>)
SubsystemRequest == Message(98, <<Uint, Word(Subsystem), Boolean, Strict>>)
ExitStatusRequest == Message(98, <<Uint, Word(ExitStatus), False, Uint>>)
ChannelRequestSuccess == Message(99, <<Uint>>)
ChannelRequestFailure == Message(100, <<Uint>>)

(***************************************************************************)
(* protocol/sftp.ts                                                         *)
(***************************************************************************)
PathRequest(code) == Message(code, <<Uint, Text>>)
HandleRequest(code) == Message(code, <<Uint, Some>>)

SftpInit == Message(1, <<Uint, Extensions>>)
SftpVersion == Message(2, <<Uint, Extensions>>)
SftpOpen == Message(3, <<Uint, Text, Uint, Zero>>)
SftpClose == HandleRequest(4)
SftpRead == Message(5, <<Uint, Some, Uint, Uint>>)
SftpWrite == Message(6, <<Uint, Some, Uint, Bytes>>)
SftpFStat == HandleRequest(8)
SftpSetStat == Message(9, <<Uint, Text, Attributes>>)
SftpFSetStat == Message(10, <<Uint, Some, Attributes>>)
SftpOpenDir == PathRequest(11)
SftpReadDir == HandleRequest(12)
SftpRemove == PathRequest(13)
SftpMkdir == Message(14, <<Uint, Text, Attributes>>)
SftpRmdir == PathRequest(15)
SftpRealPath == PathRequest(16)
SftpStat == PathRequest(17)
SftpRename == Message(18, <<Uint, Text, Text>>)
SftpStatus == Message(101, <<Uint, Uint, Text, Text>>)
SftpHandle == HandleRequest(102)
SftpData == Message(103, <<Uint, Bytes>>)
SftpName == Message(104, <<Uint, Entries>>)
SftpAttributes == Message(105, <<Uint, Attributes>>)

(***************************************************************************)
(* The parsers of one protocol, of which a peer chooses by the first units. *)
(* ChannelRequest reads what all channel requests share, so it also takes    *)
(* the three that have a parser of their own.                               *)
(***************************************************************************)
SshMessages ==
  {Disconnect, Ignore, Unimplemented, Debug, KexInit, NewKeys, KexEcdhInit, KexEcdhReply,
   ServiceRequest, ServiceAccept, UserAuthNone, UserAuthPublicKey, UserAuthFailure, UserAuthSuccess,
   GlobalRequest, GlobalRequestSuccess, GlobalRequestFailure, SessionChannelOpen,
   ChannelOpenConfirmation, ChannelOpenFailure, ChannelWindowAdjust, ChannelData, ChannelExtendedData,
   ChannelEof, ChannelClose, ChannelRequest, ExecRequest, SubsystemRequest, ExitStatusRequest,
   ChannelRequestSuccess, ChannelRequestFailure}

SftpMessages ==
  {SftpInit, SftpVersion, SftpOpen, SftpClose, SftpRead, SftpWrite, SftpFStat, SftpSetStat, SftpFSetStat,
   SftpOpenDir, SftpReadDir, SftpRemove, SftpMkdir, SftpRmdir, SftpRealPath, SftpStat, SftpRename,
   SftpStatus, SftpHandle, SftpData, SftpName, SftpAttributes}

(***************************************************************************)
(* Properties of the formats                                                *)
(***************************************************************************)
IsOpenEnded(m) == m.fields # <<>> /\ m.fields[Len(m.fields)] \in {Rest, Extensions}

(* The texts of a field, which are UTF-8 with any marks in it. *)
TextsOf(f, v) ==
  LET Types(attributes) ==
        IF "extended" \in DOMAIN attributes THEN {pair[1] : pair \in ToSet(attributes.extended)} ELSE {}
  IN  CASE f \in {Text, Strict, User, Tag} -> {v}
        [] f = Attributes -> Types(v)
        [] f = Entries -> UNION {{e[1], e[2]} \cup Types(e[3]) : e \in ToSet(v)}
        [] OTHER -> {}
PlainTexts(m, v) == \A i \in DOMAIN m.fields : \A text \in TextsOf(m.fields[i], v[i]) : IsPlain(text)

(* The values that a parser gives back as they were: TextEncoder and        *)
(* TextDecoder change lone surrogates and drop a leading byte order mark, a *)
(* language tag is written with a NUL that no parser takes, and an empty    *)
(* list of extended attributes is not written.                              *)
Survives(m, v) ==
  /\ PlainTexts(m, v)
  /\ \A i \in DOMAIN m.fields :
       CASE m.fields[i] = Tag -> ~Contains(v[i], Nul)
         [] m.fields[i] = Attributes -> "extended" \in DOMAIN v[i] => v[i].extended # <<>>
         [] OTHER -> TRUE

(* A formatted value is read back by its own parser, as it was, and by no   *)
(* other parser of its protocol.                                            *)
ReadBack(protocol, m, v, payload) ==
  Survives(m, v) =>
    \A n \in protocol : \A values \in {Parse(n, payload)} :
      IF n = m THEN values = {v} ELSE values # {} <=> n = ChannelRequest /\ m.head = n.head

(* No parser takes a payload that is cut off or that goes on after its end. *)
ExactLength(m, payload) ==
  IsOpenEnded(m) \/
    \A other \in {Append(payload, 1)} \cup {SubSeq(payload, 1, n) : n \in 0..(Len(payload) - 1)} :
      Parse(m, other) = {}

(* What is read from a payload, however it was written, the formatter takes, *)
(* and what it writes is read and written again without a further change,    *)
(* unless a text of it starts with a byte order mark.  Such a text is read   *)
(* where the payload has two, and the next reader drops the second too; the  *)
(* formatters of connection.ts refuse it.                                    *)
Stable(m, payload) ==
  \A v \in Parse(m, payload) :
    /\ CanFormat(m, v) <=> \A i \in DOMAIN m.fields : m.fields[i] = Strict => IsPlain(v[i])
    /\ PlainTexts(m, v) => \A written \in {Format(m, v)} :
         \A again \in {Parse(m, written)} :
           again # {} /\ \A w \in again : Format(m, w) = written
=============================================================================
