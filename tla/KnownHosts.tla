----------------------------- MODULE KnownHosts -----------------------------
(***************************************************************************)
(* known_hosts.ts: parsing a file, matching a host with the patterns of an  *)
(* entry, and the verdict on a presented key.  A behaviour parses a file,   *)
(* a line for each step, and then goes through its entries.                 *)
(*                                                                         *)
(* A line is a record: whether white space comes first, its marker, its     *)
(* patterns and its key.  A pattern is a glob, a sequence of characters, or *)
(* a hash with the host it was made of; "!" comes before a negated one.     *)
(* HMAC-SHA-1 is symbolic: a hash matches the host it was made of.          *)
(***************************************************************************)
EXTENDS Integers, Sequences

CONSTANTS
  Characters,  \* of a pattern or a name; "A" and "B" are upper case
  PublicKeys,  \* "malformed" is what cannot be parsed as one
  Checks       \* the files, with the host and the key that are presented

VARIABLES
  check,     \* the file, host and key of this behaviour
  at,        \* the next line, or the next entry
  entries,   \* entries of parseKnownHosts
  seen,      \* foundHost and trusted of verifyKnownHost
  verdict    \* "parsing", "verifying", or what was returned or thrown

hostVars == <<check, at, entries, seen, verdict>>

(***************************************************************************)
(* The lines of a file.  A marker other than two is "@unknown", and "none"  *)
(* is that of a line without one.                                           *)
(***************************************************************************)
Pattern == [negated : BOOLEAN, hash : {"none", "good", "malformed"}, text : Seq(Characters)]
Blank == [kind |-> "blank"]
Comment == [kind |-> "comment"]
Line ==
  {Blank, Comment} \cup
  [kind : {"entry"}, indented : BOOLEAN, marker : {"none", "@cert-authority", "@revoked", "@unknown"},
   patterns : Seq(Pattern), key : PublicKeys]

(* A name has no star.  "end" is no character, but what is read behind the last one. *)
Name == Seq(Characters \ {"*", "end"})

ASSUME HostsAssumption ==
  /\ {"a", "b"} \subseteq Characters
  /\ \A c \in Checks : c.file \in Seq(Line) /\ c.host \in Name /\ c.key \in PublicKeys

(* A pattern list may not have an empty element; the "!" of a negated one fills it. *)
Parseable(line) ==
  /\ ~line.indented
  /\ line.marker # "@unknown"
  /\ line.patterns # <<>>
  /\ \A i \in DOMAIN line.patterns :
       LET pattern == line.patterns[i]
       IN  pattern.negated \/ pattern.hash # "none" \/ pattern.text # <<>>
  /\ line.key # "malformed"

(***************************************************************************)
(* globMatches.  A character beyond the end equals none; star is the place  *)
(* of the last star, 0 without one.                                         *)
(***************************************************************************)
CharAt(text, i) == IF i \in DOMAIN text THEN text[i] ELSE "end"

GlobAt(p, v, star, starValue) ==
  [p |-> p, v |-> v, star |-> star, starValue |-> starValue, differs |-> FALSE]

(* A pass of the loop.  It goes on in the pattern, or the last star takes one *)
(* more character of the value, so there are no more passes than in GlobEnd.  *)
GlobPass(m, pattern, value) ==
  LET c == CharAt(pattern, m.p)
  IN  IF m.differs \/ m.v > Len(value) THEN m
      ELSE IF c \in {"?", value[m.v]} THEN GlobAt(m.p + 1, m.v + 1, m.star, m.starValue)
      ELSE IF c = "*" THEN GlobAt(m.p + 1, m.v, m.p, m.v)
      ELSE IF m.star # 0 THEN GlobAt(m.star + 1, m.starValue + 1, m.star, m.starValue + 1)
      ELSE [m EXCEPT !.differs = TRUE]

GlobEnd(pattern, value) ==
  LET passes == (Len(value) + 1) * (Len(pattern) + 2)
      After[n \in 0..passes] == IF n = 0 THEN GlobAt(1, 1, 0, 1) ELSE GlobPass(After[n - 1], pattern, value)
  IN  After[passes]

globMatches(pattern, value) ==
  LET end == GlobEnd(pattern, value)
  IN  ~end.differs /\ \A i \in end.p..Len(pattern) : pattern[i] = "*"

(***************************************************************************)
(* matchesHostPattern, matchesKnownHost: "throws" when a hash is malformed. *)
(***************************************************************************)
Lower(c) == IF c = "A" THEN "a" ELSE IF c = "B" THEN "b" ELSE c
LowerCase(text) == [i \in DOMAIN text |-> Lower(text[i])]

matchesHostPattern(pattern, host) ==
  CASE pattern.hash = "malformed" -> "throws"
    [] pattern.hash = "good" -> IF pattern.text = host THEN "matches" ELSE "differs"
    [] OTHER -> IF globMatches(LowerCase(pattern.text), LowerCase(host)) THEN "matches" ELSE "differs"

Empty(pattern) == pattern.hash = "none" /\ pattern.text = <<>>

(* One pass of the loop over the patterns, unless it has been left *)
Considered(so_far, pattern, host) ==
  LET result == matchesHostPattern(pattern, host)
  IN  IF so_far \in {"throws", "excluded"} \/ Empty(pattern) \/ result = "differs" THEN so_far
      ELSE IF result = "throws" THEN "throws"
      ELSE IF pattern.negated THEN "excluded"
      ELSE "matches"

matchesKnownHost(entry, host) ==
  LET After[n \in 0..Len(entry.patterns)] ==
        IF n = 0 THEN "differs" ELSE Considered(After[n - 1], entry.patterns[n], host)
  IN  After[Len(entry.patterns)]

(***************************************************************************)
(* parseKnownHosts                                                          *)
(***************************************************************************)
Unseen == [found |-> FALSE, trusted |-> FALSE]

HostsInit == check \in Checks /\ at = 1 /\ entries = <<>> /\ seen = Unseen /\ verdict = "parsing"

ParseLine ==
  /\ verdict = "parsing" /\ at <= Len(check.file)
  /\ LET line == check.file[at]
     IN  IF line.kind # "entry" THEN UNCHANGED <<entries, verdict>>
         ELSE IF Parseable(line) THEN entries' = Append(entries, line) /\ UNCHANGED verdict
         ELSE verdict' = "unparseable" /\ UNCHANGED entries
  /\ at' = at + 1
  /\ UNCHANGED <<check, seen>>

(* The file has been parsed, and verifyKnownHost is called with its entries. *)
Verify ==
  /\ verdict = "parsing" /\ at > Len(check.file)
  /\ verdict' = "verifying" /\ at' = 1
  /\ UNCHANGED <<check, entries, seen>>

(***************************************************************************)
(* verifyKnownHost                                                          *)
(***************************************************************************)
(* An entry that names the host and is not one of an authority. *)
Considers(entry) ==
  matchesKnownHost(entry, check.host) = "matches" /\ entry.marker # "@cert-authority"

(* Mutant: the first entry with the key decides, before a later revocation. *)
DecideFirst(entry) ==
  LET sameKey == entry.key = check.key
  IN  IF entry.marker = "@revoked"
      THEN verdict' = (IF sameKey THEN "revoked" ELSE verdict) /\ UNCHANGED seen
      ELSE /\ seen' = [found |-> TRUE, trusted |-> FALSE]
           /\ verdict' = IF sameKey THEN "trusted" ELSE verdict

(* What an entry that is considered decides: the verdict, or what has been seen. *)
Decide(entry) ==
  LET sameKey == entry.key = check.key
  IN  IF entry.marker = "@revoked"
      THEN verdict' = (IF sameKey THEN "revoked" ELSE verdict) /\ UNCHANGED seen
      ELSE seen' = [found |-> TRUE, trusted |-> seen.trusted \/ sameKey] /\ UNCHANGED verdict

VerifyEntry ==
  /\ verdict = "verifying" /\ at <= Len(entries)
  /\ LET entry == entries[at]
     IN  IF matchesKnownHost(entry, check.host) = "throws"
         THEN verdict' = "throws" /\ UNCHANGED seen
         ELSE IF Considers(entry) THEN Decide(entry)
         ELSE UNCHANGED <<seen, verdict>>
  /\ at' = at + 1
  /\ UNCHANGED <<check, entries>>

Conclude ==
  /\ verdict = "verifying" /\ at > Len(entries)
  /\ verdict' = IF seen.trusted THEN "trusted" ELSE IF seen.found THEN "changed" ELSE "unknown"
  /\ UNCHANGED <<check, at, entries, seen>>

HostsNext == ParseLine \/ Verify \/ VerifyEntry \/ Conclude

HostsSpec == HostsInit /\ [][HostsNext]_hostVars

(***************************************************************************)
(* What the verdict means, without an order of patterns and entries         *)
(***************************************************************************)
(* The characters that an element of a pattern stands for, from i up to j - 1 *)
StandsFor(c, value, i, j) ==
  IF c = "*" THEN i <= j ELSE j = i + 1 /\ c \in {"?", value[i]}

(* The elements of the pattern divide the value between them. *)
Denotes(pattern, value) ==
  \E begin \in [1..(Len(pattern) + 1) -> 1..(Len(value) + 1)] :
    /\ begin[1] = 1 /\ begin[Len(pattern) + 1] = Len(value) + 1
    /\ \A k \in 1..Len(pattern) : StandsFor(pattern[k], value, begin[k], begin[k + 1])

Fits(pattern, host) ==
  \/ pattern.hash = "good" /\ pattern.text = host
  \/ /\ pattern.hash = "none" /\ pattern.text # <<>>
     /\ Denotes(LowerCase(pattern.text), LowerCase(host))

Covers(entry, host) ==
  LET fitting == {i \in DOMAIN entry.patterns : Fits(entry.patterns[i], host)}
  IN  fitting # {} /\ \A i \in fitting : ~entry.patterns[i].negated

EntriesOf(file) == {file[i] : i \in {i \in DOMAIN file : file[i].kind = "entry"}}

Meaning(file, host, key) ==
  LET Has(marker, keys) ==
        \E e \in EntriesOf(file) : e.marker = marker /\ e.key \in keys /\ Covers(e, host)
  IN  IF Has("@revoked", {key}) THEN "revoked"
      ELSE IF Has("none", {key}) THEN "trusted"
      ELSE IF Has("none", PublicKeys) THEN "changed"
      ELSE "unknown"

IsBad(line) == \E i \in DOMAIN line.patterns : line.patterns[i].hash = "malformed"

(* The verdict on a host key is what the known_hosts file means, whatever   *)
(* the order of its lines and patterns.  A file is used whole or not at     *)
(* all, and verification throws only when a hash is malformed               *)
(* (known_hosts.ts:51-118, 200-223).                                        *)
HostTrusted ==
  LET file == check.file
      Whole == \A line \in EntriesOf(file) : Parseable(line)
  IN  /\ verdict = "unparseable" => ~Whole
      /\ verdict \notin {"parsing", "unparseable"} => Whole
      /\ verdict = "throws" => \E line \in EntriesOf(file) : IsBad(line)
      /\ verdict \notin {"parsing", "unparseable", "verifying", "throws"} =>
           verdict = Meaning(file, check.host, check.key)
=============================================================================
