---------------------------- MODULE MCKnownHosts ----------------------------
(***************************************************************************)
(* Files of up to two lines of every kind, and of three entries that differ *)
(* in their markers, hosts and keys; and all short globs against short hosts. *)
(***************************************************************************)
EXTENDS KnownHosts, SequencesExt

Glob(text) == [negated |-> FALSE, hash |-> "none", text |-> text]
Hash(text) == [negated |-> FALSE, hash |-> "good", text |-> text]
BadHash == [negated |-> FALSE, hash |-> "malformed", text |-> <<"|">>]
Not(pattern) == [pattern EXCEPT !.negated = TRUE]

Entry(marker, patterns, key) ==
  [kind |-> "entry", indented |-> FALSE, marker |-> marker, patterns |-> patterns, key |-> key]

Letters == {"a", "b", "A", "B", "*", "?", "|"}
AllKeys == {"key", "other", "malformed"}

Host == <<"a", "B">>
Key == "key"
Markers == {"none", "@cert-authority", "@revoked"}

PatternLists ==
  {<<Glob(<<"a", "*">>)>>, <<Glob(<<"b">>)>>, <<Not(Glob(<<"?", "b">>)), Glob(<<"*">>)>>,
   <<Glob(<<"A", "b">>), Not(Hash(Host))>>, <<Hash(Host)>>, <<Hash(<<"a", "b">>)>>,
   <<Glob(<<"b">>), BadHash>>, <<Not(Glob(<<"*">>)), BadHash>>, <<Not(Glob(<<>>)), Glob(<<"*", "?">>)>>}

Entries == {Entry(m, p, k) : m \in Markers, p \in PatternLists, k \in {Key, "other"}}

BadLines ==
  {[Entry("none", <<Hash(Host)>>, Key) EXCEPT !.indented = TRUE], Entry("@unknown", <<Hash(Host)>>, Key),
   Entry("none", <<>>, Key), Entry("none", <<Glob(<<>>)>>, Key), Entry("none", <<Hash(Host)>>, "malformed")}

Lines == Entries \cup BadLines \cup {Blank, Comment}

Few == {Entry(m, p, k) : m \in Markers, p \in {<<Hash(Host)>>, <<Glob(<<"b">>)>>}, k \in {Key, "other"}}

NoFile == [file |-> <<>>, host |-> Host, key |-> Key]

Globs == BoundedSeq({"a", "b", "*", "?"}, 4)

HostChecks ==
  [file : BoundedSeq(Lines, 2) \cup [1..3 -> Few], host : {Host}, key : {Key}]
  \cup [file : {<<Entry("none", <<Glob(pattern)>>, Key)>> : pattern \in Globs},
        host : BoundedSeq({"a", "b"}, 4), key : {Key}]
=============================================================================
