-------------------------- MODULE MCIdentification --------------------------
(***************************************************************************)
(* Streams of a preamble, an identification line and what follows it, and   *)
(* identifications to format.                                               *)
(***************************************************************************)
EXTENDS Identification

Preambles ==
  {<<>>, <<"LF">>, <<"CR", "LF">>, <<"word", "SSH-", "CR", "LF">>, <<"control", "LF", "word", "CR", "LF">>,
   <<"word", "CR">>, [i \in 1..MaximumLineLength |-> "word"], <<"SSH-", "LF">>,
   [i \in 1..(MaximumLineLength + 1) |-> IF i > MaximumLineLength THEN "LF" ELSE "word"]}

Tails == BoundedSeq({"-", " ", "word", "control"}, 4)
Beginnings == {<<"SSH-", "2.0">>, <<"SSH-", "1.99">>, <<"SSH-", "word">>, <<"SSH-">>, <<"word", "2.0">>}
Endings == {<<>>, <<"CR", "LF">>, <<"LF">>, <<"CR", "CR", "LF">>, <<"CR", "LF", "word", "LF">>}

StreamsAfter(preamble, beginning) ==
  {preamble \o beginning \o tail \o ending : tail \in Tails, ending \in Endings}

Identifications ==
  [version : {<<"2.0">>, <<"1.99">>, <<"word">>}, software : BoundedSeq({"-", " ", "word", "control"}, 3),
   commented : {FALSE}, comments : {<<>>}] \cup
  [version : {<<"2.0">>}, software : BoundedSeq({"-", "word"}, 2), commented : {TRUE},
   comments : BoundedSeq({"-", " ", "word", "control"}, 3)]
=============================================================================
