------------------------------- MODULE MCKex -------------------------------
(***************************************************************************)
(* The exchanges that are checked: each list of the server with and without *)
(* the client's algorithm, first or second; then, under one proposal, all   *)
(* numbers, host keys, signatures and changes on the way.                   *)
(***************************************************************************)
EXTENDS Kex

Other == <<1199>>
Offers(own) == {<<own>>, <<Other>>, <<own, Other>>, <<Other, own>>}

Proposals ==
  {[createKexInit EXCEPT ![2] = kex, ![3] = host, ![i] = list, ![12] = follows] :
     kex \in Offers(<<Curve>>), host \in Offers(<<Ed25519>>), i \in {4, 9},
     list \in {<<<<Aes>>>>, <<<<None>>>>, <<<<None>>, <<Aes>>>>}, follows \in BOOLEAN}

Changes ==
  {<<"nothing", <<>>>>, <<"clientIdentification", <<11>>>>, <<"serverIdentification", <<10>>>>,
   <<"clientKexInit", Format(KexInit, [createKexInit EXCEPT ![12] = TRUE])>>,
   <<"serverKexInit", Format(KexInit, [createKexInit EXCEPT ![2] = Append(@, Other)])>>,
   <<"hostKey", WriteString(<<Ed25519>>) \o WriteString(<<6, 5>>)>>,
   <<"clientPublic", <<4, 1>>>>, <<"serverPublic", <<4, 1>>>>, <<"serverPublic", Zeroes>>,
   <<"serverPublic", <<1>>>>}

Exchange(proposal, client, server, hostType, signature, change) ==
  [proposal |-> proposal, client |-> client, server |-> server, hostType |-> hostType,
   signature |-> signature, changed |-> change[1], to |-> change[2]]

Exchanges ==
  {Exchange(p, 1, 2, Ed25519, "right", <<"nothing", <<>>>>) : p \in Proposals} \cup
  {Exchange(createKexInit, c, s, t, g, change) :
     c \in 1..3, s \in 1..3, t \in {Ed25519, Rsa}, g \in {"right", "otherKey", "otherFormat"}, change \in Changes}

(* Secrets of every value but zero *)
Secrets == {<<b, c>> : b \in 0..(Radix - 1), c \in 0..(Radix - 1)} \ {Zeroes}
=============================================================================
