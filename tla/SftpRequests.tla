---------------------------- MODULE SftpRequests ----------------------------
(***************************************************************************)
(* What the request table of an SFTP client promises, without ids, wires   *)
(* or abort signals: a call is settled once, an answer of the server       *)
(* settles at most one call, and that call is the one it answers or a      *)
(* later one, when the one it answers was settled without it.              *)
(***************************************************************************)
EXTENDS Naturals, Sequences

VARIABLE call    \* of each call made: how it stands

Waiting == [state |-> "waiting", of |-> 0]
Rejected == [state |-> "rejected", of |-> 0]
AnsweredBy(s) == [state |-> "answered", of |-> s]

Calls == DOMAIN call
Answered(r) == call[r].state = "answered"

Init == call = <<>>

Ask == call' = Append(call, Waiting)

\* The caller is told of a failure; the answer may still come.  Closing the
\* client rejects many calls at once.
Reject ==
  \E R \in (SUBSET {r \in Calls : call[r] = Waiting}) \ {{}} :
    call' = [r \in Calls |-> IF r \in R THEN Rejected ELSE call[r]]

\* The answer to call s settles call r.
Answer(r, s) ==
  /\ call[r] = Waiting
  /\ s = r \/ (s < r /\ call[s] # Waiting)
  /\ \A q \in Calls : Answered(q) => call[q].of # s
  /\ call' = [call EXCEPT ![r] = AnsweredBy(s)]

Next == Ask \/ Reject \/ \E r, s \in Calls : Answer(r, s)

Spec == Init /\ [][Next]_call
=============================================================================
