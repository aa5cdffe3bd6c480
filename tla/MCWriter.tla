------------------------------ MODULE MCWriter ------------------------------
(***************************************************************************)
(* Instances of Writer for TLC.                                            *)
(***************************************************************************)
EXTENDS Writer, TLC

CONSTANTS chat, dev, o1, o2, o3, o4, b1, b2

Msg(o, b) == [chat |-> chat, dev |-> dev, op |-> o, body |-> b]

\* b2 is the larger body.
MCSize == [b \in Bodies |-> IF b = b2 THEN 3 ELSE 1]

\* Retries and a conflicting reuse of o1: inside a batch, in a batch that is one
\* group and in one that is split by bytes.
RetryRequests ==
  {<<Msg(o1, b1), Msg(o1, b1)>>, <<Msg(o2, b1), Msg(o1, b2)>>, <<Msg(o2, b1), Msg(o1, b1)>>}

\* A message of more than half of what a transaction may hold: of two in the queue
\* the writer keeps the second for the next round.
LargeRequests == {<<Msg(o2, b2)>>}

\* Clients are interchangeable.
Symmetry == Permutations(Clients)
=============================================================================
