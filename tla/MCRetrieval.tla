----------------------------- MODULE MCRetrieval -----------------------------
(***************************************************************************)
(* An instance of Retrieval for TLC: two calls to two resources, and a     *)
(* spare token for the first call.  The queries of the storage are         *)
(* compared with what they must return on all small inputs.                *)
(***************************************************************************)
EXTENDS Retrieval, Vault

CONSTANTS notes, wiki

MCResource == [r \in Requests |-> IF r = 1 THEN notes ELSE wiki]
MCRequestOf == [n \in Nonces |-> IF n = 2 THEN 2 ELSE 1]

Docs    == [phrase : {FALSE}, terms : {0}, angle : {-1, 0}]
           \cup [phrase : BOOLEAN, terms : {1}, angle : {None, 1}]
Queries == [text : BOOLEAN, vector : BOOLEAN, limit : 0..2]
Edges   == (1..3) \X (1..3)

\* Up to three documents, every kind of query, and limits around the configured one.
ASSUME SearchCorrect ==
  \A n \in 0..3 : \A docs \in [1..n -> Docs], q \in Queries, max \in 1..2 :
    SearchRight(docs, q, max)

\* Up to four edges between three nodes, every depth and limit that matters.
ASSUME GraphCorrect ==
  \A n \in 0..4 : \A rows \in [1..n -> Edges], depth \in 0..2, limit \in 1..2 :
    GraphRight(rows, 1, depth, limit)
=============================================================================
