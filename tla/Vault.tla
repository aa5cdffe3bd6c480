-------------------------------- MODULE Vault --------------------------------
(***************************************************************************)
(* The two queries of the encrypted AI storage (internal/aivault), as      *)
(* functions of the rows they read: Search scans the documents of a        *)
(* resource and keeps the best ones in a bounded list, GraphBFS scans the  *)
(* edges once per level.  Rows come in the order of their ids, which are   *)
(* their positions here.  What the queries must return is stated without   *)
(* lists and levels, and TLC compares both on all small inputs (MCRetrieval).*)
(***************************************************************************)
EXTENDS Integers, FiniteSets, SequencesExt

\* A limit that is not positive, or too large, is the configured one.
LimitOf(limit, max) == IF limit <= 0 \/ limit > max THEN max ELSE limit

-----------------------------------------------------------------------------
(* Search.  A document is [phrase, terms, angle]: whether its text has the  *)
(* phrase asked for, how many terms of it, and the cosine of its vector,    *)
(* None if it has none that fits.  Scores are in twentieths.                *)

None == 2
Score(d, q) ==
  (IF q.text THEN (IF d.phrase THEN 20 ELSE 0) + 2 * d.terms ELSE 0)
  + (IF q.vector /\ d.angle # None THEN 10 * (d.angle + 1) ELSE 0)

better(a, b) == a.score > b.score \/ (a.score = b.score /\ a.id < b.id)

\* A candidate replaces the worst of a full list if it is better.
Offer(out, c, limit) ==
  IF Len(out) < limit THEN Append(out, c)
  ELSE LET worst == CHOOSE i \in DOMAIN out : \A j \in DOMAIN out \ {i} : better(out[j], out[i])
       IN IF better(c, out[worst]) THEN [out EXCEPT ![worst] = c] ELSE out

\* Insertion by score: an item goes behind those that are not worse.
Insert(sorted, c) ==
  LET i == Cardinality({j \in DOMAIN sorted : sorted[j].score >= c.score})
  IN SubSeq(sorted, 1, i) \o <<c>> \o SubSeq(sorted, i + 1, Len(sorted))
sortResults(out) == FoldLeft(Insert, <<>>, out)

Candidates(docs, q) ==
  SelectSeq([i \in DOMAIN docs |-> [id |-> i, score |-> Score(docs[i], q)]],
            LAMBDA c : q.text => c.score # 0)

Search(docs, q, max) ==
  sortResults(FoldLeft(LAMBDA out, c : Offer(out, c, LimitOf(q.limit, max)), <<>>, Candidates(docs, q)))

\* What Search must return: the best candidates in the order of their scores, and no
\* document that misses the text unless its vector speaks for it.
BestOf(docs, q, max) ==
  LET all == ToSet(Candidates(docs, q))
  IN {c \in all : Cardinality({d \in all : better(d, c)}) < LimitOf(q.limit, max)}

SearchRight(docs, q, max) ==
  LET found == Search(docs, q, max) IN
  /\ ToSet(found) = BestOf(docs, q, max) /\ IsInjective(found)
  /\ \A i, j \in DOMAIN found : i < j => found[i].score >= found[j].score
  /\ \A i \in DOMAIN found : (q.text /\ ~q.vector) =>
       LET d == docs[found[i].id] IN d.phrase \/ d.terms > 0

-----------------------------------------------------------------------------
(* GraphBFS.  An edge is <<from, to>>.                                      *)

\* One row of the scan for a level; behind the limit nothing is read.
Visit(s, e, limit) ==
  IF Len(s.edges) >= limit \/ e[1] \notin s.frontier \/ e[2] \in s.seen THEN s
  ELSE [s EXCEPT !.seen = @ \cup {e[2]}, !.next = @ \cup {e[2]}, !.edges = Append(@, e)]

Level(s, rows, limit) ==
  LET scan == FoldLeft(LAMBDA t, e : Visit(t, e, limit), s, rows)
  IN [scan EXCEPT !.frontier = scan.next, !.next = {}]

GraphBFS(rows, start, depth, limit) ==
  FoldLeft(LAMBDA s, d : Level(s, rows, limit),
           [seen |-> {start}, frontier |-> {start}, next |-> {}, edges |-> <<>>],
           [d \in 1..depth |-> d])

\* The nodes within n edges of the start.
Within(rows, start, n) ==
  LET W[m \in 0..n] ==
        IF m = 0 THEN {start}
        ELSE W[m - 1] \cup {e[2] : e \in {f \in ToSet(rows) : f[1] \in W[m - 1]}}
  IN W[n]

\* What GraphBFS must return: a tree of shortest paths from the start, near nodes
\* first, with every node within the depth unless the limit cuts it off.
GraphRight(rows, start, depth, limit) ==
  LET found    == GraphBFS(rows, start, depth, limit)
      edges    == found.edges
      near     == Within(rows, start, depth)
      dist(n)  == CHOOSE k \in 0..depth :
                    n \in Within(rows, start, k) /\ (k > 0 => n \notin Within(rows, start, k - 1))
  IN /\ found.seen = {start} \cup {edges[i][2] : i \in DOMAIN edges}
     /\ found.seen \subseteq near
     /\ Len(edges) = Min({limit, Cardinality(near) - 1})
     /\ \A i \in DOMAIN edges :
          /\ edges[i][1] \in {start} \cup {edges[j][2] : j \in 1..(i - 1)}
          /\ dist(edges[i][2]) = dist(edges[i][1]) + 1
          /\ \A j \in 1..(i - 1) : dist(edges[j][2]) <= dist(edges[i][2])
=============================================================================
