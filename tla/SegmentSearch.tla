--------------------------- MODULE SegmentSearch ---------------------------
(***************************************************************************)
(* The read side of near-real-time indexing, src/py/nrt/segment.py: one    *)
(* query fanned out over a set of segments and merged by score.            *)
(*                                                                         *)
(* A document is a natural number.  The query is fixed: Score[d] is the    *)
(* score of document d under it, 0 when d does not match.  Scores of       *)
(* matching documents are taken to be distinct, so a top-k list is the set *)
(* of its members; the order of ties is not modelled.                      *)
(***************************************************************************)
EXTENDS Naturals, FiniteSets

CONSTANT Score

\* The k best-scoring matching documents of S: what Index.search returns for
\* one segment, and what sorting and slicing [:k] leaves of the merged list.
TopK(S, k) ==
    LET matching == {d \in S : Score[d] > 0}
    IN  {d \in matching : Cardinality({e \in matching : Score[e] > Score[d]}) < k}

\* Faulty form: ask each segment for k hits only.
OverFetchExact(k, tombstones) == k

\* How many hits each segment is asked for (over_fetch_k).
OverFetch(k, tombstones) == k + Cardinality(tombstones)

\* Faulty form: merge without dropping tombstoned hits.
MergeUnfiltered(hits, tombstones, ext, k) == TopK(hits, k)

\* The merge of the per-segment lists: drop the tombstoned external ids, sort
\* by score, keep k.  ext[d] is the external id of document d.
MergeHits(hits, tombstones, ext, k) ==
    TopK({d \in hits : ext[d] \notin tombstones}, k)

\* SegmentSet.search over a set of segments given as sets of documents.
SegmentSetSearch(segs, tombstones, ext, k) ==
    MergeHits(UNION {TopK(s, OverFetch(k, tombstones)) : s \in segs},
              tombstones, ext, k)
=============================================================================
