---------------------------- MODULE RunEvaluation ----------------------------
(***************************************************************************)
(* A query's run - the documents retrieved for it with their scores - as   *)
(* the program holds it (a dict, in insertion order), as its TREC file     *)
(* holds it, and as the metrics rank it.                                   *)
(*                                                                         *)
(* A run, and a file, is a sequence of [doc, score] records in which no    *)
(* document occurs twice.  Docids are numbers in their string order.       *)
(* Ratios are kept as <<numerator, denominator>>.                          *)
(***************************************************************************)
EXTENDS Naturals, Sequences, FiniteSets, SequencesExt

Docids(run) == {run[i].doc : i \in DOMAIN run}
ScoreOf(run, d) == run[CHOOSE i \in DOMAIN run : run[i].doc = d].score
Take(s, k) == SubSeq(s, 1, IF k < Len(s) THEN k ELSE Len(s))
-----------------------------------------------------------------------------
(* Python's sorted() is stable.  An order of a run is the set of the pairs   *)
(* of its places whose first comes before the second.                       *)

\* key=score, reverse=True: what ties keeps its order.
ByScore(run) ==
    {pair \in (DOMAIN run) \X (DOMAIN run) :
        LET a == run[pair[1]]
            b == run[pair[2]]
        IN  a.score > b.score \/ (a.score = b.score /\ pair[1] < pair[2])}

\* key=(score, docid), reverse=True
ByScoreAndDocid(run) ==
    {pair \in (DOMAIN run) \X (DOMAIN run) :
        LET a == run[pair[1]]
            b == run[pair[2]]
        IN  a.score > b.score \/ (a.score = b.score /\ a.doc > b.doc)}

Place(run, order, i) == 1 + Cardinality({j \in DOMAIN run : <<j, i>> \in order})

Sorted(run, order) ==
    [p \in DOMAIN run |-> run[CHOOSE i \in DOMAIN run : Place(run, order, i) = p]]

\* The hits on documents of a set, in the order of the run.
Among(run, docs) ==
    LET kept == {i \in DOMAIN run : run[i].doc \in docs}
    IN  [p \in 1 .. Cardinality(kept) |->
            run[CHOOSE i \in kept : Cardinality({j \in kept : j <= i}) = p]]
-----------------------------------------------------------------------------
(* Run files. *)

BugWriteRun(run, depth) == Take(Sorted(run, ByScore(run)), depth)

WriteRun(run, depth) == Take(Sorted(run, ByScoreAndDocid(run)), depth)

\* run[doc] = score
Assign(run, hit) ==
    IF hit.doc \in Docids(run)
    THEN [i \in DOMAIN run |-> IF run[i].doc = hit.doc THEN hit ELSE run[i]]
    ELSE Append(run, hit)

\* Line by line.
ReadRun(lines) ==
    LET run[n \in 0 .. Len(lines)] == IF n = 0 THEN <<>> ELSE Assign(run[n - 1], lines[n])
    IN  run[Len(lines)]

\* Reads no more than k hits of the query.
ReadRunTruncated(lines, k) ==
    LET bucket[n \in 0 .. Len(lines)] ==
            IF n = 0 THEN <<>>
            ELSE IF Len(bucket[n - 1]) >= k THEN bucket[n - 1]
            ELSE Assign(bucket[n - 1], lines[n])
    IN  bucket[Len(lines)]

TruncateToTopK(run, k) == Take(Sorted(run, ByScoreAndDocid(run)), k)
-----------------------------------------------------------------------------
(* Metrics; qrels is a function from docids to grades, 0 where the file has *)
(* no judgment.                                                             *)

BugRankedDocids(run) == LET s == Sorted(run, ByScore(run)) IN [i \in DOMAIN s |-> s[i].doc]

RankedDocids(run) ==
    LET s == Sorted(run, ByScoreAndDocid(run)) IN [i \in DOMAIN s |-> s[i].doc]

\* 1 / log2(rank + 1), in hundredths.
Discount == <<100, 63, 50, 43, 39, 36, 33, 32, 30, 29>>

Dcg(gains) == FoldLeft(LAMBDA sum, i : sum + gains[i] * Discount[i], 0,
                       [i \in DOMAIN gains |-> i])

\* dcg and idcg of ndcg_at_k.
Gain(qrels, ranked) == Dcg([i \in DOMAIN ranked |-> qrels[ranked[i]]])

IdealGain(qrels, k) ==
    LET judged == SetToSeq({d \in DOMAIN qrels : qrels[d] > 0})
    IN  Dcg(Take(SortSeq([i \in DOMAIN judged |-> qrels[judged[i]]], LAMBDA a, b : a > b), k))

\* ndcg_at_k
Ndcg(qrels, run, k) ==
    IF \A d \in DOMAIN qrels : qrels[d] = 0 THEN <<0, 1>>
    ELSE <<Gain(qrels, Take(RankedDocids(run), k)), IdealGain(qrels, k)>>

Relevant(qrels, threshold) == {d \in DOMAIN qrels : qrels[d] >= threshold}

\* mrr_at_k
Mrr(qrels, run, k, threshold) ==
    LET ranked == Take(RankedDocids(run), k)
        found == {i \in DOMAIN ranked : ranked[i] \in Relevant(qrels, threshold)}
    IN  IF found = {} THEN <<0, 1>> ELSE <<1, CHOOSE i \in found : \A j \in found : i <= j>>

\* recall_at_k
Recall(qrels, run, k, threshold) ==
    LET relevant == Relevant(qrels, threshold)
        retrieved == ToSet(Take(RankedDocids(run), k))
    IN  IF relevant = {} THEN <<0, 1>>
        ELSE <<Cardinality(retrieved \cap relevant), Cardinality(relevant)>>

\* One query's part of an EvalResult.  The depth is that of the deepest query
\* of the run: deepest is that of the other queries.
Evaluate(qrels, run, ndcgK, recallK, threshold, deepest) ==
    LET depth == IF Len(run) > deepest THEN Len(run) ELSE deepest
    IN  [ndcg |-> Ndcg(qrels, run, ndcgK),
         mrr |-> Mrr(qrels, run, ndcgK, threshold),
         recall |-> Recall(qrels, run, recallK, threshold),
         shallow |-> {k \in {ndcgK, recallK} : k > depth}]
=============================================================================
