---------------------------- MODULE RankingCascade ----------------------------
(***************************************************************************)
(* The life of one query in the ranking cascade: WAND retrieves it, its    *)
(* candidates are encoded, and then a dev query gives the pre-ranker its   *)
(* training examples, while a dl query is ranked by the cross-encoder in   *)
(* full, cut down by the pre-ranker, evaluated, and scored once more by    *)
(* the precision experiment.  A dl query may instead be fused with what    *)
(* the dense channel retrieves.                                            *)
(*                                                                         *)
(* The models (cross-encoder, pre-ranker, bi-encoder) give each document   *)
(* of the query any score.                                                 *)
(***************************************************************************)
EXTENDS RankFusion

CONSTANTS
    Docs,          \* docids: natural numbers, in the order of the strings
    Levels,        \* scores
    Grades,        \* judgments
    Depth,         \* hits of a search (1000)
    PoolDepth,     \* DEV_NEGATIVE_POOL_DEPTH (50)
    NumNegatives,  \* NUM_NEGATIVES (4)
    TopK,          \* CROSS_ENCODER_K (100)
    Cut            \* depth of NDCG and MRR (10)

ASSUME CascadeAssumption ==
    /\ Docs \subseteq Nat /\ Levels \subseteq Nat \ {0} /\ 0 \in Grades /\ Grades \subseteq Nat
    /\ {Depth, PoolDepth, NumNegatives, TopK, Cut} \subseteq Nat \ {0}
    /\ Cut <= TopK /\ TopK <= Depth /\ PoolDepth <= Depth /\ Cut <= Len(Discount)

\* The units of the fused scores lose nothing to a division.
ASSUME UnitAssumption ==
    /\ {RrfUnit, ScoreUnit} \subseteq Nat \ {0}
    /\ \A rank \in 1 .. Depth : RrfUnit % (RrfK + rank) = 0
    /\ \A x, y \in Levels : x > y => ScoreUnit % (x - y) = 0

VARIABLES
    querySet,   \* "dev" or "dl": the set the query is of
    stage,      \* what has been done with it
    wand,       \* its lines of cascade-wand.<query set>.txt
    encoded,    \* docids it has dense scores and lengths for
    examples,   \* dev: labels of its training examples, by document
    allScores,  \* dl: its candidates, scored by the cross-encoder
    fusedRun,   \* dl: the run that is evaluated
    consistency,\* dl: prerank_consistency
    qrels,      \* its judgments
    fp32,       \* dl: evaluation of the cascade
    precision,  \* dl: evaluation of the run the precision experiment scores
    dense       \* dl: what the dense channel retrieves
vars == <<querySet, stage, wand, encoded, examples, allScores, fusedRun, consistency,
          qrels, fp32, precision, dense>>

Empty == <<>>
RelThreshold == 2

Init == /\ querySet \in {"dev", "dl"}
        /\ stage = "start"
        /\ wand = Empty /\ encoded = {} /\ examples = Empty /\ allScores = Empty
        /\ fusedRun = Empty /\ consistency = Empty /\ qrels = Empty
        /\ fp32 = Empty /\ precision = Empty /\ dense = Empty
-----------------------------------------------------------------------------
\* What a retriever may return: at most k documents, by descending score.
Retrieved(k) ==
    {run \in UNION {[1 .. n -> [doc : Docs, score : Levels]] : n \in 0 .. k} :
        \A i, j \in DOMAIN run : i < j => /\ run[i].doc # run[j].doc
                                          /\ run[i].score >= run[j].score}

\* cascade_bm25.search
Search ==
    /\ stage = "start"
    /\ \E results \in Retrieved(Depth) : wand' = WriteRun(results, Depth)
    /\ stage' = "searched"
    /\ UNCHANGED <<querySet, encoded, examples, allScores, fusedRun, consistency, qrels,
                   fp32, precision, dense>>

\* encode_candidates.main: the candidates of dl queries, and the best of dev's.
EncodeCandidates ==
    /\ stage = "searched"
    /\ encoded' = Docids(IF querySet = "dev" THEN TruncateToTopK(ReadRun(wand), PoolDepth)
                         ELSE ReadRun(wand))
    /\ stage' = "encoded"
    /\ UNCHANGED <<querySet, wand, examples, allScores, fusedRun, consistency, qrels,
                   fp32, precision, dense>>
-----------------------------------------------------------------------------
(* dev *)

TrainingPool == ReadRunTruncated(wand, PoolDepth)

\* build_training_examples
Available == Among(TrainingPool, encoded)

Sampled(pool) ==
    {s \in SUBSET pool :
        Cardinality(s) = IF NumNegatives < Cardinality(pool) THEN NumNegatives
                         ELSE Cardinality(pool)}

BuildTrainingExamples ==
    /\ stage = "encoded" /\ querySet = "dev"
    /\ qrels' \in [Docs -> Grades \cap {0, 1}]
    /\ LET positives == {i \in DOMAIN Available : qrels'[Available[i].doc] > 0}
       IN  \/ positives = {} /\ examples' = Empty
           \/ \E first \in positives :
                 /\ \A i \in positives : first <= i
                 /\ LET positive == Available[first].doc
                    IN  \E negatives \in Sampled(Docids(Available) \ {positive}) :
                           examples' = [d \in {positive} \cup negatives |->
                                           IF d = positive THEN 1 ELSE 0]
    /\ stage' = "trained"
    /\ UNCHANGED <<querySet, wand, encoded, allScores, fusedRun, consistency, fp32,
                   precision, dense>>
-----------------------------------------------------------------------------
(* dl *)

\* session.score over the whole candidate pool.
ScoreAll ==
    /\ stage = "encoded" /\ querySet = "dl"
    /\ LET candidates == ReadRun(wand)
       IN  \E score \in [Docids(candidates) -> Levels] :
              allScores' = [i \in DOMAIN candidates |->
                               [doc |-> candidates[i].doc, score |-> score[candidates[i].doc]]]
    /\ stage' = "scored"
    /\ UNCHANGED <<querySet, wand, encoded, examples, fusedRun, consistency, qrels, fp32,
                   precision, dense>>

BugTrueTopK == Docids(Take(allScores, TopK))

TrueTopK == Docids(Take(Sorted(allScores, ByScore(allScores)), TopK))

\* survivors_for_query, for the scores of the pre-ranker; a candidate without
\* features would be a KeyError.
Survivors(score) ==
    LET candidates == ReadRun(wand)
        scores == [i \in DOMAIN candidates |->
                      [doc |-> candidates[i].doc, score |-> score[candidates[i].doc]]]
    IN  Docids(Take(Sorted(scores, ByScore(scores)), TopK))

PrerankConsistency(trueTopK, survivors) ==
    IF trueTopK = {} THEN <<0, 1>>
    ELSE <<Cardinality(trueTopK \cap survivors), Cardinality(trueTopK)>>

Prerank ==
    /\ stage = "scored"
    /\ Docids(ReadRun(wand)) \subseteq encoded
    /\ \E score \in [encoded -> Levels] :
          LET survivors == Survivors(score)
          IN  /\ consistency' = PrerankConsistency(TrueTopK, survivors)
              /\ fusedRun' = Among(allScores, survivors)
    /\ stage' = "preranked"
    /\ UNCHANGED <<querySet, wand, encoded, examples, allScores, qrels, fp32, precision, dense>>

\* evaluate() over the queries of both dl sets, and the assertion that no
\* metric is deeper than the run.  The others have up to TopK documents.
EvaluateCascade ==
    /\ stage = "preranked"
    /\ qrels' \in [Docs -> Grades]
    /\ \E others \in {0, TopK} :
          LET result == Evaluate(qrels', fusedRun, Cut, TopK, RelThreshold, others)
          IN  \/ result.shallow # {} /\ stage' = "failed" /\ UNCHANGED fp32
              \/ result.shallow = {} /\ stage' = "evaluated" /\ fp32' = result
    /\ UNCHANGED <<querySet, wand, encoded, examples, allScores, fusedRun, consistency,
                   precision, dense>>

\* score_survivors_with_session with the fp32 session: list() of a set of
\* docids has them in any order.
RescoreSurvivors ==
    /\ stage = "evaluated"
    /\ \E order \in SetToSeqs(Docids(fusedRun)) :
          LET run == [i \in DOMAIN order |->
                         [doc |-> order[i], score |-> ScoreOf(allScores, order[i])]]
          IN  precision' = Evaluate(qrels, run, Cut, TopK, RelThreshold, TopK)
    /\ stage' = "rescored"
    /\ UNCHANGED <<querySet, wand, encoded, examples, allScores, fusedRun, consistency,
                   qrels, fp32, dense>>
-----------------------------------------------------------------------------
(* dense/fusion.py *)

\* load_lexical_run and load_dense_run.
Fuse ==
    /\ stage = "searched" /\ querySet = "dl"
    /\ dense' \in Retrieved(Depth)
    /\ stage' = "fused"
    /\ UNCHANGED <<querySet, wand, encoded, examples, allScores, fusedRun, consistency,
                   qrels, fp32, precision>>

\* fuse_run, by each method.
FuseRun(method) ==
    IF method = "rrf" THEN ReciprocalRankFusion(ReadRun(wand), dense)
    ELSE NormalizedScoreFusion(ReadRun(wand), dense)

Finished == stage \in {"trained", "failed", "rescored", "fused"} /\ UNCHANGED vars

Next == \/ Search \/ EncodeCandidates \/ BuildTrainingExamples \/ ScoreAll \/ Prerank
        \/ EvaluateCascade \/ RescoreSurvivors \/ Fuse \/ Finished

Spec == Init /\ [][Next]_vars
-----------------------------------------------------------------------------
(* Properties. *)

\* A consistency is a fraction of the top, and no list holds more than scored
\* documents of the collection.
TypeOK ==
    /\ querySet \in {"dev", "dl"}
    /\ stage \in {"start", "searched", "encoded", "trained", "scored", "preranked", "failed",
                  "evaluated", "rescored", "fused"}
    /\ {wand, allScores, fusedRun, dense} \subseteq Seq([doc : Docs, score : Levels])
    /\ encoded \subseteq Docs
    /\ DOMAIN examples \subseteq Docs /\ \A d \in DOMAIN examples : examples[d] \in {0, 1}
    /\ qrels \in [Docs -> Grades] \cup {Empty}
    /\ consistency # Empty =>
          /\ consistency \in Nat \X (1 .. TopK)
          /\ consistency[1] <= consistency[2]

\* What the driver streams from the head of a query's block is, document for
\* document and in the same order, what the encoder cut the whole run down
\* to, ties included: no candidate of the training pool lacks features, so
\* none is left out of the sample behind the reader's back
\* (encode_candidates.py:62-90, 124; prerank_mlp.py:63-68).
TrainingPoolWhole ==
    stage = "trained" =>
        /\ TrainingPool = TruncateToTopK(ReadRun(wand), PoolDepth)
        /\ Available = TrainingPool
        /\ examples # Empty =>
              /\ Cardinality({d \in DOMAIN examples : examples[d] = 1}) = 1
              /\ \/ Cardinality(DOMAIN examples) = NumNegatives + 1
                 \/ DOMAIN examples = Docids(TruncateToTopK(ReadRun(wand), PoolDepth))

\* No score of the top of the full ranking occurs again below it.
TopIsSeparate ==
    \A d \in TrueTopK, e \in Docids(allScores) \ TrueTopK :
        ScoreOf(allScores, d) # ScoreOf(allScores, e)

TopOf(run) == ToSet(Take(RankedDocids(run), Cut))

\* The prerank consistency the driver reports bounds what the cascade loses:
\* of the documents the full ranking evaluates at the cutoff, at most those
\* that the consistency counts as lost are missing from the cascade's, and at
\* consistency 1 the cascade's NDCG is that of the full ranking.  Ties across
\* the boundary of the top are the exception: the driver cuts them by the
\* order of the candidates, the metrics by docid (phase4_driver.py:172-184).
ConsistencyBoundsLoss ==
    stage \in {"evaluated", "rescored"} /\ TopIsSeparate =>
        LET lost == consistency[2] - consistency[1]
        IN  /\ Cardinality(TopOf(allScores) \ TopOf(fusedRun)) <= lost
            /\ lost = 0 => fp32.ndcg = Ndcg(qrels, allScores, Cut)

\* Scoring the survivors again at fp32, in whatever order their set lists
\* them, gives the metrics of the cascade: the delta that the precision
\* experiment reports for fp32 is zero, and those of fp16 and INT8 are due to
\* their scores alone (phase4_driver.py:255-270, 304-313).
Fp32DeltaZero == stage = "rescored" => precision = fp32

\* A document that both channels retrieve with a higher score than another,
\* or that one channel does and the other retrieves alone, is above it in the
\* fusion by reciprocal ranks; the fusion of scores agrees when both channels
\* have both (fusion.py:28-53, 76-91).
FusionUnanimous ==
    stage = "fused" =>
        LET lexical == ReadRun(wand)
            Beats(run, d, e) == e \in Docids(run) => ScoreOf(run, d) > ScoreOf(run, e)
            Both == Docids(lexical) \cap Docids(dense)
            rrf == FuseRun("rrf")
            score == FuseRun("score")
        IN  \A d \in Both : \A e \in Docids(lexical) \cup Docids(dense) :
               d # e /\ Beats(lexical, d, e) /\ Beats(dense, d, e) =>
                  /\ rrf[d] > rrf[e]
                  /\ e \in Both => score[d] > score[e]
=============================================================================
