----------------------------- MODULE RankFusion -----------------------------
(***************************************************************************)
(* dense/fusion.py: the two ways of fusing what the lexical and the dense  *)
(* channel retrieve for a query.  Fused scores are sums of fractions, kept *)
(* in a unit that makes them whole numbers.  A share, or a fused score, is *)
(* looked up by document; in which order the dict holds them nobody asks.  *)
(***************************************************************************)
EXTENDS RunEvaluation

CONSTANTS
    RrfUnit,    \* a multiple of RrfK + 1, RrfK + 2, ... for every rank
    ScoreUnit   \* a multiple of every difference of two scores

\* fused[docid] = fused.get(docid, 0.0) + share
AddShares(fused, shares) ==
    [d \in DOMAIN fused \cup DOMAIN shares |->
        (IF d \in DOMAIN fused THEN fused[d] ELSE 0)
        + (IF d \in DOMAIN shares THEN shares[d] ELSE 0)]

RrfK == 60

Rank(ranked, d) == CHOOSE r \in DOMAIN ranked : ranked[r].doc = d

BugReciprocalRankShares(channel) ==
    [d \in Docids(channel) |-> RrfUnit \div (RrfK + Rank(Reverse(channel), d))]

\* Documents that tie keep the order of the dict.
ReciprocalRankShares(channel) ==
    LET ranked == Sorted(channel, ByScore(channel))
    IN  [d \in Docids(channel) |-> RrfUnit \div (RrfK + Rank(ranked, d))]

\* reciprocal_rank_fusion([lexical, dense])
ReciprocalRankFusion(lexical, dense) ==
    AddShares(AddShares(<<>>, ReciprocalRankShares(lexical)), ReciprocalRankShares(dense))

\* _min_max_normalize
MinMaxNormalize(channel) ==
    LET scores == {channel[i].score : i \in DOMAIN channel}
        lo == CHOOSE x \in scores : \A y \in scores : x <= y
        hi == CHOOSE x \in scores : \A y \in scores : x >= y
    IN  [d \in Docids(channel) |->
            IF lo = hi THEN 0 ELSE (ScoreUnit \div (hi - lo)) * (ScoreOf(channel, d) - lo)]

\* normalized_score_fusion([lexical, dense])
NormalizedScoreFusion(lexical, dense) ==
    AddShares(AddShares(<<>>, MinMaxNormalize(lexical)), MinMaxNormalize(dense))
=============================================================================
