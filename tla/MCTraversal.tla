----------------------------- MODULE MCTraversal -----------------------------
(***************************************************************************)
(* Instances of Traversal for TLC.                                         *)
(***************************************************************************)
EXTENDS Traversal, SequencesExt

\* Small impacts, so that different documents have the same score, and blocks
\* whose bound is below that of their term.
MCImpact ==
    LET row == <<<<1, 1, 2, 1, 3>>, <<2, 1, 1, 3, 1>>, <<1, 2, 3, 1, 1>>>>
    IN  [t \in Terms |-> [d \in Docs |-> row[t][d + 1]]]

\* Every set of documents that fills a block.
MCLists == {docids \in SUBSET Docs : Cardinality(docids) >= BlockSize}

\* Exact addition for up to three terms.
ExactSum(docid, value) ==
    LET of(t) == IF t \in DOMAIN value THEN value[t] ELSE 0
    IN  of(1) + of(2) + of(3)

\* Float addition with a significand of three bits, ties to even.
Round(n) ==
    LET ulp == CHOOSE u \in {1, 2, 4, 8} : n < 8 * u /\ (u = 1 \/ n >= 4 * u)
        down == (n \div ulp) * ulp
    IN  IF 2 * (n - down) > ulp \/ (2 * (n - down) = ulp /\ (n \div ulp) % 2 = 1)
        THEN down + ulp ELSE down

RoundedSum(docid, value) ==
    LET order == SetToSortSeq(DOMAIN value,
                     LAMBDA t, u : docid[t] < docid[u] \/ (docid[t] = docid[u] /\ t < u))
    IN  FoldLeft(LAMBDA sum, t : Round(sum + value[t]), 0, order)

\* Three terms of little weight, and one whose impact swallows them one by one.
UnevenImpact == [t \in Terms |-> [d \in Docs |-> IF t = 4 THEN 8 ELSE 1]]
NonEmptyLists == SUBSET Docs \ {{}}
==============================================================================
