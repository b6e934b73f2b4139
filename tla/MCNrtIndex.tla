----------------------------- MODULE MCNrtIndex -----------------------------
(***************************************************************************)
(* Instances of NrtIndex for TLC.                                          *)
(***************************************************************************)
EXTENDS NrtIndex, TLC

CONSTANTS i1, i2, i3, i4

\* One initial segment holding one document, as NrtIndex is seeded in the lag
\* experiment.
OneBase == {[id |-> 0, docs |-> {1}]}
OneBaseLog == <<i1>>

\* One initial segment larger than all documents that can be added to it.
BigBase == {[id |-> 0, docs |-> 1..6]}
BigBaseLog == <<i1, i1, i1, i1, i1, i1>>

\* Scores of the documents: later ones are not always better, one of them
\* does not match the query.
MixedScores == <<3, 5, 1, 4, 0, 2, 6>>

\* Every document matches, later ones less well.
FallingScores == <<7, 6, 5, 4, 3, 2, 1>>

\* No search is made.
NoScores == <<>>

\* The external ids no initial segment holds may be permuted.
FreshIds == Permutations(Ids \ {i1})
=============================================================================
