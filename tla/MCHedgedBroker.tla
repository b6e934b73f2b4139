--------------------------- MODULE MCHedgedBroker ---------------------------
(***************************************************************************)
(* Instances of HedgedBroker for TLC.                                      *)
(***************************************************************************)
EXTENDS HedgedBroker

\* Four hits on two shards; the two best are on one shard in the first layout
\* and on both in the second.
FourHits == {"a", "b", "c", "d"}
MCScore == [h \in FourHits |-> CASE h = "a" -> 4 [] h = "b" -> 3 [] h = "c" -> 2 [] h = "d" -> 1]
MCShardOf == [h \in FourHits |-> IF h \in {"a", "d"} THEN 1 ELSE 2]
=============================================================================
