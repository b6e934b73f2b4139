--------------------------- MODULE MCSearchServer ---------------------------
(***************************************************************************)
(* Instances of SearchServer for TLC.                                      *)
(***************************************************************************)
EXTENDS SearchServer

\* One text with two values of k, and two spellings that share a word: three
\* cache keys.
FoxRequests == {
    [text |-> [words |-> <<"fox", "dog">>, style |-> "plain"], k |-> 1],
    [text |-> [words |-> <<"fox", "dog">>, style |-> "shouted"], k |-> 2],
    [text |-> [words |-> <<"fox">>, style |-> "plain"], k |-> 1] }
=============================================================================
