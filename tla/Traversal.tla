------------------------------ MODULE Traversal ------------------------------
(***************************************************************************)
(* Query evaluation, src/cpp/query/searcher.cc: one Index::search over the *)
(* blocked postings that src/cpp/index/builder.cc writes, by exhaustive    *)
(* document-at-a-time disjunction, by WAND or by BlockMax-WAND.  A step is *)
(* one iteration of the algorithm's loop.                                  *)
(*                                                                         *)
(* The index is arbitrary: Init chooses the documents of every term.       *)
(* Scores are numbers that Sum adds up in a given order, so that float     *)
(* addition, which depends on the order, can be one of its instances.      *)
(***************************************************************************)
EXTENDS Naturals, Sequences, FiniteSets, FiniteSetsExt

CONSTANTS
    NumTerms,   \* number of terms of the query
    NumDocs,    \* number of documents
    BlockSize,  \* kBlockSize
    Lists,      \* the sets of documents a term may occur in
    Impact,     \* the score a term contributes to a document it occurs in
    Ks,         \* the values of k
    Sum(_, _),  \* Sum(docid, value): the values, added by ascending docid of
                \* their cursors and among equals in the order of the terms
    Exact       \* whether Sum is the mathematical sum

Terms == 1..NumTerms
Docs == 0..(NumDocs - 1)
NoDocid == NumDocs + 1  \* kNoDocid; more than any docid or target
Impacts == {Impact[t][d] : t \in Terms, d \in Docs}

\* The mathematical sum of the values of a function.
Total(value) ==
    Cardinality({p \in (DOMAIN value) \X (1..Max(Impacts)) : p[2] <= value[p[1]]})

ASSUME TraversalAssumption ==
    /\ NumTerms \in Nat \ {0} /\ NumDocs \in Nat \ {0} /\ BlockSize \in Nat \ {0}
    /\ Impact \in [Terms -> [Docs -> Nat]]
    /\ Lists \subseteq SUBSET Docs
    /\ Ks \subseteq Nat \ {0}
    /\ Exact \in BOOLEAN
    /\ Exact => \A docid \in [Terms -> Docs \cup {NoDocid}], S \in SUBSET Terms :
                   \A value \in [S -> Impacts] : Sum(docid, value) = Total(value)

VARIABLES
    algorithm,  \* which of the three
    k,
    index,      \* per term, the docids of each block
    cursor,     \* per term, the block and docid of its PostingCursor
    heap,       \* TopK: the best results so far
    candidatesSeen,   \* SearchStats: iterations with a candidate document
    fullEvaluations,  \* SearchStats: documents scored
    state       \* "searching", or "done" when search() returns the heap

input == <<algorithm, k, index>>
vars == <<input, cursor, heap, candidatesSeen, fullEvaluations, state>>
-----------------------------------------------------------------------------
(* The index *)

\* The builder's blocks: the postings in docid order, BlockSize at a time.
Blocks(docids) ==
    LET rank(d) == Cardinality({e \in docids : e <= d})
    IN  [b \in 1..((Cardinality(docids) + BlockSize - 1) \div BlockSize) |->
            {d \in docids : (b - 1) * BlockSize < rank(d) /\ rank(d) <= b * BlockSize}]

Postings(t) == UNION {index[t][b] : b \in DOMAIN index[t]}

BlockMax(t, b) == Max({Impact[t][d] : d \in index[t][b]})
MaxImpact(t) == Max({Impact[t][d] : d \in Postings(t)})
-----------------------------------------------------------------------------
(* PostingCursor *)

Exhausted(t, c) == c.block > Len(index[t])

\* On the first posting of block b, or exhausted behind the last block.
At(t, b) ==
    [block |-> b, docid |-> IF b <= Len(index[t]) THEN Min(index[t][b]) ELSE NoDocid]

\* next()
Advance(t, c) ==
    LET later == {d \in index[t][c.block] : d > c.docid}
    IN  IF later = {} THEN At(t, c.block + 1) ELSE [c EXCEPT !.docid = Min(later)]

\* Faulty form: a block that ends with the target is skipped.
SkipPast(t, c, target) ==
    LET end == Len(index[t]) + 1
        b == Min({b \in c.block..end : b = end \/ Max(index[t][b]) > target})
    IN  IF b = c.block THEN c ELSE At(t, b)

\* skip_to_block()
Skip(t, c, target) ==
    LET end == Len(index[t]) + 1
        b == Min({b \in c.block..end : b = end \/ Max(index[t][b]) >= target})
    IN  IF b = c.block THEN c ELSE At(t, b)

\* next_geq()
NextGeq(t, c, target) ==
    LET s == Skip(t, c, target)
        rest == {d \in index[t][s.block] : d >= s.docid /\ d >= target}
    IN  IF c.docid >= target THEN c
        ELSE IF Exhausted(t, s) THEN s
        ELSE IF rest = {} THEN At(t, s.block + 1)
        ELSE [s EXCEPT !.docid = Min(rest)]

Docids(c) == [t \in Terms |-> c[t].docid]
Live(c) == {t \in Terms : ~Exhausted(t, c[t])}

\* The order of sort_by_docid().
Before(c, t, u) == c[t].docid < c[u].docid \/ (c[t].docid = c[u].docid /\ t < u)
FirstOf(S) == {t \in S : \A u \in S \ {t} : Before(cursor, t, u)}
-----------------------------------------------------------------------------
(* TopK *)

Better(r, s) == r.score > s.score \/ (r.score = s.score /\ r.docid < s.docid)

\* The k best of a set of results.
Best(results) == {r \in results : Cardinality({s \in results : Better(s, r)}) < k}

\* push()
Push(d, score) == Best(heap \cup {[docid |-> d, score |-> score]})

\* bound >= threshold(): the heap has room, or the bound is that of its worst.
Reaches(bound) == Cardinality(heap) < k \/ \E r \in heap : bound >= r.score
-----------------------------------------------------------------------------
Init ==
    /\ \E docs \in [Terms -> Lists] : index = [t \in Terms |-> Blocks(docs[t])]
    /\ algorithm \in {"daat_or", "wand", "block_max_wand"}
    /\ k \in Ks
    /\ cursor = [t \in Terms |-> At(t, 1)]
    /\ heap = {}
    /\ candidatesSeen = 0
    /\ fullEvaluations = 0
    /\ state = "searching"

\* The cursors on d.
On(c, d) == {t \in Live(c) : c[t].docid = d}

\* The cursors on d move on.
MoveOn(c, d) == [t \in Terms |-> IF t \in On(c, d) THEN Advance(t, c[t]) ELSE c[t]]

\* Score document d with the cursors c that are on it, and move them on.
Evaluate(c, d) ==
    /\ heap' = Push(d, Sum(Docids(c), [t \in On(c, d) |-> Impact[t][d]]))
    /\ cursor' = MoveOn(c, d)
    /\ fullEvaluations' = fullEvaluations + 1

\* The cursors behind d.
Behind(c, d) == {t \in Live(c) : c[t].docid < d}

\* Faulty form: a cursor that is on d already may be dragged there.
BehindOrOn(c, d) == Behind(c, d) \cup On(c, d)

\* The cursors of which one is dragged to d.
Laggards(c, d) == Behind(c, d)

\* The first of the laggards with the largest bound is dragged to d.
Drag(c, d) ==
    /\ \E t \in Laggards(c, d) :
          /\ \A u \in Laggards(c, d) \ {t} :
                \/ MaxImpact(u) < MaxImpact(t)
                \/ MaxImpact(u) = MaxImpact(t) /\ Before(c, t, u)
          /\ cursor' = [c EXCEPT ![t] = NextGeq(t, @, d)]
    /\ UNCHANGED <<heap, fullEvaluations>>

\* daat_or(): the smallest docid of all cursors is scored.
DaatOr ==
    /\ algorithm = "daat_or" /\ state = "searching"
    /\ \E t \in FirstOf(Live(cursor)) : Evaluate(cursor, cursor[t].docid)
    /\ candidatesSeen' = candidatesSeen + 1
    /\ UNCHANGED <<input, state>>
-----------------------------------------------------------------------------
(* wand() *)

\* The sum of the term bounds up to cursor t.
Bound(t) ==
    Sum(Docids(cursor), [u \in {u \in Live(cursor) : u = t \/ Before(cursor, u, t)} |-> MaxImpact(u)])

\* The cursors with which the bounds reach the threshold; the first one of them
\* is the pivot.
Reaching == {t \in Live(cursor) : Reaches(Bound(t))}

\* The pivot document is scored if no cursor is behind it.
Wand ==
    /\ algorithm = "wand" /\ state = "searching"
    /\ \E p \in FirstOf(Reaching) :
          LET d == cursor[p].docid
          IN  IF Behind(cursor, d) = {} THEN Evaluate(cursor, d) ELSE Drag(cursor, d)
    /\ candidatesSeen' = candidatesSeen + 1
    /\ UNCHANGED <<input, state>>
-----------------------------------------------------------------------------
(* block_max_wand() *)

\* Every cursor at or before document d.
Candidates(d) == {t \in Live(cursor) : cursor[t].docid <= d}

\* The cursors when each candidate in turn has been skipped to the block of d;
\* the first one that runs out is the last.
Skipped(d) ==
    [t \in Terms |->
        IF t \in Candidates(d) /\ \A u \in Candidates(d) : Before(cursor, u, t) => ~Exhausted(u, Skip(u, cursor[u], d))
        THEN Skip(t, cursor[t], d) ELSE cursor[t]]

\* The sum of the block bounds of the candidates, which c has skipped.
BlockBound(c, d) ==
    Sum(Docids(cursor), [t \in Candidates(d) |-> BlockMax(t, c[t].block)])

\* Faulty form: the jump does not stop at the cursors that are no candidates.
BlocksEnd(c, d) == Min({Max(index[t][c[t].block]) + 1 : t \in Candidates(d)})

\* How far a hopeless span reaches: to the end of the first candidate's block,
\* or to the first other cursor.
Target(c, d) ==
    Min({Max(index[t][c[t].block]) + 1 : t \in Candidates(d)}
        \cup {cursor[t].docid : t \in Live(cursor) \ Candidates(d)})

\* Once a candidate runs out, the iteration ends.
RunOut(c, d) ==
    /\ \E t \in Candidates(d) : Exhausted(t, c[t])
    /\ cursor' = c
    /\ UNCHANGED <<heap, fullEvaluations>>

\* The block bounds reach the threshold: as in wand().
Probe(c, d) ==
    /\ \A t \in Candidates(d) : ~Exhausted(t, c[t])
    /\ Reaches(BlockBound(c, d))
    /\ IF Behind(c, d) = {} THEN Evaluate(c, d) ELSE Drag(c, d)

\* They do not: the candidates jump over the span.
Jump(c, d) ==
    /\ \A t \in Candidates(d) : ~Exhausted(t, c[t])
    /\ ~Reaches(BlockBound(c, d))
    /\ LET target == Target(c, d)
       IN  cursor' = [t \in Terms |-> IF t \in Candidates(d) THEN NextGeq(t, c[t], target) ELSE c[t]]
    /\ UNCHANGED <<heap, fullEvaluations>>

BlockMaxWand ==
    /\ algorithm = "block_max_wand" /\ state = "searching"
    /\ \E p \in FirstOf(Reaching) :
          LET d == cursor[p].docid
              c == Skipped(d)
          IN  RunOut(c, d) \/ Probe(c, d) \/ Jump(c, d)
    /\ candidatesSeen' = candidatesSeen + 1
    /\ UNCHANGED <<input, state>>
-----------------------------------------------------------------------------
\* No cursor is left, or all that are left cannot reach the threshold.
Return ==
    /\ state = "searching"
    /\ IF algorithm = "daat_or" THEN Live(cursor) = {} ELSE Reaching = {}
    /\ state' = "done"
    /\ UNCHANGED <<input, cursor, heap, candidatesSeen, fullEvaluations>>

Next == DaatOr \/ Wand \/ BlockMaxWand \/ Return

Spec == Init /\ [][Next]_vars
-----------------------------------------------------------------------------
\* The score of a document over all query terms, and what a search should find.
Score(d) ==
    Sum([t \in Terms |-> d], [t \in {t \in Terms : d \in Postings(t)} |-> Impact[t][d]])
Matches == UNION {Postings(t) : t \in Terms}
Scored(d) == [docid |-> d, score |-> Score(d)]

TypeOK ==
    /\ algorithm \in {"daat_or", "wand", "block_max_wand"} /\ k \in Ks
    /\ index \in [Terms -> Seq(SUBSET Docs)]
    /\ \A t \in Terms :
          \/ cursor[t] = [block |-> Len(index[t]) + 1, docid |-> NoDocid]
          \/ cursor[t].block \in DOMAIN index[t] /\ cursor[t].docid \in index[t][cursor[t].block]
    /\ \A r \in heap : r.docid \in Docs /\ r.score \in Nat
    /\ Cardinality(heap) <= k
    /\ candidatesSeen \in Nat /\ fullEvaluations \in Nat
    /\ state \in {"searching", "done"}

\* While a search runs, each matching document is in the heap with its whole
\* score and behind all of its cursors, or ahead of all of them, or the heap is
\* full of better ones (searcher.cc:350-353, 373-375, 458-464, 521-528).
NothingLost ==
    \A d \in Matches :
        LET result == Scored(d)
            of == {t \in Terms : d \in Postings(t)}
        IN  \/ result \in heap /\ \A t \in of : cursor[t].docid > d
            \/ (\A r \in heap : r.docid # d) /\ \A t \in of : cursor[t].docid <= d
            \/ /\ Cardinality(heap) = k
               /\ \A r \in heap : Better(r, result)

\* All three algorithms return the same results, with the same scores
\* (searcher.h:3-7).
SameTopK == state = "done" => heap = Best({Scored(d) : d \in Matches})

\* Every iteration moves a cursor and none moves back, so that a search of a
\* finite index returns (searcher.cc:402-409).
IterationsAdvance ==
    [][candidatesSeen' # candidatesSeen =>
          /\ \A t \in Terms : cursor'[t].docid >= cursor[t].docid
          /\ \E t \in Terms : cursor'[t].docid > cursor[t].docid]_vars
=============================================================================
