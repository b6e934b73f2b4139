--------------------------- MODULE TraversalProofs ---------------------------
(***************************************************************************)
(* Proofs about Traversal: with exact addition, all three algorithms       *)
(* return the k best documents, for every index, every impacts, every      *)
(* block size, every number of terms and every k; and, exact addition or   *)
(* not, every iteration of theirs moves on.                                *)
(***************************************************************************)
EXTENDS Traversal, FiniteSetTheorems, WellFoundedInduction, TLAPS

(* Least and greatest elements *)

LEMMA LeastNat ==
    ASSUME NEW T, T \subseteq Nat, T # {}
    PROVE  \E x \in T : \A y \in T : x <= y
<1> DEFINE less == OpToRel(<, Nat)
<1>1. IsWellFoundedOn(less, Nat)
  BY NatLessThanWellFounded
<1>2. \A x, y \in Nat : x < y => <<x, y>> \in less
  BY DEF OpToRel
<1> HIDE DEF less
<1>3. PICK x \in T : \A y \in T : <<y, x>> \notin less
  BY <1>1, WFMin
<1>4. ASSUME NEW y \in T PROVE x <= y
  <2>1. x \in Nat /\ y \in Nat
    OBVIOUS
  <2>2. ~(y < x)
    BY <1>2, <1>3, <2>1
  <2> QED BY <2>1, <2>2
<1> QED BY <1>4

\* Of the members of a finite set one has the least measure.
LEMMA LeastOf ==
    ASSUME NEW S, S # {}, NEW m, \A x \in S : m[x] \in Nat
    PROVE  \E x \in S : \A y \in S : m[x] <= m[y]
<1> DEFINE T == {m[x] : x \in S}
<1>1. PICK n \in T : \A y \in T : n <= y
  <2>1. T \subseteq Nat /\ T # {}
    OBVIOUS
  <2> HIDE DEF T
  <2> QED BY <2>1, LeastNat
<1> QED BY <1>1

LEMMA MinIs ==
    ASSUME NEW S, S \subseteq Nat, S # {}
    PROVE  Min(S) \in S /\ \A y \in S : Min(S) <= y
BY LeastNat DEF Min

LEMMA MaxIs ==
    ASSUME NEW S, S \subseteq Nat, S # {}, IsFiniteSet(S)
    PROVE  Max(S) \in S /\ \A y \in S : y <= Max(S)
<1> DEFINE above(x) == {y \in S : y > x}
           m == [x \in S |-> Cardinality(above(x))]
<1>1. \A x \in S : IsFiniteSet(above(x)) /\ m[x] = Cardinality(above(x)) /\ m[x] \in Nat
  <2> SUFFICES ASSUME NEW x \in S
               PROVE  IsFiniteSet(above(x)) /\ m[x] = Cardinality(above(x)) /\ m[x] \in Nat
    OBVIOUS
  <2>1. above(x) \in SUBSET S /\ m[x] = Cardinality(above(x))
    OBVIOUS
  <2> HIDE DEF above, m
  <2>2. IsFiniteSet(above(x))
    BY <2>1, FS_Subset
  <2> QED BY <2>1, <2>2, FS_CardinalityType
<1>2. PICK x \in S : \A y \in S : m[x] <= m[y]
  <2> HIDE DEF m, above
  <2> QED BY <1>1, LeastOf
<1>3. ASSUME NEW y \in S, ~(y <= x) PROVE FALSE
  <2>1. x \in Nat /\ y \in Nat /\ y > x
    BY <1>3
  <2>2. above(y) \subseteq above(x) \ {y} /\ y \in above(x)
    <3>1. ASSUME NEW z \in above(y) PROVE z \in above(x) /\ z # y
      <4>1. z \in S /\ z \in Nat /\ z > y
        OBVIOUS
      <4>2. z > x /\ z # y
        BY <2>1, <4>1
      <4> QED BY <4>1, <4>2
    <3>2. y \in above(x)
      BY <2>1
    <3> QED BY <3>1, <3>2
  <2> HIDE DEF above, m
  <2>3. IsFiniteSet(above(x) \ {y}) /\ Cardinality(above(x) \ {y}) = Cardinality(above(x)) - 1
    BY <1>1, <2>2, FS_RemoveElement
  <2>4. Cardinality(above(y)) <= Cardinality(above(x) \ {y})
    BY <2>2, <2>3, FS_Subset
  <2>5. m[x] <= m[y] /\ m[x] \in Nat /\ m[y] \in Nat
    BY <1>1, <1>2
  <2>6. m[x] = Cardinality(above(x)) /\ m[y] = Cardinality(above(y))
    BY <1>1
  <2> QED BY <2>3, <2>4, <2>5, <2>6
<1>4. \E z \in S : \A y \in S : z >= y
  <2>1. \A y \in S : y <= x
    BY <1>3
  <2>2. \A y \in S : x >= y
    BY <2>1
  <2> QED BY <2>2
<1>5. Max(S) \in S /\ \A y \in S : Max(S) >= y
  BY <1>4 DEF Max
<1>6. \A y \in S : y \in Nat /\ Max(S) \in Nat
  BY <1>5
<1> QED BY <1>5, <1>6
-----------------------------------------------------------------------------
(* Sums *)

LEMMA Parameters ==
    /\ NumTerms \in Nat \ {0} /\ NumDocs \in Nat \ {0} /\ BlockSize \in Nat \ {0}
    /\ Impact \in [Terms -> [Docs -> Nat]]
    /\ Lists \subseteq SUBSET Docs
    /\ Ks \subseteq Nat \ {0}
BY ONLY TraversalAssumption, Zenon

LEMMA InputsFinite ==
    /\ IsFiniteSet(Terms) /\ IsFiniteSet(Docs) /\ Docs \subseteq Nat
    /\ Terms # {} /\ Docs # {} /\ Terms \subseteq Nat
    /\ NoDocid \in Nat /\ \A d \in Docs : d < NoDocid
<1>1. /\ NumTerms \in Nat /\ NumTerms >= 1 /\ NumDocs \in Nat /\ NumDocs >= 1
  BY Parameters
<1>2. IsFiniteSet(1..NumTerms) /\ IsFiniteSet(0..(NumDocs - 1))
  BY <1>1, FS_Interval
<1>3. Terms \subseteq Nat /\ 1 \in Terms /\ Docs \subseteq Nat /\ 0 \in Docs
  BY <1>1 DEF Terms, Docs
<1>4. NoDocid \in Nat /\ \A d \in Docs : d < NoDocid
  BY <1>1 DEF Docs, NoDocid
<1> QED BY <1>2, <1>3, <1>4 DEF Terms, Docs

\* The largest impact of all is a number.
LEMMA ImpactsBounded ==
    /\ Impacts \subseteq Nat /\ IsFiniteSet(Impacts)
    /\ Max(Impacts) \in Nat /\ \A i \in Impacts : i <= Max(Impacts)
<1>1. Impacts \subseteq Nat /\ Impacts # {}
  <2>1. \A t \in Terms, d \in Docs : Impact[t][d] \in Nat
    BY Parameters
  <2>2. \E t \in Terms, d \in Docs : TRUE
    BY InputsFinite
  <2> QED BY <2>1, <2>2 DEF Impacts
<1>2. IsFiniteSet(Impacts)
  <2> DEFINE P == Terms \X Docs
             f == [p \in P |-> Impact[p[1]][p[2]]]
  <2>1. IsFiniteSet(P)
    BY InputsFinite, FS_Product
  <2>2. Impacts \subseteq {f[p] : p \in P}
    <3> SUFFICES ASSUME NEW t \in Terms, NEW d \in Docs
                 PROVE  Impact[t][d] \in {f[p] : p \in P}
      BY DEF Impacts
    <3>1. <<t, d>> \in P /\ f[<<t, d>>] = Impact[t][d]
      OBVIOUS
    <3> QED BY <3>1
  <2>f. DOMAIN f = P
    OBVIOUS
  <2>g. f \in [P -> {f[p] : p \in P}]
    OBVIOUS
  <2> HIDE DEF f, P
  <2>3. IsFiniteSet({f[p] : p \in P})
    <3>1. f \in Surjection(P, {f[p] : p \in P})
      BY <2>g DEF Surjection
    <3> QED BY <2>1, <3>1, FS_Surjection
  <2> QED BY <2>2, <2>3, FS_Subset
<1> QED BY <1>1, <1>2, MaxIs

\* More terms with larger values have a larger sum.
LEMMA TotalMonotone ==
    ASSUME NEW v, NEW w, DOMAIN v \subseteq DOMAIN w, DOMAIN w \subseteq Terms,
           \A t \in DOMAIN v : v[t] \in Nat /\ w[t] \in Nat /\ v[t] <= w[t]
    PROVE  Total(v) \in Nat /\ Total(w) \in Nat /\ Total(v) <= Total(w)
<1> DEFINE V == {p \in (DOMAIN v) \X (1..Max(Impacts)) : p[2] <= v[p[1]]}
           W == {p \in (DOMAIN w) \X (1..Max(Impacts)) : p[2] <= w[p[1]]}
<1>1. V \subseteq W
  <2> SUFFICES ASSUME NEW p \in V PROVE p \in W
    OBVIOUS
  <2>1. /\ p \in (DOMAIN v) \X (1..Max(Impacts)) /\ p[2] <= v[p[1]]
        /\ p[1] \in DOMAIN v /\ p[2] \in 1..Max(Impacts)
    OBVIOUS
  <2>2. p[2] \in Nat /\ v[p[1]] \in Nat /\ w[p[1]] \in Nat /\ v[p[1]] <= w[p[1]]
    BY <2>1, ImpactsBounded
  <2>3. p[2] <= w[p[1]]
    BY <2>1, <2>2
  <2> QED BY <2>1, <2>3
<1>2. IsFiniteSet(W)
  <2>1. IsFiniteSet(DOMAIN w)
    BY InputsFinite, FS_Subset
  <2>2. IsFiniteSet(1..Max(Impacts))
    BY ImpactsBounded, FS_Interval
  <2>3. IsFiniteSet((DOMAIN w) \X (1..Max(Impacts)))
    BY <2>1, <2>2, FS_Product
  <2>4. W \in SUBSET ((DOMAIN w) \X (1..Max(Impacts)))
    OBVIOUS
  <2> HIDE DEF W
  <2> QED BY <2>3, <2>4, FS_Subset
<1>3. Total(v) = Cardinality(V) /\ Total(w) = Cardinality(W)
  BY DEF Total
<1> HIDE DEF V, W
<1>4. IsFiniteSet(V) /\ Cardinality(V) <= Cardinality(W)
  BY <1>1, <1>2, FS_Subset
<1> QED BY <1>2, <1>3, <1>4, FS_CardinalityType

\* With exact addition the order does not matter.
LEMMA SumIsTotal ==
    ASSUME Exact, NEW docid \in [Terms -> Docs \cup {NoDocid}], NEW S \in SUBSET Terms,
           NEW value \in [S -> Impacts]
    PROVE  Sum(docid, value) = Total(value)
BY TraversalAssumption
-----------------------------------------------------------------------------
(* Top-k lists *)

\* Results of different documents.
IsResults(R) ==
    /\ IsFiniteSet(R) /\ R \subseteq [docid : Nat, score : Nat]
    /\ \A r, s \in R : r.docid = s.docid => r = s

\* They are ordered.
LEMMA BetterOrder ==
    /\ \A r \in [docid : Nat, score : Nat] : ~Better(r, r)
    /\ \A r, s \in [docid : Nat, score : Nat] :
          Better(r, s) \/ Better(s, r) \/ r.docid = s.docid
    /\ \A r, s \in [docid : Nat, score : Nat] : ~(Better(r, s) /\ Better(s, r))
    /\ \A r, s, u \in [docid : Nat, score : Nat] : Better(r, s) /\ Better(s, u) => Better(r, u)
BY DEF Better

LEMMA WorstExists ==
    ASSUME NEW R, IsResults(R), R # {}
    PROVE  \E w \in R : \A r \in R \ {w} : Better(r, w)
<1> DEFINE worse(x) == {y \in R : Better(x, y)}
           m == [x \in R |-> Cardinality(worse(x))]
<1>r. /\ IsFiniteSet(R) /\ \A x \in R : x \in [docid : Nat, score : Nat]
      /\ \A r, s \in R : r.docid = s.docid => r = s
  BY DEF IsResults
<1>1. \A x \in R : IsFiniteSet(worse(x)) /\ m[x] = Cardinality(worse(x)) /\ m[x] \in Nat
  <2> SUFFICES ASSUME NEW x \in R
               PROVE  IsFiniteSet(worse(x)) /\ m[x] = Cardinality(worse(x)) /\ m[x] \in Nat
    OBVIOUS
  <2>1. worse(x) \in SUBSET R /\ m[x] = Cardinality(worse(x))
    OBVIOUS
  <2> HIDE DEF worse, m
  <2>2. IsFiniteSet(worse(x))
    BY <1>r, <2>1, FS_Subset
  <2> QED BY <2>1, <2>2, FS_CardinalityType
<1>2. PICK x \in R : \A y \in R : m[x] <= m[y]
  <2> HIDE DEF m, worse
  <2> QED BY <1>1, LeastOf
<1>3. ASSUME NEW y \in R, Better(x, y) PROVE FALSE
  <2>1. worse(y) \subseteq worse(x) \ {y} /\ y \in worse(x)
    BY <1>3, <1>r, BetterOrder
  <2> HIDE DEF worse, m
  <2>3. IsFiniteSet(worse(x) \ {y}) /\ Cardinality(worse(x) \ {y}) = Cardinality(worse(x)) - 1
    BY <1>1, <2>1, FS_RemoveElement
  <2>4. Cardinality(worse(y)) <= Cardinality(worse(x) \ {y})
    BY <2>1, <2>3, FS_Subset
  <2>5. m[x] <= m[y] /\ m[x] \in Nat /\ m[y] \in Nat
    BY <1>1, <1>2
  <2>6. m[x] = Cardinality(worse(x)) /\ m[y] = Cardinality(worse(y))
    BY <1>1
  <2> QED BY <2>3, <2>4, <2>5, <2>6
<1>4. \A r \in R \ {x} : Better(r, x)
  BY <1>3, <1>r, BetterOrder
<1> QED BY <1>4

\* A list that is not too long is its own best.
LEMMA BestOfFew ==
    ASSUME NEW R, IsResults(R), k \in Nat, Cardinality(R) <= k
    PROVE  Best(R) = R
<1> SUFFICES ASSUME NEW r \in R PROVE Cardinality({s \in R : Better(s, r)}) < k
  BY DEF Best
<1> DEFINE B == {s \in R : Better(s, r)}
<1>1. B \subseteq R \ {r}
  BY BetterOrder DEF IsResults
<1>2. /\ IsFiniteSet(R \ {r}) /\ Cardinality(R \ {r}) = Cardinality(R) - 1
      /\ Cardinality(R) \in Nat
  BY FS_RemoveElement, FS_CardinalityType DEF IsResults
<1> HIDE DEF B
<1>3. IsFiniteSet(B) /\ Cardinality(B) <= Cardinality(R \ {r})
  BY <1>1, <1>2, FS_Subset
<1>4. Cardinality(B) \in Nat
  BY <1>3, FS_CardinalityType
<1>5. Cardinality(B) < k
  BY <1>2, <1>3, <1>4
<1> QED BY <1>5 DEF B

\* One result too many: the worst goes.
LEMMA BestOfMore ==
    ASSUME NEW R, IsResults(R), k \in Nat, Cardinality(R) = k + 1,
           NEW w \in R, \A r \in R \ {w} : Better(r, w)
    PROVE  Best(R) = R \ {w}
<1>r. /\ \A x \in R : x \in [docid : Nat, score : Nat] /\ IsFiniteSet(R)
  BY DEF IsResults
<1>w. IsFiniteSet(R \ {w}) /\ Cardinality(R \ {w}) = k
  BY <1>r, FS_RemoveElement
<1>1. ASSUME NEW r \in R \ {w} PROVE Cardinality({s \in R : Better(s, r)}) < k
  <2> DEFINE B == {s \in R : Better(s, r)}
  <2>1. B \subseteq (R \ {w}) \ {r}
    BY <1>r, BetterOrder
  <2>2. IsFiniteSet((R \ {w}) \ {r}) /\ Cardinality((R \ {w}) \ {r}) = k - 1
    BY <1>w, FS_RemoveElement
  <2> HIDE DEF B
  <2>3. IsFiniteSet(B) /\ Cardinality(B) <= k - 1
    BY <2>1, <2>2, FS_Subset
  <2>4. Cardinality(B) \in Nat
    BY <2>3, FS_CardinalityType
  <2>5. Cardinality(B) < k
    BY <2>3, <2>4
  <2> QED BY <2>5 DEF B
<1>2. {s \in R : Better(s, w)} = R \ {w}
  BY <1>r, BetterOrder
<1>3. ~(Cardinality({s \in R : Better(s, w)}) < k)
  BY <1>w, <1>2
<1> QED BY <1>1, <1>3 DEF Best

\* What push() does to the heap: it drops only results that k others beat,
\* and a full heap only gets better.
LEMMA PushKeeps ==
    ASSUME NEW H, IsResults(H), k \in Nat \ {0}, Cardinality(H) <= k,
           NEW x \in [docid : Nat, score : Nat], \A r \in H : r.docid # x.docid
    PROVE  LET G == Best(H \cup {x}) IN
           /\ G \subseteq H \cup {x} /\ IsResults(G) /\ Cardinality(G) <= k
           /\ \A r \in (H \cup {x}) \ G : /\ Cardinality(G) = k
                                          /\ \A s \in G : Better(s, r)
           /\ \A y \in [docid : Nat, score : Nat] :
                 Cardinality(H) = k /\ (\A r \in H : Better(r, y)) =>
                     /\ Cardinality(G) = k
                     /\ \A r \in G : Better(r, y)
           /\ Cardinality(H) = k /\ (\A r \in H : Better(r, x)) => G = H
<1> DEFINE R == H \cup {x}
           G == Best(R)
<1>1. IsFiniteSet(H) /\ Cardinality(H) \in Nat /\ x \notin H
  BY FS_CardinalityType DEF IsResults
<1>2. IsFiniteSet(R) /\ Cardinality(R) = Cardinality(H) + 1
  BY <1>1, FS_AddElement
<1>3. IsResults(R)
  BY <1>2 DEF IsResults
<1>4. CASE Cardinality(H) < k
  <2>1. G = R
    BY <1>1, <1>2, <1>3, <1>4, BestOfFew
  <2>2. Cardinality(H) # k
    BY <1>1, <1>4
  <2> HIDE DEF G
  <2>3. G \subseteq R /\ IsResults(G) /\ Cardinality(G) <= k /\ R \ G = {}
    BY <1>1, <1>2, <1>3, <1>4, <2>1
  <2> QED BY <2>2, <2>3 DEF G
<1>5. CASE Cardinality(H) = k
  <2>1. PICK w \in R : \A r \in R \ {w} : Better(r, w)
    BY <1>3, WorstExists
  <2>2. G = R \ {w}
    BY <1>2, <1>3, <1>5, <2>1, BestOfMore
  <2>3. IsFiniteSet(R \ {w}) /\ Cardinality(R \ {w}) = k
    BY <1>2, <1>5, FS_RemoveElement
  <2>4. \A r \in R : r \in [docid : Nat, score : Nat]
    BY <1>3 DEF IsResults
  <2>5. ASSUME NEW y \in [docid : Nat, score : Nat], \A r \in H : Better(r, y), NEW r \in R \ {w}
        PROVE  Better(r, y)
    <3>1. CASE r \in H
      BY <2>5, <3>1
    <3>2. CASE r = x
      <4>1. w \in H /\ Better(x, w) /\ Better(w, y)
        BY <2>1, <2>5, <3>2
      <4> QED BY <2>4, <2>5, <3>2, <4>1, BetterOrder
    <3> QED BY <3>1, <3>2
  <2>6. ASSUME \A r \in H : Better(r, x) PROVE w = x
    <3>1. ASSUME w # x PROVE FALSE
      <4>1. w \in H /\ Better(w, x) /\ Better(x, w)
        BY <2>1, <2>6, <3>1
      <4> QED BY <2>4, <4>1, BetterOrder
    <3> QED BY <3>1
  <2>7. IsResults(R \ {w})
    BY <1>3, <2>3 DEF IsResults
  <2>8. w = x => R \ {w} = H
    BY <1>1
  <2>9. R \ (R \ {w}) = {w}
    OBVIOUS
  <2> HIDE DEF G
  <2>10. G \subseteq R /\ IsResults(G) /\ Cardinality(G) = k
    BY <2>2, <2>3, <2>7
  <2>11. \A r \in R \ G : \A s \in G : Better(s, r)
    BY <2>1, <2>2, <2>9
  <2>12. \A y \in [docid : Nat, score : Nat] :
            (\A r \in H : Better(r, y)) => \A r \in G : Better(r, y)
    BY <2>2, <2>5
  <2>13. (\A r \in H : Better(r, x)) => G = H
    BY <2>2, <2>6, <2>8
  <2>14. /\ G \subseteq R /\ IsResults(G) /\ Cardinality(G) <= k
         /\ \A r \in R \ G : Cardinality(G) = k /\ \A s \in G : Better(s, r)
         /\ \A y \in [docid : Nat, score : Nat] :
               Cardinality(H) = k /\ (\A r \in H : Better(r, y)) =>
                   Cardinality(G) = k /\ \A r \in G : Better(r, y)
         /\ Cardinality(H) = k /\ (\A r \in H : Better(r, x)) => G = H
    <3>1. Cardinality(G) <= k
      BY <2>10
    <3>2. \A r \in R \ G : Cardinality(G) = k /\ \A s \in G : Better(s, r)
      BY <2>10, <2>11
    <3>3. \A y \in [docid : Nat, score : Nat] :
             Cardinality(H) = k /\ (\A r \in H : Better(r, y)) =>
                 Cardinality(G) = k /\ \A r \in G : Better(r, y)
      BY <2>10, <2>12
    <3> QED BY <2>10, <2>13, <3>1, <3>2, <3>3
  <2> QED BY <2>14 DEF G
<1>6. Cardinality(H) < k \/ Cardinality(H) = k
  BY <1>1
<1> QED BY <1>4, <1>5, <1>6
-----------------------------------------------------------------------------
(* The index *)

\* The blocks of a term hold documents, none is empty, and they are in order.
BlocksOK(ix) ==
    /\ ix \in Seq(SUBSET Docs)
    /\ \A b \in DOMAIN ix : ix[b] # {}
    /\ \A a, b \in DOMAIN ix : a < b => \A d \in ix[a], e \in ix[b] : d < e

\* Every number up to the size of a set is the rank of a member.
LEMMA RankExists ==
    ASSUME NEW S, S \subseteq Nat, IsFiniteSet(S), NEW r \in Nat \ {0}, r <= Cardinality(S)
    PROVE  \E d \in S : Cardinality({e \in S : e <= d}) = r
<1> DEFINE upto(d) == {e \in S : e <= d}
           rank(d) == Cardinality(upto(d))
           T == {d \in S : rank(d) >= r}
<1>1. \A d \in S : IsFiniteSet(upto(d)) /\ rank(d) \in Nat
  <2> SUFFICES ASSUME NEW d \in S PROVE IsFiniteSet(upto(d)) /\ rank(d) \in Nat
    OBVIOUS
  <2>1. upto(d) \in SUBSET S
    OBVIOUS
  <2> HIDE DEF upto
  <2> QED BY <2>1, FS_Subset, FS_CardinalityType
<1>2. T # {} /\ T \subseteq Nat
  <2>1. S # {}
    <3>1. Cardinality({}) = 0
      BY FS_EmptySet
    <3> QED BY <3>1
  <2>2. PICK m \in S : \A e \in S : e <= m
    BY <2>1, MaxIs
  <2>3. upto(m) = S
    BY <2>2
  <2> HIDE DEF upto
  <2>4. rank(m) >= r
    BY <2>3, FS_CardinalityType
  <2> QED BY <2>4
<1>3. PICK d \in T : \A e \in T : d <= e
  <2> HIDE DEF T
  <2> QED BY <1>2, LeastNat
<1>4. d \in S /\ d \in Nat /\ rank(d) >= r /\ rank(d) \in Nat
  BY <1>1
<1>5. ASSUME rank(d) # r PROVE FALSE
  <2> DEFINE before == upto(d) \ {d}
  <2>1. d \in upto(d)
    BY <1>4
  <2>2. before \subseteq S /\ before \subseteq Nat /\ \A e \in before : e \in Nat /\ e < d
    <3>1. ASSUME NEW e \in before PROVE e \in S /\ e \in Nat /\ e < d
      <4>1. e \in S /\ e \in Nat /\ e <= d /\ e # d
        OBVIOUS
      <4> QED BY <1>4, <4>1
    <3> QED BY <3>1
  <2>3. \A e \in S : e < d => e \in before
    BY <1>4
  <2> HIDE DEF upto
  <2>4. IsFiniteSet(before) /\ Cardinality(before) = rank(d) - 1
    BY <1>1, <1>4, <2>1, FS_RemoveElement
  <2>5. Cardinality(before) >= r /\ Cardinality(before) # 0
    BY <1>4, <1>5, <2>4
  <2>6. before # {}
    BY <2>5, FS_EmptySet
  <2> HIDE DEF before
  <2>7. PICK m \in before : \A e \in before : e <= m
    BY <2>2, <2>4, <2>6, MaxIs
  <2>8. m \in S /\ m \in Nat /\ m < d
    BY <2>2
  <2>9. before = upto(m)
    <3>1. before \subseteq upto(m)
      BY <2>2, <2>7 DEF upto
    <3>2. ASSUME NEW e \in upto(m) PROVE e \in before
      <4>1. e \in S /\ e \in Nat /\ e <= m
        BY DEF upto
      <4>2. e < d
        BY <1>4, <2>8, <4>1
      <4> QED BY <2>3, <4>1, <4>2
    <3> QED BY <3>1, <3>2
  <2>10. rank(m) >= r
    BY <2>5, <2>9
  <2>11. d <= m
    BY <1>3, <2>8, <2>10
  <2> QED BY <1>4, <2>8, <2>11
<1>6. Cardinality({e \in S : e <= d}) = r
  BY <1>5
<1> QED BY <1>4, <1>6

\* The builder's blocks are well formed (builder.cc).
LEMMA BlocksFormed ==
    ASSUME NEW docids \in SUBSET Docs
    PROVE  BlocksOK(Blocks(docids))
<1> DEFINE rank(d) == Cardinality({e \in docids : e <= d})
           n == Cardinality(docids)
           q == (n + BlockSize - 1) \div BlockSize
           ix == [b \in 1..q |->
                    {d \in docids : (b - 1) * BlockSize < rank(d) /\ rank(d) <= b * BlockSize}]
<1>1. Blocks(docids) = ix
  BY DEF Blocks
<1>2. docids \subseteq Nat /\ IsFiniteSet(docids) /\ n \in Nat
  <2>1. docids \subseteq Nat /\ IsFiniteSet(docids)
    BY InputsFinite, FS_Subset
  <2> QED BY <2>1, FS_CardinalityType
<1>3. BlockSize \in Nat /\ BlockSize >= 1
  BY Parameters
<1>4. q \in Nat
  <2> HIDE DEF n
  <2> QED BY <1>2, <1>3
<1>5. \A d \in docids : rank(d) \in Nat
  <2> SUFFICES ASSUME NEW d \in docids PROVE rank(d) \in Nat
    OBVIOUS
  <2>1. {e \in docids : e <= d} \in SUBSET docids
    OBVIOUS
  <2> QED BY <1>2, <2>1, FS_Subset, FS_CardinalityType
<1>6. \A d, e \in docids : d <= e => rank(d) <= rank(e)
  <2> SUFFICES ASSUME NEW d \in docids, NEW e \in docids, d <= e PROVE rank(d) <= rank(e)
    OBVIOUS
  <2>1. {x \in docids : x <= e} \in SUBSET docids
    OBVIOUS
  <2>2. IsFiniteSet({x \in docids : x <= e})
    BY <1>2, <2>1, FS_Subset
  <2>3. {x \in docids : x <= d} \subseteq {x \in docids : x <= e}
    <3> SUFFICES ASSUME NEW x \in docids, x <= d PROVE x <= e
      OBVIOUS
    <3>1. x \in Nat /\ d \in Nat /\ e \in Nat
      BY <1>2
    <3> QED BY <3>1
  <2> QED BY <2>2, <2>3, FS_Subset
<1> HIDE DEF rank
<1>7. ix \in Seq(SUBSET Docs) /\ DOMAIN ix = 1..q
  <2>1. ix \in [1..q -> SUBSET Docs]
    OBVIOUS
  <2> HIDE DEF ix, q
  <2> QED BY <1>4, <2>1
<1>8. ASSUME NEW b \in 1..q PROVE ix[b] # {}
  <2>1. (b - 1) * BlockSize + 1 \in Nat \ {0} /\ (b - 1) * BlockSize + 1 <= n
    <3>1. b \in Nat /\ b - 1 \in Nat /\ b <= q
      BY <1>4
    <3>2. q * BlockSize <= n + BlockSize - 1
      <4> HIDE DEF n
      <4> QED BY <1>2, <1>3
    <3> HIDE DEF q
    <3>3. b * BlockSize <= q * BlockSize
      BY <1>3, <1>4, <3>1
    <3>4. (b - 1) * BlockSize = b * BlockSize - BlockSize
      BY <1>3, <3>1
    <3>5. (b - 1) * BlockSize \in Nat
      BY <1>3, <3>1
    <3>6. b * BlockSize \in Nat /\ q * BlockSize \in Nat
      BY <1>3, <1>4, <3>1
    <3> HIDE DEF n
    <3> QED BY <1>2, <1>3, <3>2, <3>3, <3>4, <3>5, <3>6
  <2>2. PICK d \in docids : Cardinality({e \in docids : e <= d}) = (b - 1) * BlockSize + 1
    BY <1>2, <2>1, RankExists
  <2>3. rank(d) = (b - 1) * BlockSize + 1
    BY <2>2 DEF rank
  <2>4. b \in Nat /\ b * BlockSize = (b - 1) * BlockSize + BlockSize /\ (b - 1) * BlockSize \in Nat
    BY <1>3, <1>4
  <2>5. (b - 1) * BlockSize < rank(d) /\ rank(d) <= b * BlockSize
    <3> HIDE DEF q
    <3> QED BY <1>3, <2>3, <2>4
  <2> QED BY <2>5
<1>9. ASSUME NEW a \in 1..q, NEW b \in 1..q, a < b, NEW d \in ix[a], NEW e \in ix[b]
      PROVE  d < e
  <2>1. /\ d \in docids /\ e \in docids /\ d \in Nat /\ e \in Nat
        /\ rank(d) <= a * BlockSize /\ (b - 1) * BlockSize < rank(e)
    BY <1>2
  <2>2. a \in Nat /\ b - 1 \in Nat /\ a <= b - 1
    BY <1>4, <1>9
  <2>3. a * BlockSize <= (b - 1) * BlockSize
    BY <1>3, <2>2
  <2>4. a * BlockSize \in Nat /\ (b - 1) * BlockSize \in Nat
    BY <1>3, <2>2
  <2>5. ~(rank(e) <= rank(d))
    BY <1>5, <2>1, <2>3, <2>4
  <2>6. ~(e <= d)
    BY <1>6, <2>1, <2>5
  <2> QED BY <2>1, <2>6
<1>10. BlocksOK(ix)
  <2> HIDE DEF ix, q
  <2> QED BY <1>7, <1>8, <1>9 DEF BlocksOK
<1> QED BY <1>1, <1>10
-----------------------------------------------------------------------------
(* Cursors *)

IndexOK == \A t \in Terms : BlocksOK(index[t])

\* A cursor is on a posting of its block, or behind the last block.
CursorOK(t, c) ==
    /\ c \in [block : Nat, docid : Nat]
    /\ \/ c.block = Len(index[t]) + 1 /\ c.docid = NoDocid
       \/ c.block \in DOMAIN index[t] /\ c.docid \in index[t][c.block]

LEMMA Block ==
    ASSUME IndexOK, NEW t \in Terms
    PROVE  /\ Len(index[t]) \in Nat /\ DOMAIN index[t] = 1..Len(index[t])
           /\ \A b \in DOMAIN index[t] :
                 /\ index[t][b] # {} /\ index[t][b] \subseteq Docs
                 /\ index[t][b] \subseteq Nat /\ IsFiniteSet(index[t][b])
                 /\ \A d \in index[t][b] : d < NoDocid
<1>1. index[t] \in Seq(SUBSET Docs) /\ \A b \in DOMAIN index[t] : index[t][b] # {}
  BY DEF IndexOK, BlocksOK
<1>2. Len(index[t]) \in Nat /\ DOMAIN index[t] = 1..Len(index[t])
  BY <1>1
<1>3. \A b \in DOMAIN index[t] : index[t][b] \subseteq Docs
  BY <1>1
<1> QED BY <1>1, <1>2, <1>3, InputsFinite, FS_Subset

\* A live cursor is on a posting.
LEMMA OnPosting ==
    ASSUME IndexOK, NEW t \in Terms, NEW c, CursorOK(t, c)
    PROVE  /\ ~Exhausted(t, c) => c.block \in DOMAIN index[t] /\ c.docid \in index[t][c.block]
                                  /\ c.docid \in Postings(t) /\ c.docid < NoDocid
           /\ Exhausted(t, c) => c.block = Len(index[t]) + 1 /\ c.docid = NoDocid
           /\ c.docid \in Nat /\ c.block \in Nat
           /\ c.docid \in Docs \cup {NoDocid}
<1>1. /\ Len(index[t]) \in Nat /\ DOMAIN index[t] = 1..Len(index[t])
      /\ \A b \in DOMAIN index[t] : index[t][b] \subseteq Docs /\ \A d \in index[t][b] : d < NoDocid
  BY Block
<1>2. c \in [block : Nat, docid : Nat]
      /\ (\/ c.block = Len(index[t]) + 1 /\ c.docid = NoDocid
          \/ c.block \in DOMAIN index[t] /\ c.docid \in index[t][c.block])
  BY DEF CursorOK
<1>3. CASE c.block = Len(index[t]) + 1 /\ c.docid = NoDocid
  <2>1. Exhausted(t, c)
    BY <1>1, <1>3 DEF Exhausted
  <2> QED BY <1>2, <1>3, <2>1
<1>4. CASE c.block \in DOMAIN index[t] /\ c.docid \in index[t][c.block]
  <2>1. ~Exhausted(t, c)
    BY <1>1, <1>4 DEF Exhausted
  <2> QED BY <1>1, <1>2, <1>4, <2>1 DEF Postings
<1> QED BY <1>2, <1>3, <1>4

\* Where a posting is: in the cursor's block, or in one before or behind it.
LEMMA Placed ==
    ASSUME IndexOK, NEW t \in Terms, NEW e \in Postings(t)
    PROVE  /\ \E b \in DOMAIN index[t] : e \in index[t][b]
           /\ e \in Docs /\ e \in Nat /\ e < NoDocid
           /\ \A a, b \in DOMAIN index[t] : a < b =>
                 \A d \in index[t][a], f \in index[t][b] : d < f
<1>1. \E b \in DOMAIN index[t] : e \in index[t][b]
  BY DEF Postings
<1> QED BY <1>1, Block DEF IndexOK, BlocksOK

LEMMA AtIs ==
    ASSUME IndexOK, NEW t \in Terms, NEW b \in 1..(Len(index[t]) + 1)
    PROVE  /\ CursorOK(t, At(t, b)) /\ At(t, b).block = b
           /\ \A a \in DOMAIN index[t] : \A e \in index[t][a] :
                 /\ a >= b => At(t, b).docid <= e
                 /\ a < b => e < At(t, b).docid
<1>1. Len(index[t]) \in Nat /\ DOMAIN index[t] = 1..Len(index[t])
  BY Block
<1>2. CASE b <= Len(index[t])
  <2>1. b \in DOMAIN index[t] /\ index[t][b] # {} /\ index[t][b] \subseteq Nat
    BY <1>1, <1>2, Block
  <2> DEFINE m == Min(index[t][b])
  <2>2. m \in index[t][b] /\ \A y \in index[t][b] : m <= y
    BY <2>1, MinIs
  <2>3. At(t, b) = [block |-> b, docid |-> m]
    BY <1>2 DEF At
  <2> HIDE DEF m
  <2>4. CursorOK(t, At(t, b)) /\ At(t, b).block = b /\ At(t, b).docid = m
    BY <2>1, <2>2, <2>3 DEF CursorOK
  <2>5. ASSUME NEW a \in DOMAIN index[t], NEW e \in index[t][a]
        PROVE  (a >= b => m <= e) /\ (a < b => e < m)
    <3>1. e \in Nat /\ m \in Nat /\ a \in Nat /\ b \in Nat
      BY <1>1, <2>1, <2>2, Block
    <3>2. a < b => e < m
      BY <2>1, <2>2 DEF IndexOK, BlocksOK
    <3>3. b < a => m < e
      BY <2>1, <2>2 DEF IndexOK, BlocksOK
    <3>4. a = b => m <= e
      BY <2>2
    <3> QED BY <3>1, <3>2, <3>3, <3>4
  <2> QED BY <2>4, <2>5
<1>3. CASE ~(b <= Len(index[t]))
  <2>1. b = Len(index[t]) + 1 /\ b \in Nat
    BY <1>1, <1>3
  <2>2. At(t, b) = [block |-> b, docid |-> NoDocid]
    BY <1>3 DEF At
  <2>3. CursorOK(t, At(t, b)) /\ At(t, b).block = b /\ At(t, b).docid = NoDocid
    BY <2>1, <2>2, InputsFinite DEF CursorOK
  <2>4. \A a \in DOMAIN index[t] : ~(a >= b) /\ \A e \in index[t][a] : e < NoDocid
    BY <1>1, <2>1, Block
  <2> QED BY <2>3, <2>4
<1> QED BY <1>2, <1>3

\* next() goes to the next posting.
LEMMA AdvanceIs ==
    ASSUME IndexOK, NEW t \in Terms, NEW c, CursorOK(t, c), ~Exhausted(t, c)
    PROVE  /\ CursorOK(t, Advance(t, c)) /\ c.docid < Advance(t, c).docid
           /\ \A e \in Postings(t) : e > c.docid => Advance(t, c).docid <= e
<1> DEFINE later == {d \in index[t][c.block] : d > c.docid}
           b == c.block
<1>1. /\ b \in DOMAIN index[t] /\ c.docid \in index[t][b] /\ c.docid \in Nat /\ b \in Nat
      /\ c \in [block : Nat, docid : Nat]
  BY OnPosting DEF CursorOK
<1>2. /\ Len(index[t]) \in Nat /\ DOMAIN index[t] = 1..Len(index[t]) /\ index[t][b] \subseteq Nat
  BY <1>1, Block
<1>3. b + 1 \in 1..(Len(index[t]) + 1)
  BY <1>1, <1>2
<1>4. CASE later = {}
  <2>1. Advance(t, c) = At(t, b + 1)
    BY <1>4 DEF Advance
  <2>2. /\ CursorOK(t, At(t, b + 1))
        /\ \A a \in DOMAIN index[t] : \A e \in index[t][a] :
              /\ a >= b + 1 => At(t, b + 1).docid <= e
              /\ a < b + 1 => e < At(t, b + 1).docid
    BY <1>3, AtIs
  <2>3. c.docid < At(t, b + 1).docid
    BY <1>1, <2>2
  <2>4. ASSUME NEW e \in Postings(t), e > c.docid PROVE At(t, b + 1).docid <= e
    <3>1. PICK a \in DOMAIN index[t] : e \in index[t][a]
      BY Placed
    <3>2. a \in Nat /\ e \in Nat
      BY <1>2, <3>1, Placed
    <3>3. a # b
      BY <1>4, <2>4, <3>1
    <3>4. ~(a < b)
      <4>1. a < b => e < c.docid
        BY <1>1, <3>1, Placed
      <4> QED BY <1>1, <2>4, <3>2, <4>1
    <3>5. a >= b + 1
      BY <1>1, <3>2, <3>3, <3>4
    <3> QED BY <2>2, <3>1, <3>5
  <2> QED BY <2>1, <2>2, <2>3, <2>4
<1>5. CASE later # {}
  <2> DEFINE m == Min(later)
  <2>1. m \in later /\ \A y \in later : m <= y
    BY <1>2, <1>5, MinIs
  <2>2. Advance(t, c) = [c EXCEPT !.docid = m]
    BY <1>5 DEF Advance
  <2>3. m \in index[t][b] /\ m > c.docid /\ m \in Nat
    BY <1>2, <2>1
  <2> HIDE DEF m
  <2>4. Advance(t, c) = [block |-> b, docid |-> m]
    BY <1>1, <2>2
  <2>5. CursorOK(t, Advance(t, c)) /\ Advance(t, c).docid = m
    BY <1>1, <2>3, <2>4 DEF CursorOK
  <2>6. ASSUME NEW e \in Postings(t), e > c.docid PROVE m <= e
    <3>1. PICK a \in DOMAIN index[t] : e \in index[t][a]
      BY Placed
    <3>2. a \in Nat /\ e \in Nat
      BY <1>2, <3>1, Placed
    <3>3. CASE a = b
      BY <2>1, <2>6, <3>1, <3>3
    <3>4. CASE a < b
      <4>1. e < c.docid
        BY <1>1, <3>1, <3>4, Placed
      <4> QED BY <1>1, <2>6, <3>2, <4>1
    <3>5. CASE b < a
      <4>1. m < e
        BY <1>1, <2>3, <3>1, <3>5, Placed
      <4> QED BY <2>3, <3>2, <4>1
    <3> QED BY <1>1, <3>2, <3>3, <3>4, <3>5
  <2> QED BY <1>1, <2>3, <2>5, <2>6
<1> QED BY <1>4, <1>5

\* skip_to_block() passes only blocks that end before the target.
LEMMA SkipIs ==
    ASSUME IndexOK, NEW t \in Terms, NEW c, CursorOK(t, c), ~Exhausted(t, c), NEW target \in Nat
    PROVE  LET s == Skip(t, c, target) IN
           /\ CursorOK(t, s) /\ c.docid <= s.docid /\ c.block <= s.block
           /\ \A e \in Postings(t) : e >= c.docid /\ e >= target => s.docid <= e
           /\ \A b \in DOMAIN index[t] : \A e \in index[t][b] :
                 e >= c.docid /\ e >= target => s.block <= b
           /\ ~Exhausted(t, s) => Max(index[t][s.block]) >= target
           /\ s = c \/ s.block > c.block
<1> DEFINE end == Len(index[t]) + 1
           B == {b \in c.block..end : b = end \/ Max(index[t][b]) >= target}
           b == Min(B)
           s == Skip(t, c, target)
<1>1. /\ c.block \in DOMAIN index[t] /\ c.docid \in index[t][c.block]
      /\ c.docid \in Nat /\ c.block \in Nat
  BY OnPosting DEF CursorOK
<1>2. Len(index[t]) \in Nat /\ DOMAIN index[t] = 1..Len(index[t]) /\ end \in Nat
  BY Block
<1>3. B \subseteq Nat /\ end \in B
  BY <1>1, <1>2
<1>4. b \in B /\ \A x \in B : b <= x
  <2> HIDE DEF B
  <2> QED BY <1>3, MinIs
<1>5. b \in Nat /\ c.block <= b /\ b <= end /\ (b = end \/ Max(index[t][b]) >= target)
  <2>1. b \in c.block..end /\ (b = end \/ Max(index[t][b]) >= target)
    BY <1>4
  <2> HIDE DEF b
  <2> QED BY <1>1, <1>2, <2>1
<1>6. s = IF b = c.block THEN c ELSE At(t, b)
  BY DEF Skip
<1>7. b \in 1..(Len(index[t]) + 1)
  <2> HIDE DEF b, B
  <2> QED BY <1>1, <1>2, <1>5
<1>8. ASSUME NEW a \in DOMAIN index[t], NEW e \in index[t][a], e >= c.docid, e >= target
      PROVE  b <= a
  <2>1. a \in Nat /\ a <= Len(index[t]) /\ e \in Nat /\ index[t][a] \subseteq Nat
        /\ IsFiniteSet(index[t][a])
    BY <1>2, Block
  <2>2. ~(a < c.block)
    <3>1. a < c.block => e < c.docid
      BY <1>1 DEF IndexOK, BlocksOK
    <3> QED BY <1>1, <1>8, <2>1, <3>1
  <2>3. Max(index[t][a]) \in Nat /\ e <= Max(index[t][a])
    BY <2>1, MaxIs
  <2>4. Max(index[t][a]) >= target
    BY <1>8, <2>1, <2>3
  <2>5. a \in c.block..end
    BY <1>1, <1>2, <2>1, <2>2
  <2>6. a \in B
    BY <2>4, <2>5
  <2> HIDE DEF B
  <2> QED BY <1>4, <2>6
<1> HIDE DEF B, b, s
<1>9. s.block = b /\ CursorOK(t, s) /\ c.docid <= s.docid
  <2>1. CASE b = c.block
    BY <1>1, <1>6, <2>1
  <2>2. CASE b # c.block
    <3>1. s = At(t, b) /\ c.block < b
      BY <1>1, <1>5, <1>6, <2>2
    <3>2. CursorOK(t, At(t, b)) /\ At(t, b).block = b /\ c.docid < At(t, b).docid
      BY <1>1, <1>7, <3>1, AtIs
    <3>3. At(t, b).docid \in Nat
      BY <3>2 DEF CursorOK
    <3> QED BY <1>1, <3>1, <3>2, <3>3
  <2> QED BY <2>1, <2>2
<1>10. ASSUME NEW e \in Postings(t), e >= c.docid, e >= target PROVE s.docid <= e
  <2>1. PICK a \in DOMAIN index[t] : e \in index[t][a]
    BY Placed
  <2>2. b <= a
    BY <1>8, <1>10, <2>1
  <2>3. CASE b = c.block
    <3>1. s = c
      BY <1>6, <2>3
    <3> QED BY <1>1, <1>10, <3>1, Placed
  <2>4. CASE b # c.block
    <3>1. s = At(t, b) /\ a >= b
      BY <1>2, <1>5, <1>6, <2>2, <2>4
    <3> QED BY <1>7, <2>1, <3>1, AtIs
  <2> QED BY <2>3, <2>4
<1>11. ~Exhausted(t, s) => Max(index[t][s.block]) >= target
  <2>1. ~Exhausted(t, s) => b # end
    BY <1>2, <1>9 DEF Exhausted
  <2> QED BY <1>5, <1>9, <2>1
<1>12. s = c \/ s.block > c.block
  BY <1>1, <1>5, <1>6, <1>9
<1> QED BY <1>1, <1>5, <1>8, <1>9, <1>10, <1>11, <1>12 DEF s

\* next_geq() passes only postings before the target.
LEMMA NextGeqIs ==
    ASSUME IndexOK, NEW t \in Terms, NEW c, CursorOK(t, c), ~Exhausted(t, c), NEW target \in Nat
    PROVE  /\ CursorOK(t, NextGeq(t, c, target)) /\ c.docid <= NextGeq(t, c, target).docid
           /\ \A e \in Postings(t) : e >= c.docid /\ e >= target => NextGeq(t, c, target).docid <= e
           /\ target <= NoDocid => target <= NextGeq(t, c, target).docid
<1> DEFINE s == Skip(t, c, target)
           rest == {d \in index[t][s.block] : d >= s.docid /\ d >= target}
           n == NextGeq(t, c, target)
<1>1. /\ c.docid \in Nat /\ c.block \in Nat
  BY OnPosting
<1>2. /\ CursorOK(t, s) /\ c.docid <= s.docid /\ c.block <= s.block
      /\ \A e \in Postings(t) : e >= c.docid /\ e >= target => s.docid <= e
      /\ \A b \in DOMAIN index[t] : \A e \in index[t][b] :
            e >= c.docid /\ e >= target => s.block <= b
      /\ ~Exhausted(t, s) => Max(index[t][s.block]) >= target
      /\ s = c \/ s.block > c.block
  BY SkipIs
<1>3. n = IF c.docid >= target THEN c
          ELSE IF Exhausted(t, s) THEN s
          ELSE IF rest = {} THEN At(t, s.block + 1)
          ELSE [s EXCEPT !.docid = Min(rest)]
  BY DEF NextGeq
<1> HIDE DEF s, n
<1>4. CASE c.docid >= target
  BY <1>1, <1>3, <1>4, Placed DEF n
<1>5. CASE ~(c.docid >= target) /\ Exhausted(t, s)
  <2>1. n = s /\ s.docid = NoDocid
    BY <1>2, <1>3, <1>5, OnPosting
  <2> QED BY <1>2, <2>1 DEF n
<1>6. CASE ~(c.docid >= target) /\ ~Exhausted(t, s)
  <2>1. /\ s.block \in DOMAIN index[t] /\ s.docid \in index[t][s.block]
        /\ s.docid \in Nat /\ s.block \in Nat /\ s \in [block : Nat, docid : Nat]
    BY <1>2, <1>6, OnPosting DEF CursorOK
  <2>2. /\ Len(index[t]) \in Nat /\ DOMAIN index[t] = 1..Len(index[t])
        /\ index[t][s.block] \subseteq Nat /\ index[t][s.block] # {}
        /\ IsFiniteSet(index[t][s.block])
    BY <2>1, Block
  <2> DEFINE m == Max(index[t][s.block])
  <2>3. m \in index[t][s.block] /\ m >= target /\ \A y \in index[t][s.block] : y <= m
    BY <1>2, <1>6, <2>2, MaxIs
  <2>4. s.docid <= m /\ m \in Nat
    BY <2>1, <2>2, <2>3
  <2> HIDE DEF m
  <2>5. m \in rest
    BY <2>1, <2>3, <2>4
  <2>6. rest # {} /\ rest \subseteq Nat
    BY <2>2, <2>5
  <2> DEFINE l == Min(rest)
  <2>7. l \in rest /\ \A y \in rest : l <= y
    <3> HIDE DEF rest
    <3> QED BY <2>6, MinIs
  <2>8. n = [s EXCEPT !.docid = l]
    BY <1>3, <1>6, <2>6
  <2>9. l \in index[t][s.block] /\ l >= s.docid /\ l \in Nat
    BY <2>6, <2>7
  <2> HIDE DEF l
  <2>10. n = [block |-> s.block, docid |-> l]
    BY <2>1, <2>8
  <2>11. CursorOK(t, n) /\ n.docid = l
    BY <2>1, <2>9, <2>10 DEF CursorOK
  <2>12. c.docid <= l
    BY <1>1, <1>2, <2>1, <2>9
  <2>13. ASSUME NEW e \in Postings(t), e >= c.docid, e >= target PROVE l <= e
    <3>1. PICK a \in DOMAIN index[t] : e \in index[t][a]
      BY Placed
    <3>2. s.docid <= e /\ s.block <= a /\ e \in Nat /\ a \in Nat
      BY <1>2, <2>2, <2>13, <3>1, Placed
    <3>3. CASE a = s.block
      <4>1. e \in rest
        BY <2>1, <2>13, <3>1, <3>2, <3>3
      <4> HIDE DEF rest
      <4> QED BY <2>7, <4>1
    <3>4. CASE s.block < a
      <4>1. l < e
        BY <2>1, <2>9, <3>1, <3>4, Placed
      <4> QED BY <2>9, <3>2, <4>1
    <3> QED BY <2>1, <3>2, <3>3, <3>4
  <2>14. target <= n.docid
    <3>1. l >= target
      BY <2>7 DEF l
    <3> QED BY <2>9, <2>11, <3>1
  <2> QED BY <2>11, <2>12, <2>13, <2>14 DEF n
<1> QED BY <1>4, <1>5, <1>6
-----------------------------------------------------------------------------
(* Scores and their bounds *)

\* The terms of the query that are in document d.
Of(d) == {t \in Terms : d \in Postings(t)}

\* A document that matches.
LEMMA Matching ==
    ASSUME IndexOK, NEW d \in Matches
    PROVE  d \in Docs /\ d \in Nat /\ d < NoDocid /\ Of(d) # {} /\ Of(d) \subseteq Terms
<1>1. PICK t \in Terms : d \in Postings(t)
  BY DEF Matches
<1> QED BY <1>1, Placed DEF Of

\* The bounds of a term and of a block are impacts, above those of their documents.
LEMMA BoundsAre ==
    ASSUME IndexOK, NEW t \in Terms, NEW S, S \subseteq Docs, S # {}
    PROVE  LET m == Max({Impact[t][d] : d \in S})
           IN  m \in Impacts /\ m \in Nat /\ \A d \in S : Impact[t][d] \in Nat /\ Impact[t][d] <= m
<1> DEFINE I == {Impact[t][d] : d \in S}
<1>1. I \subseteq Impacts /\ I # {}
  BY DEF Impacts
<1>2. \A d \in S : Impact[t][d] \in I
  OBVIOUS
<1> HIDE DEF I
<1>3. IsFiniteSet(I) /\ I \subseteq Nat
  BY <1>1, ImpactsBounded, FS_Subset
<1>4. Max(I) \in I /\ \A i \in I : i <= Max(I)
  BY <1>1, <1>3, MaxIs
<1>5. Max(I) \in Impacts /\ Max(I) \in Nat
  BY <1>1, <1>3, <1>4
<1>6. \A d \in S : Impact[t][d] \in Nat /\ Impact[t][d] <= Max(I)
  BY <1>2, <1>3, <1>4
<1> QED BY <1>5, <1>6 DEF I

LEMMA TermBound ==
    ASSUME IndexOK, NEW t \in Terms, Postings(t) # {}
    PROVE  MaxImpact(t) \in Impacts /\ \A d \in Postings(t) : Impact[t][d] <= MaxImpact(t)
<1>1. Postings(t) \subseteq Docs
  BY Placed
<1> QED BY <1>1, BoundsAre DEF MaxImpact

LEMMA BlockBoundIs ==
    ASSUME IndexOK, NEW t \in Terms, NEW b \in DOMAIN index[t]
    PROVE  BlockMax(t, b) \in Impacts /\ \A d \in index[t][b] : Impact[t][d] <= BlockMax(t, b)
<1>1. index[t][b] \subseteq Docs /\ index[t][b] # {}
  BY Block
<1> QED BY <1>1, BoundsAre DEF BlockMax

\* A score is the sum over the terms of the document.
LEMMA ScoreIs ==
    ASSUME Exact, IndexOK, NEW d \in Matches
    PROVE  /\ Score(d) = Total([t \in Of(d) |-> Impact[t][d]])
           /\ Score(d) \in Nat /\ Scored(d) \in [docid : Nat, score : Nat]
           /\ Scored(d).docid = d /\ Scored(d).score = Score(d)
<1> DEFINE v == [t \in Of(d) |-> Impact[t][d]]
<1>d. d \in Docs /\ d \in Nat
  BY Matching
<1>1. v \in [Of(d) -> Impacts] /\ Of(d) \in SUBSET Terms
  BY <1>d DEF Impacts, Of
<1>2. [t \in Terms |-> d] \in [Terms -> Docs \cup {NoDocid}]
  BY <1>d
<1>3. Score(d) = Sum([t \in Terms |-> d], v)
  BY DEF Score, Of
<1>4. DOMAIN v = Of(d)
  OBVIOUS
<1> HIDE DEF v
<1>5. Score(d) = Total(v)
  BY <1>1, <1>2, <1>3, SumIsTotal
<1>6. \A t \in DOMAIN v : v[t] \in Nat /\ v[t] <= v[t]
  <2>1. \A t \in DOMAIN v : v[t] \in Nat
    BY <1>1, <1>4, ImpactsBounded
  <2>2. \A n \in Nat : n <= n
    OBVIOUS
  <2> QED BY <2>1, <2>2
<1>7. Total(v) \in Nat
  BY <1>1, <1>4, <1>6, TotalMonotone
<1> QED BY <1>d, <1>5, <1>7 DEF Scored, v

\* No score is above a sum of bounds of at least its terms.
LEMMA ScoreAtMost ==
    ASSUME Exact, IndexOK, NEW d \in Matches, NEW docid \in [Terms -> Docs \cup {NoDocid}],
           NEW S \in SUBSET Terms, Of(d) \subseteq S, NEW bound \in [S -> Impacts],
           \A t \in Of(d) : Impact[t][d] <= bound[t]
    PROVE  Sum(docid, bound) \in Nat /\ Score(d) <= Sum(docid, bound)
<1> DEFINE v == [t \in Of(d) |-> Impact[t][d]]
<1>1. Sum(docid, bound) = Total(bound)
  BY SumIsTotal
<1>2. Score(d) = Total(v)
  BY ScoreIs
<1>3. DOMAIN v = Of(d) /\ \A t \in Of(d) : v[t] = Impact[t][d] /\ Impact[t][d] \in Nat
  BY Matching, Parameters
<1> HIDE DEF v
<1>4. DOMAIN bound = S /\ \A t \in Of(d) : bound[t] \in Nat
  BY ImpactsBounded
<1>5. Total(v) <= Total(bound) /\ Total(bound) \in Nat
  BY <1>3, <1>4, TotalMonotone
<1> QED BY <1>1, <1>2, <1>5

\* What a document gets for some of its terms is no more than its score.
LEMMA PartOfScore ==
    ASSUME Exact, IndexOK, NEW d \in Matches, NEW docid \in [Terms -> Docs \cup {NoDocid}],
           NEW S, S \subseteq Of(d)
    PROVE  LET sum == Sum(docid, [t \in S |-> Impact[t][d]])
           IN  sum \in Nat /\ sum <= Score(d) /\ (S = Of(d) => sum = Score(d))
<1> DEFINE v == [t \in S |-> Impact[t][d]]
           w == [t \in Of(d) |-> Impact[t][d]]
<1>1. \A t \in Of(d) : Impact[t][d] \in Impacts /\ Impact[t][d] \in Nat
  BY Matching, Parameters DEF Impacts
<1>2. v \in [S -> Impacts] /\ S \in SUBSET Terms
  BY <1>1, Matching
<1>3. Score(d) = Total(w)
  BY ScoreIs
<1>4. /\ DOMAIN v = S /\ DOMAIN w = Of(d)
      /\ \A t \in S : v[t] = Impact[t][d] /\ w[t] = Impact[t][d]
  OBVIOUS
<1>5. S = Of(d) => v = w
  OBVIOUS
<1> HIDE DEF v, w
<1>6. Sum(docid, v) = Total(v)
  BY <1>2, SumIsTotal
<1>7. \A t \in DOMAIN v : v[t] \in Nat /\ w[t] \in Nat /\ v[t] <= w[t]
  BY <1>1, <1>4
<1>8. Total(v) \in Nat /\ Total(v) <= Total(w)
  BY <1>4, <1>7, Matching, TotalMonotone
<1>9. Sum(docid, v) \in Nat /\ Sum(docid, v) <= Score(d) /\ (S = Of(d) => Sum(docid, v) = Score(d))
  BY <1>3, <1>5, <1>6, <1>8
<1> QED BY <1>9 DEF v
-----------------------------------------------------------------------------
(* The invariant *)

\* The heap H is full of better results than d.
Hopeless(H, d) == Cardinality(H) = k /\ \A r \in H : Better(r, Scored(d))

\* Every matching document has been scored in full, or not been passed by any of
\* its cursors, or is hopeless.
Kept(H, c) ==
    \A d \in Matches :
        \/ Scored(d) \in H /\ \A t \in Of(d) : c[t].docid > d
        \/ (\A r \in H : r.docid # d) /\ \A t \in Of(d) : c[t].docid <= d
        \/ Hopeless(H, d)

HeapOK(H) ==
    /\ IsResults(H) /\ Cardinality(H) <= k
    /\ \A r \in H : r.docid \in Matches /\ r = Scored(r.docid)

CursorsOK(c) ==
    /\ c \in [Terms -> [block : Nat, docid : Nat]]
    /\ \A t \in Terms : CursorOK(t, c[t])

InputOK == IndexOK /\ k \in Nat \ {0}

SearchInv == CursorsOK(cursor) /\ HeapOK(heap) /\ Kept(heap, cursor)

DoneInv == state = "done" => \A d \in Matches : Scored(d) \in heap \/ Hopeless(heap, d)

IInv == InputOK /\ SearchInv /\ DoneInv

\* While the query and the index stay, the invariant speaks of heap and cursors.
LEMMA Frame ==
    ASSUME UNCHANGED input
    PROVE  /\ InputOK' <=> InputOK
           /\ CursorsOK(cursor)' <=> CursorsOK(cursor')
           /\ HeapOK(heap)' <=> HeapOK(heap')
           /\ Kept(heap, cursor)' <=> Kept(heap', cursor')
           /\ DoneInv' <=> (state' = "done" =>
                               \A d \in Matches : Scored(d) \in heap' \/ Hopeless(heap', d))
<1>1. k' = k /\ index' = index
  BY DEF input
<1>2. \A t : Postings(t)' = Postings(t)
  BY <1>1 DEF Postings
<1>3. Matches' = Matches /\ \A d : Of(d)' = Of(d)
  BY <1>2 DEF Matches, Of
<1>4. \A d : Scored(d)' = Scored(d)
  BY <1>2 DEF Scored, Score
<1>5. \A H, d : (Cardinality(H) = k' /\ \A r \in H : Better(r, Scored(d)')) <=> Hopeless(H, d)
  BY <1>1, <1>4 DEF Hopeless
<1>6. IndexOK' <=> IndexOK
  BY <1>1 DEF IndexOK
<1>7. CursorsOK(cursor)' <=> CursorsOK(cursor')
  BY <1>1 DEF CursorsOK, CursorOK
<1>8. HeapOK(heap)' <=> HeapOK(heap')
  BY <1>1, <1>3, <1>4 DEF HeapOK, IsResults
<1>9. Kept(heap, cursor)' <=> Kept(heap', cursor')
  BY <1>1, <1>3, <1>4 DEF Kept, Hopeless, Better
<1>10. DoneInv' <=> (state' = "done" =>
                        \A d \in Matches : Scored(d) \in heap' \/ Hopeless(heap', d))
  BY <1>1, <1>3, <1>4 DEF DoneInv, Hopeless, Better
<1> QED BY <1>1, <1>6, <1>7, <1>8, <1>9, <1>10 DEF InputOK

LEMMA DocidsOf ==
    ASSUME IndexOK, NEW c, CursorsOK(c)
    PROVE  Docids(c) \in [Terms -> Docs \cup {NoDocid}]
BY OnPosting DEF Docids, CursorsOK

\* Of some cursors one comes first, and one last.
LEMMA FirstAndLast ==
    ASSUME NEW c, CursorsOK(c), NEW S \in SUBSET Terms, S # {}
    PROVE  /\ \E l \in S : \A u \in S \ {l} : Before(c, l, u)
           /\ \E l \in S : \A u \in S \ {l} : Before(c, u, l)
<1> DEFINE D == {c[u].docid : u \in S}
<1>1. \A u \in Terms : c[u].docid \in Nat /\ u \in Nat
  BY InputsFinite DEF CursorsOK
<1>2. D \subseteq Nat /\ D # {} /\ IsFiniteSet(S)
  BY <1>1, InputsFinite, FS_Subset
<1>3. \E l \in S : \A u \in S \ {l} : Before(c, l, u)
  <2>1. PICK m \in D : \A y \in D : m <= y
    <3> HIDE DEF D
    <3> QED BY <1>2, LeastNat
  <2> DEFINE L == {u \in S : c[u].docid = m}
  <2>2. L # {} /\ L \subseteq Nat
    BY <1>1
  <2>3. PICK l \in L : \A u \in L : l <= u
    <3> HIDE DEF L
    <3> QED BY <2>2, LeastNat
  <2>4. ASSUME NEW u \in S \ {l} PROVE Before(c, l, u)
    <3>1. c[u].docid \in Nat /\ m <= c[u].docid /\ c[l].docid = m /\ m \in Nat /\ l \in Nat /\ u \in Nat
      BY <1>1, <2>1
    <3>2. c[u].docid = m => l <= u /\ l # u
      BY <2>3
    <3> QED BY <3>1, <3>2 DEF Before
  <2> QED BY <2>4
<1>4. \E l \in S : \A u \in S \ {l} : Before(c, u, l)
  <2>1. PICK m \in D : \A y \in D : y <= m
    <3>1. IsFiniteSet(D)
      <4> DEFINE f == [u \in S |-> c[u].docid]
      <4>1. f \in Surjection(S, D)
        BY DEF Surjection
      <4> HIDE DEF f, D
      <4> QED BY <1>2, <4>1, FS_Surjection
    <3> HIDE DEF D
    <3> QED BY <1>2, <3>1, MaxIs
  <2> DEFINE L == {u \in S : c[u].docid = m}
  <2>2. L # {} /\ L \subseteq Nat /\ IsFiniteSet(L)
    <3>1. L # {} /\ L \subseteq Nat /\ L \in SUBSET S
      BY <1>1
    <3> HIDE DEF L
    <3> QED BY <1>2, <3>1, FS_Subset
  <2>3. PICK l \in L : \A u \in L : u <= l
    <3> HIDE DEF L
    <3> QED BY <2>2, MaxIs
  <2>4. ASSUME NEW u \in S \ {l} PROVE Before(c, u, l)
    <3>1. c[u].docid \in Nat /\ c[u].docid <= m /\ c[l].docid = m /\ m \in Nat /\ l \in Nat /\ u \in Nat
      BY <1>1, <2>1
    <3>2. c[u].docid = m => u <= l /\ l # u
      BY <2>3
    <3> QED BY <3>1, <3>2 DEF Before
  <2> QED BY <2>4
<1> QED BY <1>3, <1>4

-----------------------------------------------------------------------------
(* How the cursors move *)

\* Scoring a document moves the cursors on it to their next postings.
LEMMA EvaluateMoves ==
    ASSUME IndexOK, NEW c, CursorsOK(c), NEW d \in Nat
    PROVE  LET n == MoveOn(c, d) IN
           /\ CursorsOK(n)
           /\ \A t \in Terms : /\ c[t].docid <= n[t].docid
                               /\ t \in On(c, d) => d < n[t].docid
                               /\ \A e \in Postings(t) : e # d /\ c[t].docid <= e => n[t].docid <= e
<1> DEFINE n == MoveOn(c, d)
<1>2. \A t \in Terms : CursorOK(t, c[t]) /\ c[t].docid \in Nat
  BY DEF CursorsOK
<1>c. \A t \in Terms : n[t] = IF t \in On(c, d) THEN Advance(t, c[t]) ELSE c[t]
  BY DEF MoveOn
<1>f. DOMAIN n = Terms /\ n = [t \in Terms |-> n[t]]
  BY DEF MoveOn
<1> HIDE DEF n
<1>9. \A t \in Terms : /\ CursorOK(t, n[t]) /\ c[t].docid <= n[t].docid
                       /\ t \in On(c, d) => d < n[t].docid
                       /\ \A e \in Postings(t) : e # d /\ c[t].docid <= e => n[t].docid <= e
  <2> SUFFICES ASSUME NEW t \in Terms
               PROVE  /\ CursorOK(t, n[t]) /\ c[t].docid <= n[t].docid
                      /\ t \in On(c, d) => d < n[t].docid
                      /\ \A e \in Postings(t) : e # d /\ c[t].docid <= e => n[t].docid <= e
    OBVIOUS
  <2>1. CASE t \notin On(c, d)
    BY <1>2, <1>c, <2>1
  <2>2. CASE t \in On(c, d)
    <3>1. ~Exhausted(t, c[t]) /\ c[t].docid = d /\ CursorOK(t, c[t]) /\ n[t] = Advance(t, c[t])
      BY <1>2, <1>c, <2>2 DEF On, Live
    <3>2. /\ CursorOK(t, n[t]) /\ d < n[t].docid
          /\ \A e \in Postings(t) : e > d => n[t].docid <= e
      BY <3>1, AdvanceIs
    <3>3. n[t].docid \in Nat /\ \A e \in Postings(t) : e \in Nat
      BY <3>2, Placed DEF CursorOK
    <3>4. \A e \in Postings(t) : e # d /\ d <= e => e > d
      BY <3>3
    <3> QED BY <3>1, <3>2, <3>3, <3>4
  <2> QED BY <2>1, <2>2
<1>10. CursorsOK(n)
  <2>1. \A t \in Terms : n[t] \in [block : Nat, docid : Nat]
    BY <1>9 DEF CursorOK
  <2>2. n \in [Terms -> [block : Nat, docid : Nat]]
    BY <1>f, <2>1
  <2> QED BY <1>9, <2>2 DEF CursorsOK
<1> QED BY <1>9, <1>10 DEF n

\* Dragging moves one cursor that is behind d past nothing that is not before d.
LEMMA DragMoves ==
    ASSUME IndexOK, NEW c, CursorsOK(c), NEW d \in Nat, Drag(c, d)
    PROVE  /\ CursorsOK(cursor') /\ heap' = heap
           /\ \A t \in Terms :
                 /\ c[t].docid <= cursor'[t].docid
                 /\ \A e \in Postings(t) : e >= c[t].docid /\ e >= d => cursor'[t].docid <= e
           /\ d <= NoDocid => \E t \in Terms : c[t].docid < cursor'[t].docid
<1>1. PICK t \in Behind(c, d) : cursor' = [c EXCEPT ![t] = NextGeq(t, c[t], d)]
  BY DEF Drag, Laggards
<1>2. heap' = heap
  BY DEF Drag
<1>3. t \in Terms /\ ~Exhausted(t, c[t]) /\ CursorOK(t, c[t])
  BY DEF Behind, Live, CursorsOK
<1> DEFINE g == NextGeq(t, c[t], d)
           n == cursor'
<1>4. /\ CursorOK(t, g) /\ c[t].docid <= g.docid
      /\ \A e \in Postings(t) : e >= c[t].docid /\ e >= d => g.docid <= e
      /\ d <= NoDocid => d <= g.docid
  BY <1>3, NextGeqIs
<1>5. n = [c EXCEPT ![t] = g]
  BY <1>1
<1> HIDE DEF g
<1>6. g \in [block : Nat, docid : Nat] /\ c \in [Terms -> [block : Nat, docid : Nat]]
  BY <1>4 DEF CursorOK, CursorsOK
<1>7. /\ n \in [Terms -> [block : Nat, docid : Nat]]
      /\ \A u \in Terms : n[u] = IF u = t THEN g ELSE c[u]
  BY <1>3, <1>5, <1>6
<1> HIDE DEF n
<1>8. CursorsOK(n)
  BY <1>4, <1>7 DEF CursorsOK
<1>9. \A u \in Terms : c[u].docid <= n[u].docid
  <2>1. \A u \in Terms : c[u].docid \in Nat
    BY <1>6
  <2> QED BY <1>4, <1>7, <2>1
<1>10. ASSUME NEW u \in Terms, NEW e \in Postings(u), e >= c[u].docid, e >= d
       PROVE  n[u].docid <= e
  <2>1. e \in Nat /\ c[u].docid \in Nat
    BY <1>6, Placed
  <2> QED BY <1>4, <1>7, <1>10, <2>1
<1>11. d <= NoDocid => c[t].docid < n[t].docid
  <2>1. c[t].docid < d /\ c[t].docid \in Nat /\ g.docid \in Nat /\ NoDocid \in Nat
    BY <1>3, <1>6, InputsFinite DEF Behind
  <2>2. d <= NoDocid => d <= g.docid
    BY <1>4
  <2> QED BY <1>3, <1>7, <2>1, <2>2
<1> QED BY <1>2, <1>3, <1>8, <1>9, <1>10, <1>11 DEF n

\* The skips before the block bounds move candidates past nothing that is not
\* before the pivot, and if none ran out they have moved all of them.
LEMMA SkippedMoves ==
    ASSUME IndexOK, CursorsOK(cursor), NEW d \in Nat
    PROVE  LET c == Skipped(d)
           IN  /\ CursorsOK(c)
               /\ \A t \in Terms :
                     /\ cursor[t].docid <= c[t].docid
                     /\ \A e \in Postings(t) : e >= cursor[t].docid /\ e >= d => c[t].docid <= e
               /\ (\A t \in Candidates(d) : ~Exhausted(t, c[t])) =>
                      \A t \in Candidates(d) : c[t] = Skip(t, cursor[t], d)
<1> DEFINE c == Skipped(d)
           S(t) == Skip(t, cursor[t], d)
<1>2. \A t \in Terms : CursorOK(t, cursor[t]) /\ cursor[t].docid \in Nat
  BY DEF CursorsOK
<1>3. \A t \in Terms :
          \/ c[t] = cursor[t]
          \/ t \in Candidates(d) /\ c[t] = S(t)
  BY DEF Skipped
<1>4. c = [t \in Terms |-> c[t]]
  BY DEF Skipped
<1>5. \A t \in Candidates(d) :
          c[t] = S(t) \/ \E u \in Candidates(d) : Before(cursor, u, t) /\ Exhausted(u, S(u))
  BY DEF Skipped, Candidates, Live
<1>s. \A t \in Candidates(d) :
          (\A u \in Candidates(d) : Before(cursor, u, t) => ~Exhausted(u, S(u))) => c[t] = S(t)
  BY <1>5
<1>d. Candidates(d) \in SUBSET Terms /\ \A t \in Candidates(d) : ~Exhausted(t, cursor[t])
  BY DEF Candidates, Live
<1> HIDE DEF c
<1>6. \A t \in Candidates(d) :
          /\ CursorOK(t, S(t)) /\ cursor[t].docid <= S(t).docid
          /\ \A e \in Postings(t) : e >= cursor[t].docid /\ e >= d => S(t).docid <= e
  BY <1>2, <1>d, SkipIs
<1> HIDE DEF S
<1>7. \A t \in Terms :
          /\ CursorOK(t, c[t]) /\ cursor[t].docid <= c[t].docid
          /\ \A e \in Postings(t) : e >= cursor[t].docid /\ e >= d => c[t].docid <= e
  <2> SUFFICES ASSUME NEW t \in Terms
               PROVE  /\ CursorOK(t, c[t]) /\ cursor[t].docid <= c[t].docid
                      /\ \A e \in Postings(t) : e >= cursor[t].docid /\ e >= d => c[t].docid <= e
    OBVIOUS
  <2>1. CASE c[t] = cursor[t]
    <3>1. \A e \in Postings(t) : e \in Nat
      BY Placed
    <3> QED BY <1>2, <2>1, <3>1
  <2>2. CASE t \in Candidates(d) /\ c[t] = S(t)
    BY <1>6, <2>2
  <2> QED BY <1>3, <2>1, <2>2
<1>8. CursorsOK(c)
  <2>1. \A t \in Terms : c[t] \in [block : Nat, docid : Nat]
    BY <1>7 DEF CursorOK
  <2>2. c \in [Terms -> [block : Nat, docid : Nat]]
    BY <1>4, <2>1
  <2> QED BY <1>7, <2>2 DEF CursorsOK
<1>9. ASSUME \A t \in Candidates(d) : ~Exhausted(t, c[t])
       PROVE  \A t \in Candidates(d) : c[t] = S(t)
  <2> DEFINE X == {u \in Candidates(d) : Exhausted(u, S(u))}
  <2>1. ASSUME X # {} PROVE FALSE
    <3>1. X \in SUBSET Terms
      BY <1>d
    <3>2. PICK l \in X : \A u \in X \ {l} : Before(cursor, l, u)
      <4> HIDE DEF X
      <4> QED BY <2>1, <3>1, FirstAndLast
    <3>3. l \in Candidates(d) /\ Exhausted(l, S(l)) /\ l \in Terms
      BY <1>d, <3>2
    <3>4. \A u \in Candidates(d) : Before(cursor, u, l) => ~Exhausted(u, S(u))
      <4> SUFFICES ASSUME NEW u \in X, Before(cursor, u, l) PROVE FALSE
        OBVIOUS
      <4>1. u \in Terms /\ cursor[u].docid \in Nat /\ cursor[l].docid \in Nat /\ u \in Nat /\ l \in Nat
        BY <1>2, <3>1, <3>3, InputsFinite
      <4>2. u = l \/ Before(cursor, l, u)
        BY <3>2
      <4> QED BY <4>1, <4>2 DEF Before
    <3>5. c[l] = S(l)
      BY <1>s, <3>3, <3>4
    <3> QED BY <1>9, <3>3, <3>5
  <2>2. \A u \in Candidates(d) : ~Exhausted(u, S(u))
    BY <2>1
  <2> QED BY <1>s, <2>2
<1> QED BY <1>7, <1>8, <1>9 DEF c, S

\* What a jump does: the target is not behind the end of a candidate's block nor
\* behind another cursor, and the candidates move to it.
LEMMA JumpMoves ==
    ASSUME IndexOK, CursorsOK(cursor), NEW d \in Nat, NEW c, CursorsOK(c),
           Candidates(d) # {}, Jump(c, d)
    PROVE  LET C == Candidates(d)
               target == Target(c, d)
               n == cursor'
           IN
           /\ \A t \in C : /\ t \in Terms /\ c[t].block \in DOMAIN index[t]
                           /\ Max(index[t][c[t].block]) \in index[t][c[t].block]
                           /\ Max(index[t][c[t].block]) \in Nat
                           /\ \A e \in index[t][c[t].block] : e <= Max(index[t][c[t].block])
           /\ target \in Nat
           /\ \A t \in C : target <= Max(index[t][c[t].block]) + 1
           /\ \A t \in Live(cursor) \ C : target <= cursor[t].docid
           /\ CursorsOK(n)
           /\ \A t \in Terms :
                 /\ c[t].docid <= n[t].docid
                 /\ \A e \in Postings(t) : e >= c[t].docid /\ e >= target => n[t].docid <= e
                 /\ t \in C => target <= n[t].docid
<1> DEFINE target == Target(c, d)
           C == Candidates(d)
           n == [t \in Terms |-> IF t \in C THEN NextGeq(t, c[t], target) ELSE c[t]]
<1>1. C \in SUBSET Terms /\ C # {}
  BY DEF Candidates, Live
<1>2. (\A t \in C : ~Exhausted(t, c[t])) /\ cursor' = n
  BY DEF Jump
<1>4. \A t \in Terms : /\ CursorOK(t, cursor[t]) /\ cursor[t].docid \in Nat
                       /\ CursorOK(t, c[t]) /\ c[t].docid \in Nat
  BY DEF CursorsOK
<1>t. target = Min({Max(index[t][c[t].block]) + 1 : t \in C}
                   \cup {cursor[t].docid : t \in Live(cursor) \ C})
  BY DEF Target
<1> HIDE DEF C, target
<1>6. \A t \in C : /\ t \in Terms /\ c[t].block \in DOMAIN index[t]
                   /\ Max(index[t][c[t].block]) \in index[t][c[t].block]
                   /\ Max(index[t][c[t].block]) \in Nat
                   /\ \A e \in index[t][c[t].block] : e <= Max(index[t][c[t].block])
  <2> SUFFICES ASSUME NEW t \in C
               PROVE  /\ t \in Terms /\ c[t].block \in DOMAIN index[t]
                      /\ Max(index[t][c[t].block]) \in index[t][c[t].block]
                      /\ Max(index[t][c[t].block]) \in Nat
                      /\ \A e \in index[t][c[t].block] : e <= Max(index[t][c[t].block])
    OBVIOUS
  <2>1. t \in Terms /\ c[t].block \in DOMAIN index[t]
    BY <1>1, <1>2, <1>4, OnPosting
  <2>2. /\ index[t][c[t].block] # {} /\ index[t][c[t].block] \subseteq Nat
        /\ IsFiniteSet(index[t][c[t].block])
    BY <2>1, Block
  <2>3. /\ Max(index[t][c[t].block]) \in index[t][c[t].block]
        /\ \A e \in index[t][c[t].block] : e <= Max(index[t][c[t].block])
    BY <2>2, MaxIs
  <2> QED BY <2>1, <2>2, <2>3
<1>7. /\ target \in Nat
      /\ \A t \in C : target <= Max(index[t][c[t].block]) + 1
      /\ \A t \in Live(cursor) \ C : target <= cursor[t].docid
      /\ target <= NoDocid
  <2> DEFINE X == {Max(index[t][c[t].block]) + 1 : t \in C}
             Y == {cursor[t].docid : t \in Live(cursor) \ C}
  <2>1. X \subseteq Nat
    BY <1>6
  <2>2. Y \subseteq Nat
    BY <1>4 DEF Live
  <2>3. /\ \A t \in C : Max(index[t][c[t].block]) + 1 \in X
        /\ \A t \in Live(cursor) \ C : cursor[t].docid \in Y
    OBVIOUS
  <2>4. target = Min(X \cup Y)
    BY <1>t
  <2> HIDE DEF X, Y
  <2>5. X \cup Y \subseteq Nat /\ X \cup Y # {}
    BY <1>1, <2>1, <2>2, <2>3
  <2>6. target \in X \cup Y /\ \A y \in X \cup Y : target <= y
    BY <2>4, <2>5, MinIs
  <2>7. target <= NoDocid
    <3>1. PICK t \in C : TRUE
      BY <1>1
    <3>2. Max(index[t][c[t].block]) \in Docs /\ Max(index[t][c[t].block]) + 1 \in X \cup Y
      BY <1>1, <1>6, <2>3, Block
    <3>3. Max(index[t][c[t].block]) \in Nat /\ Max(index[t][c[t].block]) < NoDocid /\ NoDocid \in Nat
      BY <3>2, InputsFinite
    <3>4. target <= Max(index[t][c[t].block]) + 1 /\ target \in Nat
      BY <2>5, <2>6, <3>2
    <3> QED BY <3>3, <3>4
  <2> QED BY <2>3, <2>5, <2>6, <2>7
<1>8. \A t \in Terms : /\ CursorOK(t, n[t]) /\ c[t].docid <= n[t].docid
                       /\ \A e \in Postings(t) :
                             e >= c[t].docid /\ e >= target => n[t].docid <= e
                       /\ t \in C => target <= n[t].docid
  <2> SUFFICES ASSUME NEW t \in Terms
               PROVE  /\ CursorOK(t, n[t]) /\ c[t].docid <= n[t].docid
                      /\ \A e \in Postings(t) :
                            e >= c[t].docid /\ e >= target => n[t].docid <= e
                      /\ t \in C => target <= n[t].docid
    OBVIOUS
  <2>1. CASE t \notin C
    <3>1. n[t] = c[t]
      BY <2>1
    <3>2. \A e \in Postings(t) : e \in Nat
      BY Placed
    <3> HIDE DEF n
    <3> QED BY <1>4, <2>1, <3>1, <3>2
  <2>2. CASE t \in C
    <3>1. n[t] = NextGeq(t, c[t], target)
      BY <2>2
    <3>2. ~Exhausted(t, c[t]) /\ CursorOK(t, c[t])
      BY <1>2, <1>4, <2>2
    <3> HIDE DEF n
    <3> QED BY <1>7, <2>2, <3>1, <3>2, NextGeqIs
  <2> QED BY <2>1, <2>2
<1>f. n = [t \in Terms |-> n[t]]
  OBVIOUS
<1> HIDE DEF n
<1>9. CursorsOK(n)
  <2>1. \A t \in Terms : n[t] \in [block : Nat, docid : Nat]
    BY <1>8 DEF CursorOK
  <2>2. n \in [Terms -> [block : Nat, docid : Nat]]
    BY <1>f, <2>1
  <2> QED BY <1>8, <2>2 DEF CursorsOK
<1> QED BY <1>2, <1>6, <1>7, <1>8, <1>9 DEF C, target

-----------------------------------------------------------------------------
(* What moving cursors and full heaps keep *)

\* Cursors may move on as long as they pass nothing but hopeless documents.
LEMMA CursorsMove ==
    ASSUME IndexOK, NEW c, CursorsOK(c), NEW n, CursorsOK(n), Kept(heap, c),
           \A t \in Terms : c[t].docid <= n[t].docid,
           \A d \in Matches : \A t \in Of(d) :
               (\A u \in Of(d) : c[u].docid <= d) /\ d < n[t].docid => Hopeless(heap, d)
    PROVE  Kept(heap, n)
<1> SUFFICES ASSUME NEW d \in Matches
             PROVE  \/ Scored(d) \in heap /\ \A t \in Of(d) : n[t].docid > d
                    \/ (\A r \in heap : r.docid # d) /\ \A t \in Of(d) : n[t].docid <= d
                    \/ Hopeless(heap, d)
  BY DEF Kept
<1>1. d \in Nat /\ Of(d) \subseteq Terms
  BY Matching
<1>2. \A t \in Of(d) : c[t].docid \in Nat /\ n[t].docid \in Nat /\ c[t].docid <= n[t].docid
  BY <1>1 DEF CursorsOK
<1>3. CASE Scored(d) \in heap /\ \A t \in Of(d) : c[t].docid > d
  BY <1>1, <1>2, <1>3
<1>4. CASE (\A r \in heap : r.docid # d) /\ \A t \in Of(d) : c[t].docid <= d
  BY <1>1, <1>2, <1>4
<1>5. CASE Hopeless(heap, d)
  BY <1>5
<1> QED BY <1>3, <1>4, <1>5 DEF Kept
-----------------------------------------------------------------------------
(* Bounds that do not reach the threshold *)

\* A sum of bounds that does not reach the threshold: the heap is full of better
\* results than any document the bounds are for.
LEMMA NotReached ==
    ASSUME Exact, InputOK, HeapOK(heap), NEW d \in Matches,
           NEW bound \in Nat, Score(d) <= bound, ~Reaches(bound)
    PROVE  Hopeless(heap, d)
<1>1. Cardinality(heap) \in Nat /\ Cardinality(heap) <= k /\ k \in Nat
  BY FS_CardinalityType DEF HeapOK, IsResults, InputOK
<1>2. Cardinality(heap) = k /\ \A r \in heap : ~(bound >= r.score)
  BY <1>1 DEF Reaches
<1>3. Score(d) \in Nat /\ Scored(d).score = Score(d)
  BY ScoreIs DEF InputOK
<1>4. \A r \in heap : r.score \in Nat
  BY DEF HeapOK, IsResults
<1>5. \A r \in heap : r.score > Scored(d).score
  BY <1>2, <1>3, <1>4
<1> QED BY <1>2, <1>5 DEF Hopeless, Better

\* Of the documents no cursor has passed, those before the first cursor that
\* reaches the threshold are hopeless (searcher.cc:350-353, 381-382).
LEMMA BeforePivot ==
    ASSUME Exact, InputOK, SearchInv, NEW d \in Matches,
           \A t \in Of(d) : cursor[t].docid <= d,
           \A t \in Reaching : cursor[t].docid > d
    PROVE  Hopeless(heap, d)
<1> DEFINE U == {u \in Live(cursor) : cursor[u].docid <= d}
<1>i. IndexOK /\ CursorsOK(cursor) /\ HeapOK(heap)
  BY DEF InputOK, SearchInv
<1>1. /\ Of(d) \subseteq Terms /\ Of(d) # {} /\ d \in Nat /\ d < NoDocid /\ NoDocid \in Nat
  BY <1>i, Matching, InputsFinite
<1>2. \A t \in Terms : /\ CursorOK(t, cursor[t]) /\ cursor[t].docid \in Nat
                       /\ t \in Live(cursor) => Postings(t) # {}
                       /\ t \notin Live(cursor) => cursor[t].docid = NoDocid
  BY <1>i, OnPosting DEF CursorsOK, Live
<1>3. Of(d) \subseteq U
  <2> SUFFICES ASSUME NEW t \in Of(d) PROVE t \in Live(cursor) /\ cursor[t].docid <= d
    OBVIOUS
  <2>1. cursor[t].docid <= d /\ cursor[t].docid # NoDocid
    BY <1>1, <1>2
  <2> QED BY <1>1, <1>2, <2>1
<1>4. U \in SUBSET Terms /\ U # {}
  BY <1>1, <1>3 DEF Live
<1>5. PICK l \in U : \A u \in U \ {l} : Before(cursor, u, l)
  <2> HIDE DEF U
  <2> QED BY <1>i, <1>4, FirstAndLast
<1>6. l \in Live(cursor) /\ ~Reaches(Bound(l))
  <2>1. l \in Live(cursor) /\ cursor[l].docid <= d /\ l \in Terms
    BY <1>5 DEF Live
  <2>2. ~(cursor[l].docid > d)
    BY <1>1, <1>2, <2>1
  <2> QED BY <2>1, <2>2 DEF Reaching
<1> DEFINE P == {u \in Live(cursor) : u = l \/ Before(cursor, u, l)}
           bound == [u \in P |-> MaxImpact(u)]
<1>7. Bound(l) = Sum(Docids(cursor), bound)
  BY DEF Bound
<1>8. P \in SUBSET Terms /\ Of(d) \subseteq P
  BY <1>3, <1>5 DEF Live
<1>9. \A u \in P : MaxImpact(u) \in Impacts /\ \A e \in Postings(u) : Impact[u][e] <= MaxImpact(u)
  <2> SUFFICES ASSUME NEW u \in P
               PROVE  MaxImpact(u) \in Impacts /\ \A e \in Postings(u) : Impact[u][e] <= MaxImpact(u)
    OBVIOUS
  <2>1. u \in Terms /\ Postings(u) # {}
    BY <1>2 DEF Live
  <2> QED BY <1>i, <2>1, TermBound
<1>10. bound \in [P -> Impacts] /\ \A t \in Of(d) : Impact[t][d] <= bound[t]
  <2>1. \A t \in Of(d) : d \in Postings(t) /\ t \in P
    BY <1>8 DEF Of
  <2> HIDE DEF P
  <2> QED BY <1>9, <2>1
<1>11. Docids(cursor) \in [Terms -> Docs \cup {NoDocid}]
  BY <1>i, DocidsOf
<1> HIDE DEF bound, P, U
<1>12. Sum(Docids(cursor), bound) \in Nat /\ Score(d) <= Sum(Docids(cursor), bound)
  BY <1>i, <1>8, <1>10, <1>11, ScoreAtMost
<1> QED BY <1>i, <1>6, <1>7, <1>12, NotReached
-----------------------------------------------------------------------------
(* Scoring a document *)

\* What scoring does: a document none of whose cursors is behind gets its whole
\* score, or is hopeless (searcher.cc:350-353, 387-400, 494-507).
LEMMA EvaluateKeeps ==
    ASSUME Exact, InputOK, HeapOK(heap), NEW c, CursorsOK(c), Kept(heap, c),
           NEW d \in Nat, NEW p \in Terms, ~Exhausted(p, c[p]), c[p].docid = d,
           Behind(c, d) = {}, Evaluate(c, d)
    PROVE  CursorsOK(cursor') /\ HeapOK(heap') /\ Kept(heap', cursor')
<1>i. IndexOK /\ k \in Nat \ {0} /\ IsResults(heap) /\ Cardinality(heap) <= k
  BY DEF InputOK, HeapOK
<1> DEFINE x == [docid |-> d, score |-> Sum(Docids(c), [t \in On(c, d) |-> Impact[t][d]])]
           n == MoveOn(c, d)
<1>1. heap' = Best(heap \cup {x}) /\ cursor' = n
  BY DEF Evaluate, Push
<1>2. \A t \in Terms : /\ CursorOK(t, c[t]) /\ c[t].docid \in Nat
                       /\ Exhausted(t, c[t]) => c[t].docid = NoDocid
                       /\ ~Exhausted(t, c[t]) => c[t].docid \in Postings(t)
  BY <1>i, OnPosting DEF CursorsOK
<1>3. d \in Matches /\ p \in Of(d)
  BY <1>2 DEF Matches, Of
<1>4. On(c, d) \subseteq Of(d)
  BY <1>2 DEF On, Live, Of
<1>5. ASSUME \A t \in Of(d) : c[t].docid <= d PROVE On(c, d) = Of(d)
  <2> SUFFICES ASSUME NEW t \in Of(d) PROVE t \in On(c, d)
    BY <1>4
  <2>1. t \in Terms /\ c[t].docid <= d /\ c[t].docid \in Nat
    BY <1>2, <1>5 DEF Of
  <2>2. ~Exhausted(t, c[t])
    <3>1. d < NoDocid /\ NoDocid \in Nat
      BY <1>i, <1>3, Matching, InputsFinite
    <3>2. c[t].docid # NoDocid
      BY <2>1, <3>1
    <3> QED BY <1>2, <2>1, <3>2
  <2>3. ~(c[t].docid < d)
    BY <2>1, <2>2 DEF Behind, Live
  <2>4. c[t].docid = d
    BY <2>1, <2>3
  <2> QED BY <2>1, <2>2, <2>4 DEF On, Live
<1>6. /\ x.score \in Nat /\ x.score <= Score(d) /\ (On(c, d) = Of(d) => x.score = Score(d))
      /\ x.docid = d /\ x \in [docid : Nat, score : Nat]
  <2>1. Docids(c) \in [Terms -> Docs \cup {NoDocid}]
    BY <1>i, DocidsOf
  <2> DEFINE sum == Sum(Docids(c), [t \in On(c, d) |-> Impact[t][d]])
  <2>2. sum \in Nat /\ sum <= Score(d) /\ (On(c, d) = Of(d) => sum = Score(d))
    BY <1>i, <1>3, <1>4, <2>1, PartOfScore
  <2>3. x.score = sum /\ x.docid = d
    OBVIOUS
  <2>4. x = [docid |-> d, score |-> sum]
    OBVIOUS
  <2> HIDE DEF sum, x
  <2> QED BY <2>2, <2>3, <2>4
<1>7. Scored(d) \in [docid : Nat, score : Nat] /\ Scored(d).docid = d /\ Scored(d).score = Score(d)
      /\ Score(d) \in Nat
  BY <1>i, <1>3, ScoreIs
<1>8. On(c, d) = Of(d) => x = Scored(d)
  BY <1>6, <1>7 DEF Scored
<1>9. \A t \in Terms : /\ CursorOK(t, n[t]) /\ c[t].docid <= n[t].docid
                       /\ t \in On(c, d) => d < n[t].docid
                       /\ \A e \in Postings(t) : e # d /\ c[t].docid <= e => n[t].docid <= e
  BY <1>i, EvaluateMoves DEF CursorsOK
<1>10. CursorsOK(n)
  BY <1>i, EvaluateMoves
<1> HIDE DEF n, x
<1>11. \/ x = Scored(d) /\ \A t \in Of(d) : t \in On(c, d)
       \/ Hopeless(heap, d)
  <2>1. ~(\A t \in Of(d) : c[t].docid > d)
    BY <1>3
  <2> QED BY <1>3, <1>5, <1>8, <2>1 DEF Kept
<1>12. \A r \in heap : r.docid # x.docid
  <2> SUFFICES ASSUME NEW r \in heap, r.docid = d PROVE FALSE
    BY <1>6
  <2>1. r = Scored(d)
    BY DEF HeapOK
  <2>2. ~Hopeless(heap, d)
    BY <1>7, <2>1, BetterOrder DEF Hopeless
  <2>3. ~(\A t \in Of(d) : c[t].docid > d)
    BY <1>3
  <2> QED BY <1>3, <2>1, <2>2, <2>3 DEF Kept
<1> DEFINE G == Best(heap \cup {x})
<1>13. /\ G \subseteq heap \cup {x} /\ IsResults(G) /\ Cardinality(G) <= k
       /\ \A r \in (heap \cup {x}) \ G : Cardinality(G) = k /\ \A s \in G : Better(s, r)
       /\ \A y \in [docid : Nat, score : Nat] :
             Cardinality(heap) = k /\ (\A r \in heap : Better(r, y)) =>
                 Cardinality(G) = k /\ \A r \in G : Better(r, y)
       /\ Cardinality(heap) = k /\ (\A r \in heap : Better(r, x)) => G = heap
  BY <1>i, <1>6, <1>12, PushKeeps
<1> HIDE DEF G
<1>14. Hopeless(heap, d) => G = heap
  <2> SUFFICES ASSUME Hopeless(heap, d) PROVE \A r \in heap : Better(r, x)
    BY <1>13 DEF Hopeless
  <2>1. \A r \in heap : /\ Better(r, Scored(d)) /\ r.score \in Nat /\ r.docid \in Nat
    BY <1>i DEF Hopeless, IsResults
  <2>2. x.score \in Nat /\ Score(d) \in Nat /\ x.score <= Score(d)
    BY <1>6, <1>7
  <2> QED BY <1>6, <1>7, <2>1, <2>2 DEF Better
<1>15. HeapOK(G)
  <2>1. ASSUME NEW r \in G PROVE r.docid \in Matches /\ r = Scored(r.docid)
    <3>1. CASE r \in heap
      BY <3>1 DEF HeapOK
    <3>2. CASE r \notin heap
      <4>1. r = x /\ x = Scored(d)
        BY <1>11, <1>13, <1>14, <3>2
      <4> QED BY <1>3, <1>6, <4>1
    <3> QED BY <3>1, <3>2
  <2> QED BY <1>13, <2>1 DEF HeapOK
<1>16. \A e \in Matches : Hopeless(heap, e) => Hopeless(G, e)
  <2> SUFFICES ASSUME NEW e \in Matches, Hopeless(heap, e) PROVE Hopeless(G, e)
    OBVIOUS
  <2>1. Scored(e) \in [docid : Nat, score : Nat]
    BY <1>i, ScoreIs
  <2> QED BY <1>13, <2>1 DEF Hopeless
<1>17. \A e \in Matches : Scored(e) \in heap \cup {x} => Scored(e) \in G \/ Hopeless(G, e)
  BY <1>13 DEF Hopeless
<1>18. Kept(G, n)
  <2> SUFFICES ASSUME NEW e \in Matches
               PROVE  \/ Scored(e) \in G /\ \A t \in Of(e) : n[t].docid > e
                      \/ (\A r \in G : r.docid # e) /\ \A t \in Of(e) : n[t].docid <= e
                      \/ Hopeless(G, e)
    BY DEF Kept
  <2>1. e \in Nat /\ Of(e) \subseteq Terms /\ \A t \in Of(e) : e \in Postings(t)
    BY <1>i, Matching DEF Of
  <2>2. \A t \in Terms : n[t].docid \in Nat /\ c[t].docid \in Nat
    BY <1>2, <1>10 DEF CursorsOK
  <2>3. CASE Hopeless(heap, e)
    BY <1>16, <2>3
  <2>4. CASE e = d /\ ~Hopeless(heap, e)
    <3>1. x = Scored(d) /\ \A t \in Of(d) : d < n[t].docid
      BY <1>9, <1>11, <2>1, <2>4
    <3>2. \A t \in Of(d) : n[t].docid > d
      BY <2>1, <2>2, <2>4, <3>1
    <3> QED BY <1>17, <2>4, <3>1, <3>2
  <2>5. CASE e # d /\ Scored(e) \in heap /\ \A t \in Of(e) : c[t].docid > e
    <3>1. \A t \in Of(e) : n[t].docid > e
      BY <1>9, <2>1, <2>2, <2>5
    <3> QED BY <1>17, <2>5, <3>1
  <2>6. CASE e # d /\ (\A r \in heap : r.docid # e) /\ \A t \in Of(e) : c[t].docid <= e
    <3>1. \A r \in G : r.docid # e
      BY <1>6, <1>13, <2>6
    <3>2. \A t \in Of(e) : n[t].docid <= e
      BY <1>9, <2>1, <2>6
    <3> QED BY <3>1, <3>2
  <2> QED BY <2>3, <2>4, <2>5, <2>6 DEF Kept
<1> QED BY <1>1, <1>10, <1>15, <1>18 DEF G
-----------------------------------------------------------------------------
(* Dragging a cursor *)

\* What dragging a cursor behind d to d does, if the documents before d that no
\* cursor has passed are hopeless.
LEMMA DragKeeps ==
    ASSUME InputOK, HeapOK(heap), NEW c, CursorsOK(c), Kept(heap, c), NEW d \in Nat,
           \A e \in Matches : e < d /\ (\A t \in Of(e) : c[t].docid <= e) => Hopeless(heap, e),
           Drag(c, d)
    PROVE  CursorsOK(cursor') /\ heap' = heap /\ Kept(heap, cursor')
<1> DEFINE n == cursor'
<1>i. IndexOK
  BY DEF InputOK
<1>1. /\ CursorsOK(n) /\ heap' = heap
      /\ \A t \in Terms : /\ c[t].docid <= n[t].docid
                          /\ \A e \in Postings(t) : e >= c[t].docid /\ e >= d => n[t].docid <= e
  BY <1>i, DragMoves
<1> HIDE DEF n
<1>2. ASSUME NEW e \in Matches, NEW u \in Of(e), \A v \in Of(e) : c[v].docid <= e, e < n[u].docid
      PROVE  Hopeless(heap, e)
  <2>1. e \in Nat /\ u \in Terms /\ e \in Postings(u) /\ c[u].docid <= e /\ c[u].docid \in Nat
    BY <1>i, <1>2, Matching DEF Of, CursorsOK
  <2>2. n[u].docid \in Nat
    BY <1>1, <2>1 DEF CursorsOK
  <2>3. ~(e >= d)
    BY <1>1, <1>2, <2>1, <2>2
  <2>4. e < d
    BY <2>1, <2>3
  <2> QED BY <1>2, <2>4
<1>3. Kept(heap, n)
  BY <1>i, <1>1, <1>2, CursorsMove
<1> QED BY <1>1, <1>3 DEF n
-----------------------------------------------------------------------------
(* The steps *)

LEMMA InvInit == Init => IInv
<1> SUFFICES ASSUME Init PROVE IInv
  OBVIOUS
<1>1. PICK docs \in [Terms -> Lists] : index = [t \in Terms |-> Blocks(docs[t])]
  BY DEF Init
<1>2. IndexOK
  <2> SUFFICES ASSUME NEW t \in Terms PROVE BlocksOK(index[t])
    BY DEF IndexOK
  <2>1. docs[t] \in SUBSET Docs
    BY Parameters
  <2> QED BY <1>1, <2>1, BlocksFormed
<1>3. k \in Nat \ {0} /\ heap = {} /\ state = "searching" /\ cursor = [t \in Terms |-> At(t, 1)]
  BY Parameters DEF Init
<1>4. \A t \in Terms : /\ CursorOK(t, At(t, 1))
                       /\ \A d \in Postings(t) : At(t, 1).docid <= d
  <2> SUFFICES ASSUME NEW t \in Terms
               PROVE  CursorOK(t, At(t, 1)) /\ \A d \in Postings(t) : At(t, 1).docid <= d
    OBVIOUS
  <2>1. /\ Len(index[t]) \in Nat /\ DOMAIN index[t] = 1..Len(index[t])
        /\ 1 \in 1..(Len(index[t]) + 1)
    BY <1>2, Block
  <2>2. /\ CursorOK(t, At(t, 1))
        /\ \A a \in DOMAIN index[t] : \A d \in index[t][a] : a >= 1 => At(t, 1).docid <= d
    BY <1>2, <2>1, AtIs
  <2>3. \A a \in DOMAIN index[t] : a >= 1
    BY <2>1
  <2> QED BY <1>2, <2>2, <2>3, Placed
<1>5. CursorsOK(cursor)
  BY <1>3, <1>4 DEF CursorsOK, CursorOK
<1>6. HeapOK(heap)
  BY <1>3, FS_EmptySet DEF HeapOK, IsResults
<1>7. Kept(heap, cursor)
  BY <1>3, <1>4 DEF Kept, Of
<1> QED BY <1>2, <1>3, <1>5, <1>6, <1>7 DEF IInv, InputOK, SearchInv, DoneInv

\* The cursors before the first that reaches the threshold do not reach it.
LEMMA PivotIsFirst ==
    ASSUME InputOK, SearchInv, NEW p \in FirstOf(Reaching), NEW e \in Nat, e < cursor[p].docid
    PROVE  \A t \in Reaching : cursor[t].docid > e
<1> SUFFICES ASSUME NEW t \in Reaching PROVE cursor[t].docid > e
  OBVIOUS
<1>1. p \in Terms /\ t \in Terms /\ (t = p \/ Before(cursor, p, t))
  BY DEF FirstOf, Reaching, Live
<1>2. cursor[p].docid \in Nat /\ cursor[t].docid \in Nat
  BY <1>1 DEF SearchInv, CursorsOK
<1> QED BY <1>1, <1>2 DEF Before

LEMMA DaatOrStep ==
    ASSUME Exact, InputOK, SearchInv, DaatOr
    PROVE  CursorsOK(cursor') /\ HeapOK(heap') /\ Kept(heap', cursor')
<1>1. PICK p \in FirstOf(Live(cursor)) : Evaluate(cursor, cursor[p].docid)
  BY DEF DaatOr
<1>2. p \in Terms /\ ~Exhausted(p, cursor[p]) /\ cursor[p].docid \in Nat
  BY DEF FirstOf, Live, SearchInv, CursorsOK
<1>3. Behind(cursor, cursor[p].docid) = {}
  <2> SUFFICES ASSUME NEW t \in Live(cursor), cursor[t].docid < cursor[p].docid PROVE FALSE
    BY DEF Behind
  <2>1. t = p \/ Before(cursor, p, t)
    BY DEF FirstOf
  <2>2. cursor[t].docid \in Nat
    BY DEF Live, SearchInv, CursorsOK
  <2> QED BY <1>2, <2>1, <2>2 DEF Before
<1> QED BY <1>1, <1>2, <1>3, EvaluateKeeps DEF SearchInv

LEMMA WandStep ==
    ASSUME Exact, InputOK, SearchInv, Wand
    PROVE  CursorsOK(cursor') /\ HeapOK(heap') /\ Kept(heap', cursor')
<1>1. PICK p \in FirstOf(Reaching) :
          IF Behind(cursor, cursor[p].docid) = {} THEN Evaluate(cursor, cursor[p].docid)
          ELSE Drag(cursor, cursor[p].docid)
  BY DEF Wand
<1>2. p \in Terms /\ ~Exhausted(p, cursor[p]) /\ cursor[p].docid \in Nat
  BY DEF FirstOf, Reaching, Live, SearchInv, CursorsOK
<1>3. CASE Behind(cursor, cursor[p].docid) = {}
  BY <1>1, <1>2, <1>3, EvaluateKeeps DEF SearchInv
<1>4. CASE Behind(cursor, cursor[p].docid) # {}
  <2>1. ASSUME NEW e \in Matches, e < cursor[p].docid, \A t \in Of(e) : cursor[t].docid <= e
        PROVE  Hopeless(heap, e)
    <3>1. e \in Nat
      BY Matching DEF InputOK
    <3>2. \A t \in Reaching : cursor[t].docid > e
      BY <2>1, <3>1, PivotIsFirst
    <3> QED BY <2>1, <3>2, BeforePivot
  <2>2. CursorsOK(cursor') /\ heap' = heap /\ Kept(heap, cursor')
    BY <1>1, <1>2, <1>4, <2>1, DragKeeps DEF SearchInv
  <2> QED BY <2>2 DEF SearchInv
<1> QED BY <1>3, <1>4

\* What the skips before the block bounds leave: cursors that have passed only
\* documents before the pivot, and if none ran out, all candidates in the block
\* of the pivot document.
LEMMA SkippedIs ==
    ASSUME Exact, InputOK, SearchInv, NEW p \in FirstOf(Reaching)
    PROVE  LET d == cursor[p].docid
               c == Skipped(d)
           IN  /\ CursorsOK(c) /\ Kept(heap, c) /\ c[p].docid = d
               /\ \A t \in Terms : cursor[t].docid <= c[t].docid
               /\ (\A t \in Candidates(d) : ~Exhausted(t, c[t])) =>
                      \A t \in Candidates(d) : c[t] = Skip(t, cursor[t], d)
<1> DEFINE d == cursor[p].docid
           c == Skipped(d)
<1>i. IndexOK /\ CursorsOK(cursor) /\ Kept(heap, cursor)
  BY DEF InputOK, SearchInv
<1>1. p \in Terms /\ p \in Live(cursor) /\ d \in Nat /\ d \in Postings(p)
  BY <1>i, OnPosting DEF FirstOf, Reaching, Live, CursorsOK
<1>2. \A t \in Terms : cursor[t].docid \in Nat
  BY <1>i DEF CursorsOK
<1>7. /\ CursorsOK(c)
      /\ \A t \in Terms :
            /\ cursor[t].docid <= c[t].docid
            /\ \A e \in Postings(t) : e >= cursor[t].docid /\ e >= d => c[t].docid <= e
      /\ (\A t \in Candidates(d) : ~Exhausted(t, c[t])) =>
             \A t \in Candidates(d) : c[t] = Skip(t, cursor[t], d)
  BY <1>i, <1>1, SkippedMoves
<1> HIDE DEF c, d
<1>9. ASSUME NEW e \in Matches, NEW t \in Of(e), \A u \in Of(e) : cursor[u].docid <= e,
             e < c[t].docid
      PROVE  Hopeless(heap, e)
  <2>1. e \in Nat /\ t \in Terms /\ e \in Postings(t) /\ cursor[t].docid <= e
    BY <1>i, <1>9, Matching DEF Of
  <2>2. c[t].docid \in Nat /\ cursor[t].docid \in Nat
    BY <1>2, <1>7, <2>1 DEF CursorsOK
  <2>3. ~(e >= d)
    BY <1>7, <1>9, <2>1, <2>2
  <2>4. e < cursor[p].docid
    BY <1>1, <2>1, <2>3 DEF d
  <2>5. \A u \in Reaching : cursor[u].docid > e
    BY <2>1, <2>4, PivotIsFirst
  <2> QED BY <1>9, <2>5, BeforePivot
<1>10. Kept(heap, c)
  BY <1>i, <1>7, <1>9, CursorsMove
<1>11. c[p].docid = d
  <2>1. cursor[p].docid = d /\ d <= c[p].docid /\ c[p].docid <= d /\ c[p].docid \in Nat
    <3>1. cursor[p].docid = d
      BY DEF d
    <3>2. d >= cursor[p].docid /\ d >= d
      BY <1>1, <3>1
    <3> QED BY <1>1, <1>7, <3>1, <3>2 DEF CursorsOK
  <2> QED BY <1>1, <2>1
<1> QED BY <1>7, <1>10, <1>11 DEF c, d

\* What Jump passes is hopeless: the block bounds of the candidates hold up to
\* their blocks' ends, and no other cursor is before the target
\* (searcher.cc:521-528).
LEMMA JumpKeeps ==
    ASSUME Exact, InputOK, SearchInv, NEW p \in FirstOf(Reaching),
           Jump(Skipped(cursor[p].docid), cursor[p].docid)
    PROVE  CursorsOK(cursor') /\ heap' = heap /\ Kept(heap, cursor')
<1> DEFINE d == cursor[p].docid
           c == Skipped(d)
           target == Target(c, d)
           C == Candidates(d)
           n == cursor'
<1>i. IndexOK /\ CursorsOK(cursor) /\ HeapOK(heap)
  BY DEF InputOK, SearchInv
<1>1. p \in Terms /\ p \in C /\ d \in Nat /\ C \in SUBSET Terms
      /\ \A t \in C : t \in Live(cursor)
  BY <1>i, OnPosting DEF FirstOf, Reaching, Live, Candidates, CursorsOK
<1>2. /\ \A t \in C : ~Exhausted(t, c[t])
      /\ ~Reaches(BlockBound(c, d)) /\ heap' = heap
  BY DEF Jump
<1>3. /\ CursorsOK(c) /\ Kept(heap, c)
      /\ \A t \in Terms : cursor[t].docid <= c[t].docid
      /\ \A t \in C : c[t] = Skip(t, cursor[t], d)
  BY <1>2, SkippedIs
<1>4. \A t \in Terms : /\ CursorOK(t, cursor[t]) /\ cursor[t].docid \in Nat
                       /\ CursorOK(t, c[t]) /\ c[t].docid \in Nat
  BY <1>i, <1>3 DEF CursorsOK
<1>5. \A t \in C : \A b \in DOMAIN index[t] : \A e \in index[t][b] :
          e >= cursor[t].docid /\ e >= d => c[t].block <= b
  BY <1>i, <1>1, <1>3, <1>4, SkipIs DEF Live
<1>b. BlockBound(c, d) = Sum(Docids(cursor), [t \in C |-> BlockMax(t, c[t].block)])
  BY DEF BlockBound
<1>e. \A t \in Live(cursor) \ C : cursor[t].docid > d
  BY <1>1, <1>4 DEF Candidates, Live
<1>6. /\ \A t \in C : /\ t \in Terms /\ c[t].block \in DOMAIN index[t]
                      /\ Max(index[t][c[t].block]) \in index[t][c[t].block]
                      /\ Max(index[t][c[t].block]) \in Nat
                      /\ \A e \in index[t][c[t].block] : e <= Max(index[t][c[t].block])
      /\ target \in Nat
      /\ \A t \in C : target <= Max(index[t][c[t].block]) + 1
      /\ \A t \in Live(cursor) \ C : target <= cursor[t].docid
      /\ CursorsOK(n)
      /\ \A t \in Terms :
            /\ c[t].docid <= n[t].docid
            /\ \A e \in Postings(t) : e >= c[t].docid /\ e >= target => n[t].docid <= e
            /\ t \in C => target <= n[t].docid
  BY <1>i, <1>1, <1>3, JumpMoves
<1> HIDE DEF c, C, target, d, n
<1>10. ASSUME NEW e \in Matches, NEW t \in Of(e), \A u \in Of(e) : c[u].docid <= e,
              e < n[t].docid
       PROVE  Hopeless(heap, e)
  <2>1. /\ e \in Nat /\ e < NoDocid /\ NoDocid \in Nat
        /\ \A u \in Of(e) : u \in Terms /\ e \in Postings(u)
    BY <1>i, Matching, InputsFinite DEF Of
  <2>2. \A u \in Of(e) : cursor[u].docid <= e
    BY <1>3, <1>4, <1>10, <2>1
  <2>3. CASE e < d
    <3>1. \A u \in Reaching : cursor[u].docid > e
      BY <2>1, <2>3, PivotIsFirst DEF d
    <3> QED BY <2>2, <3>1, BeforePivot
  <2>4. CASE ~(e < d)
    <3>0. e >= d
      BY <1>1, <2>1, <2>4
    <3>1. n[t].docid \in Nat /\ e < target
      <4>1. n[t].docid \in Nat
        BY <1>6, <2>1 DEF CursorsOK
      <4>2. ~(e >= target)
        BY <1>6, <1>10, <2>1, <4>1, <1>4
      <4> QED BY <1>6, <2>1, <4>1, <4>2
    <3>2. \A u \in Of(e) : u \in C
      <4> SUFFICES ASSUME NEW u \in Of(e), u \notin C PROVE FALSE
        OBVIOUS
      <4>1. cursor[u].docid <= e /\ cursor[u].docid \in Nat /\ u \in Terms
        BY <1>4, <2>1, <2>2
      <4>2. cursor[u].docid # NoDocid
        BY <2>1, <4>1
      <4>3. u \in Live(cursor)
        BY <1>i, <1>4, <4>1, <4>2, OnPosting DEF Live
      <4>4. target <= cursor[u].docid
        BY <1>6, <4>3
      <4> QED BY <1>6, <2>1, <3>1, <4>1, <4>4
    <3>3. \A u \in Of(e) : e \in index[u][c[u].block]
      <4> SUFFICES ASSUME NEW u \in Of(e) PROVE e \in index[u][c[u].block]
        OBVIOUS
      <4>1. u \in C /\ u \in Terms /\ e \in Postings(u)
        BY <2>1, <3>2
      <4>2. PICK b \in DOMAIN index[u] : e \in index[u][b]
        BY <1>i, <4>1, Placed
      <4>3. c[u].block <= b
        <5>1. cursor[u].docid <= e /\ cursor[u].docid \in Nat
          BY <1>4, <2>2, <4>1
        <5>2. e >= cursor[u].docid
          BY <2>1, <5>1
        <5> QED BY <1>5, <3>0, <4>1, <4>2, <5>2
      <4> DEFINE m == Max(index[u][c[u].block])
      <4>4. e <= m /\ m \in index[u][c[u].block] /\ m \in Nat
        <5>1. target <= m + 1 /\ m \in Nat /\ m \in index[u][c[u].block]
          BY <1>6, <4>1
        <5> HIDE DEF m
        <5> QED BY <1>6, <2>1, <3>1, <5>1
      <4> HIDE DEF m
      <4>5. c[u].block \in DOMAIN index[u] /\ DOMAIN index[u] \subseteq Nat
        BY <1>i, <1>6, <4>1, Block
      <4>6. ~(c[u].block < b)
        <5>1. c[u].block < b => m < e
          BY <1>i, <4>1, <4>2, <4>4, <4>5, Placed
        <5> QED BY <2>1, <4>4, <5>1
      <4>7. c[u].block = b
        BY <4>2, <4>3, <4>5, <4>6
      <4> QED BY <4>2, <4>7
    <3> DEFINE bound == [u \in C |-> BlockMax(u, c[u].block)]
    <3>4. \A u \in C : /\ BlockMax(u, c[u].block) \in Impacts
                       /\ \A f \in index[u][c[u].block] : Impact[u][f] <= BlockMax(u, c[u].block)
      BY <1>i, <1>6, BlockBoundIs
    <3>5. bound \in [C -> Impacts] /\ \A u \in Of(e) : Impact[u][e] <= bound[u]
      BY <3>2, <3>3, <3>4
    <3>6. Docids(cursor) \in [Terms -> Docs \cup {NoDocid}]
      BY <1>i, DocidsOf
    <3>7. BlockBound(c, d) = Sum(Docids(cursor), bound)
      BY <1>b
    <3>8. C \in SUBSET Terms /\ Of(e) \subseteq C
      BY <1>1, <3>2
    <3> HIDE DEF bound
    <3>9. Sum(Docids(cursor), bound) \in Nat /\ Score(e) <= Sum(Docids(cursor), bound)
      BY <1>i, <3>5, <3>6, <3>8, ScoreAtMost
    <3> QED BY <1>2, <1>i, <3>7, <3>9, NotReached
  <2> QED BY <2>3, <2>4
<1>11. Kept(heap, n)
  BY <1>i, <1>3, <1>6, <1>10, CursorsMove
<1> QED BY <1>2, <1>6, <1>11 DEF n

LEMMA BlockMaxWandStep ==
    ASSUME Exact, InputOK, SearchInv, BlockMaxWand
    PROVE  CursorsOK(cursor') /\ HeapOK(heap') /\ Kept(heap', cursor')
<1>1. PICK p \in FirstOf(Reaching) :
          \/ RunOut(Skipped(cursor[p].docid), cursor[p].docid)
          \/ Probe(Skipped(cursor[p].docid), cursor[p].docid)
          \/ Jump(Skipped(cursor[p].docid), cursor[p].docid)
  BY DEF BlockMaxWand
<1> DEFINE d == cursor[p].docid
           c == Skipped(d)
<1>i. IndexOK /\ HeapOK(heap)
  BY DEF InputOK, SearchInv
<1>2. /\ CursorsOK(c) /\ Kept(heap, c) /\ c[p].docid = d
      /\ \A t \in Terms : cursor[t].docid <= c[t].docid
  BY SkippedIs
<1>3. p \in Terms /\ d \in Nat /\ d < NoDocid /\ NoDocid \in Nat
  BY <1>i, OnPosting, InputsFinite DEF FirstOf, Reaching, Live, SearchInv, CursorsOK
<1>4. CASE RunOut(c, d)
  <2>1. cursor' = c /\ heap' = heap
    BY <1>4 DEF RunOut
  <2> HIDE DEF c
  <2> QED BY <1>2, <1>i, <2>1
<1>5. CASE Probe(c, d)
  <2>1. IF Behind(c, d) = {} THEN Evaluate(c, d) ELSE Drag(c, d)
    BY <1>5 DEF Probe
  <2>2. ~Exhausted(p, c[p])
    <3>1. CursorOK(p, c[p]) /\ c[p].docid # NoDocid
      BY <1>2, <1>3 DEF CursorsOK
    <3> HIDE DEF c
    <3> QED BY <1>3, <1>i, <3>1, OnPosting
  <2>3. ASSUME NEW e \in Matches, e < d, \A t \in Of(e) : c[t].docid <= e
        PROVE  Hopeless(heap, e)
    <3>1. e \in Nat /\ Of(e) \subseteq Terms
      BY <1>i, Matching
    <3>2. \A t \in Terms : cursor[t].docid \in Nat /\ c[t].docid \in Nat
      BY <1>2 DEF SearchInv, CursorsOK
    <3>3. \A t \in Of(e) : cursor[t].docid <= e
      <4> HIDE DEF c
      <4> QED BY <1>2, <2>3, <3>1, <3>2
    <3>4. \A t \in Reaching : cursor[t].docid > e
      BY <2>3, <3>1, PivotIsFirst
    <3> QED BY <3>3, <3>4, BeforePivot
  <2> HIDE DEF c, d
  <2>4. CASE Behind(c, d) = {}
    BY <1>2, <1>3, <1>i, <2>1, <2>2, <2>4, EvaluateKeeps
  <2>5. CASE Behind(c, d) # {}
    <3>1. CursorsOK(cursor') /\ heap' = heap /\ Kept(heap, cursor')
      BY <1>2, <1>3, <1>i, <2>1, <2>3, <2>5, DragKeeps
    <3> QED BY <1>i, <3>1
  <2> QED BY <2>4, <2>5
<1>6. CASE Jump(c, d)
  <2>1. CursorsOK(cursor') /\ heap' = heap /\ Kept(heap, cursor')
    BY <1>6, JumpKeeps
  <2> QED BY <1>i, <2>1
<1> QED BY <1>1, <1>4, <1>5, <1>6

\* When search() returns, whatever is not in the heap is hopeless.
LEMMA ReturnIs ==
    ASSUME Exact, InputOK, SearchInv, Return
    PROVE  \A d \in Matches : Scored(d) \in heap \/ Hopeless(heap, d)
<1> SUFFICES ASSUME NEW d \in Matches, \A t \in Of(d) : cursor[t].docid <= d
             PROVE  Hopeless(heap, d)
  BY DEF SearchInv, Kept
<1>1. Reaching = {}
  <2>1. Live(cursor) = {} => Reaching = {}
    BY DEF Reaching
  <2> QED BY <2>1 DEF Return
<1> QED BY <1>1, BeforePivot

LEMMA InvStep == Exact /\ IInv /\ [Next]_vars => IInv'
<1> SUFFICES ASSUME Exact, IInv, [Next]_vars PROVE IInv'
  OBVIOUS
<1>1. UNCHANGED input
  BY DEF Next, DaatOr, Wand, BlockMaxWand, Return, vars
<1>2. InputOK /\ SearchInv
  BY DEF IInv
<1>3. ASSUME DaatOr \/ Wand \/ BlockMaxWand PROVE IInv'
  <2>1. CursorsOK(cursor') /\ HeapOK(heap') /\ Kept(heap', cursor')
    BY <1>2, <1>3, DaatOrStep, WandStep, BlockMaxWandStep
  <2>2. state' = "searching"
    BY <1>3 DEF DaatOr, Wand, BlockMaxWand
  <2>3. SearchInv'
    BY <1>1, <2>1, Frame DEF SearchInv
  <2>4. InputOK' /\ DoneInv'
    BY <1>1, <1>2, <2>2, Frame
  <2> QED BY <2>3, <2>4 DEF IInv
<1>4. ASSUME UNCHANGED <<cursor, heap>>,
             state' = "done" => \A d \in Matches : Scored(d) \in heap \/ Hopeless(heap, d)
      PROVE  IInv'
  <2>1. CursorsOK(cursor') /\ HeapOK(heap') /\ Kept(heap', cursor')
    BY <1>2, <1>4 DEF SearchInv
  <2>2. SearchInv'
    BY <1>1, <2>1, Frame DEF SearchInv
  <2>3. heap' = heap
    BY <1>4
  <2>4. InputOK' /\ DoneInv'
    BY <1>1, <1>2, <1>4, <2>3, Frame
  <2> QED BY <2>2, <2>4 DEF IInv
<1>5. CASE Return
  BY <1>2, <1>4, <1>5, ReturnIs DEF Return
<1>6. CASE UNCHANGED vars
  BY <1>4, <1>6 DEF vars, IInv, DoneInv
<1> QED BY <1>3, <1>5, <1>6 DEF Next

LEMMA Inductive == ASSUME Exact PROVE Spec => []IInv
<1>1. IInv /\ [Next]_vars => IInv'
  BY InvStep
<1> QED BY <1>1, InvInit, PTL DEF Spec
-----------------------------------------------------------------------------
(* What a search returns *)

\* While a search runs no matching document is lost, whatever the algorithm
\* skips (searcher.cc:350-353, 373-375, 458-464, 521-528).
THEOREM NothingIsLost ==
    ASSUME Exact
    PROVE  Spec => []NothingLost
<1>1. IInv => NothingLost
  BY DEF IInv, SearchInv, Kept, Hopeless, NothingLost, Of
<1> QED BY <1>1, Inductive, PTL

\* A heap outside which every match is hopeless holds the k best of all.
LEMMA HeapIsBest ==
    ASSUME Exact, InputOK, HeapOK(heap),
           \A d \in Matches : Scored(d) \in heap \/ Hopeless(heap, d)
    PROVE  heap = Best({Scored(d) : d \in Matches})
<1> DEFINE M == {Scored(d) : d \in Matches}
<1>i. /\ IndexOK /\ k \in Nat /\ IsResults(heap) /\ IsFiniteSet(heap)
      /\ Cardinality(heap) <= k /\ Cardinality(heap) \in Nat
  BY FS_CardinalityType DEF InputOK, HeapOK, IsResults
<1>1. heap \subseteq M
  BY DEF HeapOK
<1>2. \A r \in M \ heap : Cardinality(heap) = k /\ \A s \in heap : Better(s, r)
  BY DEF Hopeless
<1>3. \A r \in M : r \in [docid : Nat, score : Nat]
  BY <1>i, ScoreIs
<1>4. IsFiniteSet(M)
  <2>1. IsFiniteSet(Matches)
    <3>1. Matches \in SUBSET Docs
      BY <1>i, Matching
    <3> QED BY <3>1, InputsFinite, FS_Subset
  <2> DEFINE f == [d \in Matches |-> Scored(d)]
  <2>2. f \in Surjection(Matches, M)
    BY DEF Surjection
  <2> HIDE DEF f, M
  <2> QED BY <2>1, <2>2, FS_Surjection
<1> HIDE DEF M
<1>5. ASSUME NEW r \in heap PROVE Cardinality({s \in M : Better(s, r)}) < k
  <2> DEFINE B == {s \in M : Better(s, r)}
  <2>1. B \subseteq heap \ {r}
    <3> SUFFICES ASSUME NEW s \in M, Better(s, r) PROVE s \in heap /\ s # r
      OBVIOUS
    <3>1. s \in heap
      BY <1>1, <1>2, <1>3, BetterOrder
    <3> QED BY <1>3, <3>1, BetterOrder
  <2>2. IsFiniteSet(heap \ {r}) /\ Cardinality(heap \ {r}) = Cardinality(heap) - 1
    BY <1>i, FS_RemoveElement
  <2> HIDE DEF B
  <2>3. IsFiniteSet(B) /\ Cardinality(B) <= Cardinality(heap \ {r})
    BY <2>1, <2>2, FS_Subset
  <2>4. Cardinality(B) \in Nat
    BY <2>3, FS_CardinalityType
  <2>5. Cardinality(B) < k
    BY <1>i, <2>2, <2>3, <2>4
  <2> QED BY <2>5 DEF B
<1>6. ASSUME NEW r \in M \ heap PROVE ~(Cardinality({s \in M : Better(s, r)}) < k)
  <2> DEFINE B == {s \in M : Better(s, r)}
  <2>1. heap \subseteq B /\ B \in SUBSET M
    BY <1>1, <1>2
  <2> HIDE DEF B
  <2>2. IsFiniteSet(B) /\ Cardinality(B) \in Nat
    BY <1>4, <2>1, FS_Subset, FS_CardinalityType
  <2>3. Cardinality(heap) <= Cardinality(B) /\ Cardinality(heap) = k
    BY <1>2, <2>1, <2>2, FS_Subset
  <2>4. ~(Cardinality(B) < k)
    BY <1>i, <2>2, <2>3
  <2> QED BY <2>4 DEF B
<1>7. heap = Best(M)
  BY <1>1, <1>5, <1>6 DEF Best
<1> QED BY <1>7 DEF M

\* All three algorithms return the k best documents with their whole scores, for
\* every index and every impacts, if addition is exact (searcher.h:3-7).
THEOREM AllReturnTopK ==
    ASSUME Exact
    PROVE  Spec => []SameTopK
<1>1. IInv => SameTopK
  BY HeapIsBest DEF IInv, SearchInv, DoneInv, SameTopK
<1> QED BY <1>1, Inductive, PTL
-----------------------------------------------------------------------------
(* Every iteration advances, whatever the sums of the bounds are *)

CursorInv == IndexOK /\ CursorsOK(cursor)

\* No cursor of n is behind its place in c, and one is ahead of it.
Ahead(c, n) ==
    /\ \A t \in Terms : n[t].docid >= c[t].docid
    /\ \E t \in Terms : n[t].docid > c[t].docid

\* Scoring or dragging advances, if a cursor is on the document.
LEMMA ScoreOrDragAdvances ==
    ASSUME IndexOK, NEW c, CursorsOK(c), NEW d \in Nat, d <= NoDocid,
           NEW p \in On(c, d), Evaluate(c, d) \/ Drag(c, d)
    PROVE  CursorsOK(cursor') /\ Ahead(c, cursor')
<1> DEFINE n == cursor'
<1>1. p \in Terms /\ c[p].docid = d
  BY DEF On, Live
<1>2. \A t \in Terms : c[t].docid \in Nat
  BY DEF CursorsOK
<1>3. CASE Evaluate(c, d)
  <2>1. n = MoveOn(c, d)
    BY <1>3 DEF Evaluate
  <2>2. /\ CursorsOK(n) /\ d < n[p].docid
        /\ \A t \in Terms : c[t].docid <= n[t].docid
    BY <1>1, <2>1, EvaluateMoves
  <2> HIDE DEF n
  <2>3. \A t \in Terms : n[t].docid \in Nat
    BY <2>2 DEF CursorsOK
  <2>4. Ahead(c, n)
    BY <1>1, <1>2, <2>2, <2>3 DEF Ahead
  <2> QED BY <2>2, <2>4 DEF n
<1>4. CASE Drag(c, d)
  <2>1. /\ CursorsOK(n) /\ \A t \in Terms : c[t].docid <= n[t].docid
        /\ \E t \in Terms : c[t].docid < n[t].docid
    BY <1>4, DragMoves
  <2> HIDE DEF n
  <2>2. \A t \in Terms : n[t].docid \in Nat
    BY <2>1 DEF CursorsOK
  <2>3. Ahead(c, n)
    BY <1>2, <2>1, <2>2 DEF Ahead
  <2> QED BY <2>1, <2>3 DEF n
<1> QED BY <1>3, <1>4

\* In block_max_wand() the skips never move a cursor back, a candidate that ran
\* out is behind the last document, and a jump's target is behind the pivot.
LEMMA BlockMaxWandAdvances ==
    ASSUME CursorInv, NEW p \in FirstOf(Reaching), NEW d, d = cursor[p].docid,
           RunOut(Skipped(d), d) \/ Probe(Skipped(d), d) \/ Jump(Skipped(d), d)
    PROVE  CursorsOK(cursor') /\ Ahead(cursor, cursor')
<1> DEFINE c == Skipped(d)
           n == cursor'
           C == Candidates(d)
<1>i. IndexOK /\ CursorsOK(cursor)
  BY DEF CursorInv
<1>1. p \in Terms /\ p \in Live(cursor) /\ d \in Nat /\ d \in Postings(p) /\ d < NoDocid
      /\ NoDocid \in Nat
  BY <1>i, OnPosting, InputsFinite DEF FirstOf, Reaching, Live, CursorsOK
<1>2. \A t \in Terms : CursorOK(t, cursor[t]) /\ cursor[t].docid \in Nat
  BY <1>i DEF CursorsOK
<1>3. /\ CursorsOK(c)
      /\ \A t \in Terms :
            /\ cursor[t].docid <= c[t].docid
            /\ \A e \in Postings(t) : e >= cursor[t].docid /\ e >= d => c[t].docid <= e
      /\ (\A t \in C : ~Exhausted(t, c[t])) => \A t \in C : c[t] = Skip(t, cursor[t], d)
  BY <1>i, <1>1, SkippedMoves
<1>4. /\ C \in SUBSET Terms /\ p \in C
      /\ \A t \in C : ~Exhausted(t, cursor[t]) /\ cursor[t].docid <= d
      /\ \A t \in Live(cursor) \ C : t \in Terms /\ cursor[t].docid > d
  BY <1>1, <1>2 DEF Candidates, Live
<1>r. RunOut(c, d) \/ Probe(c, d) \/ Jump(c, d)
  OBVIOUS
<1> HIDE DEF c, C
<1>5. \A t \in Terms : CursorOK(t, c[t]) /\ c[t].docid \in Nat
  BY <1>3 DEF CursorsOK
<1>6. c[p].docid = d
  <2>1. cursor[p].docid <= c[p].docid /\ (d >= cursor[p].docid /\ d >= d => c[p].docid <= d)
    BY <1>1, <1>3
  <2> QED BY <1>1, <1>5, <2>1
<1>7. ASSUME CursorsOK(n), Ahead(c, n) PROVE Ahead(cursor, n)
  <2> HIDE DEF n
  <2>1. \A t \in Terms : n[t].docid \in Nat
    BY <1>7 DEF CursorsOK
  <2>2. \A t \in Terms : cursor[t].docid <= c[t].docid /\ n[t].docid >= c[t].docid
    BY <1>3, <1>7 DEF Ahead
  <2>3. PICK t \in Terms : n[t].docid > c[t].docid
    BY <1>7 DEF Ahead
  <2>4. \A u \in Terms : n[u].docid >= cursor[u].docid
    BY <1>2, <1>5, <2>1, <2>2
  <2>5. n[t].docid > cursor[t].docid
    BY <1>2, <1>5, <2>1, <2>2, <2>3
  <2> QED BY <2>4, <2>5 DEF Ahead
<1>8. CASE RunOut(c, d)
  <2>1. PICK t \in C : Exhausted(t, c[t]) /\ n = c
    BY <1>8 DEF RunOut, C
  <2>2. t \in Terms /\ c[t].docid = NoDocid
    BY <1>i, <1>4, <1>5, <2>1, OnPosting
  <2>3. c[t].docid > cursor[t].docid
    BY <1>1, <1>2, <1>4, <2>1, <2>2
  <2>4. \A u \in Terms : c[u].docid >= cursor[u].docid
    BY <1>2, <1>3, <1>5
  <2>5. Ahead(cursor, c)
    BY <2>2, <2>3, <2>4 DEF Ahead
  <2> QED BY <1>3, <2>1, <2>5 DEF n
<1>9. CASE Probe(c, d)
  <2>1. Evaluate(c, d) \/ Drag(c, d)
    BY <1>9 DEF Probe
  <2>2. ~Exhausted(p, c[p])
    BY <1>i, <1>1, <1>5, <1>6, OnPosting
  <2>3. p \in On(c, d)
    BY <1>1, <1>6, <2>2 DEF On, Live
  <2>4. CursorsOK(n) /\ Ahead(c, n)
    BY <1>i, <1>1, <1>3, <2>1, <2>3, ScoreOrDragAdvances
  <2> QED BY <1>7, <2>4 DEF n
<1>10. CASE Jump(c, d)
  <2> DEFINE target == Target(c, d)
  <2>1. /\ CursorsOK(n) /\ target \in Nat
        /\ \A t \in Terms : c[t].docid <= n[t].docid /\ (t \in C => target <= n[t].docid)
    BY <1>i, <1>1, <1>3, <1>4, <1>10, JumpMoves DEF C
  <2>2. target > d
    <3> DEFINE X == {Max(index[t][c[t].block]) + 1 : t \in C}
               Y == {cursor[t].docid : t \in Live(cursor) \ C}
    <3>1. \A t \in C : ~Exhausted(t, c[t])
      BY <1>10 DEF Jump, C
    <3>2. \A t \in C : Max(index[t][c[t].block]) \in Nat /\ Max(index[t][c[t].block]) >= d
      <4> SUFFICES ASSUME NEW t \in C
                   PROVE  Max(index[t][c[t].block]) \in Nat /\ Max(index[t][c[t].block]) >= d
        OBVIOUS
      <4>1. t \in Terms /\ c[t] = Skip(t, cursor[t], d) /\ ~Exhausted(t, c[t])
        BY <1>3, <1>4, <3>1
      <4>2. Max(index[t][c[t].block]) >= d
        BY <1>i, <1>1, <1>2, <1>4, <4>1, SkipIs
      <4>3. Max(index[t][c[t].block]) \in Nat
        BY <1>i, <1>1, <1>3, <1>4, <1>10, JumpMoves DEF C
      <4> QED BY <4>2, <4>3
    <3>3. \A x \in X \cup Y : x \in Nat /\ x > d
      BY <1>1, <1>2, <1>4, <3>2
    <3>4. target = Min(X \cup Y)
      BY DEF Target, C
    <3>5. X # {}
      BY <1>4
    <3> HIDE DEF X, Y, target
    <3>6. X \cup Y \subseteq Nat /\ X \cup Y # {}
      BY <3>3, <3>5
    <3>7. target \in X \cup Y
      BY <3>4, <3>6, MinIs
    <3> QED BY <3>3, <3>7
  <2> HIDE DEF target, n
  <2>3. \A t \in Terms : n[t].docid \in Nat
    BY <2>1 DEF CursorsOK
  <2>4. n[p].docid > c[p].docid
    BY <1>1, <1>4, <1>6, <2>1, <2>2, <2>3
  <2>5. Ahead(c, n)
    BY <1>1, <1>5, <2>1, <2>3, <2>4 DEF Ahead
  <2> QED BY <1>7, <2>1, <2>5 DEF n
<1> QED BY <1>r, <1>8, <1>9, <1>10

LEMMA IterationAdvances ==
    ASSUME CursorInv, DaatOr \/ Wand \/ BlockMaxWand
    PROVE  CursorsOK(cursor') /\ Ahead(cursor, cursor')
<1>i. IndexOK /\ CursorsOK(cursor)
  BY DEF CursorInv
<1>1. ASSUME NEW p \in Live(cursor)
      PROVE  /\ p \in On(cursor, cursor[p].docid) /\ cursor[p].docid \in Nat
             /\ cursor[p].docid <= NoDocid
  <2>1. p \in Terms /\ ~Exhausted(p, cursor[p]) /\ CursorOK(p, cursor[p])
    BY <1>i DEF Live, CursorsOK
  <2>2. cursor[p].docid \in Nat /\ cursor[p].docid < NoDocid /\ NoDocid \in Nat
    BY <1>i, <2>1, OnPosting, InputsFinite
  <2> QED BY <2>2 DEF On
<1>2. CASE DaatOr
  <2>1. PICK p \in Live(cursor) : Evaluate(cursor, cursor[p].docid)
    BY <1>2 DEF DaatOr, FirstOf
  <2> QED BY <1>i, <1>1, <2>1, ScoreOrDragAdvances
<1>3. CASE Wand
  <2>1. PICK p \in Live(cursor) : Evaluate(cursor, cursor[p].docid) \/ Drag(cursor, cursor[p].docid)
    BY <1>3 DEF Wand, FirstOf, Reaching
  <2> QED BY <1>i, <1>1, <2>1, ScoreOrDragAdvances
<1>4. CASE BlockMaxWand
  <2>1. PICK p \in FirstOf(Reaching) :
            \/ RunOut(Skipped(cursor[p].docid), cursor[p].docid)
            \/ Probe(Skipped(cursor[p].docid), cursor[p].docid)
            \/ Jump(Skipped(cursor[p].docid), cursor[p].docid)
    BY <1>4 DEF BlockMaxWand
  <2> QED BY <2>1, BlockMaxWandAdvances
<1> QED BY <1>2, <1>3, <1>4

\* Every iteration of every algorithm moves a cursor on and none back, exact
\* addition or not, so that no search visits more candidates than there are
\* postings (searcher.cc:402-409).
THEOREM EveryIterationAdvances == Spec => IterationsAdvance
<1>1. Init => CursorInv
  BY InvInit DEF IInv, InputOK, SearchInv, CursorInv
<1>2. ASSUME CursorInv, [Next]_vars PROVE CursorInv'
  <2>1. UNCHANGED input
    BY <1>2 DEF Next, DaatOr, Wand, BlockMaxWand, Return, vars
  <2>2. CursorsOK(cursor')
    <3>1. CASE DaatOr \/ Wand \/ BlockMaxWand
      BY <1>2, <3>1, IterationAdvances
    <3>2. CASE UNCHANGED cursor
      BY <1>2, <3>2 DEF CursorInv
    <3> QED BY <1>2, <3>1, <3>2 DEF Next, Return, vars
  <2>3. IndexOK'
    BY <1>2, <2>1 DEF CursorInv, IndexOK, BlocksOK, input
  <2> QED BY <2>1, <2>2, <2>3, Frame DEF CursorInv
<1>3. ASSUME CursorInv, [Next]_vars
      PROVE  [candidatesSeen' # candidatesSeen =>
                 /\ \A t \in Terms : cursor'[t].docid >= cursor[t].docid
                 /\ \E t \in Terms : cursor'[t].docid > cursor[t].docid]_vars
  <2>1. CASE DaatOr \/ Wand \/ BlockMaxWand
    BY <1>3, <2>1, IterationAdvances DEF Ahead
  <2>2. CASE candidatesSeen' = candidatesSeen
    BY <2>2
  <2> QED BY <1>3, <2>1, <2>2 DEF Next, Return, vars
<1> QED BY <1>1, <1>2, <1>3, PTL DEF Spec, IterationsAdvance
-----------------------------------------------------------------------------
(* Types *)

\* The part of the type invariant that the search invariant says nothing of.
ControlOK ==
    /\ algorithm \in {"daat_or", "wand", "block_max_wand"} /\ k \in Ks
    /\ index \in [Terms -> Seq(SUBSET Docs)]
    /\ candidatesSeen \in Nat /\ fullEvaluations \in Nat
    /\ state \in {"searching", "done"}

LEMMA ControlStep == ControlOK /\ [Next]_vars => ControlOK'
<1> SUFFICES ASSUME ControlOK, [Next]_vars PROVE ControlOK'
  OBVIOUS
<1>1. UNCHANGED input
  BY DEF Next, DaatOr, Wand, BlockMaxWand, Return, vars
<1>2. candidatesSeen' \in Nat
  BY DEF ControlOK, Next, DaatOr, Wand, BlockMaxWand, Return, vars
<1>3. fullEvaluations' = fullEvaluations \/ fullEvaluations' = fullEvaluations + 1
  <2>1. ASSUME NEW c, NEW d, Evaluate(c, d) \/ Drag(c, d)
        PROVE  fullEvaluations' = fullEvaluations \/ fullEvaluations' = fullEvaluations + 1
    BY <2>1 DEF Evaluate, Drag
  <2>2. CASE DaatOr
    BY <2>1, <2>2 DEF DaatOr
  <2>3. CASE Wand
    BY <2>1, <2>3 DEF Wand
  <2>4. CASE BlockMaxWand
    BY <2>1, <2>4 DEF BlockMaxWand, RunOut, Probe, Jump
  <2>5. CASE Return \/ UNCHANGED vars
    BY <2>5 DEF Return, vars
  <2> QED BY <2>2, <2>3, <2>4, <2>5 DEF Next
<1>4. state' \in {"searching", "done"}
  BY DEF ControlOK, Next, DaatOr, Wand, BlockMaxWand, Return, vars
<1> QED BY <1>1, <1>2, <1>3, <1>4 DEF ControlOK, input

\* The cursors stay on postings of their blocks or behind the last one, the heap
\* never holds more than k results, and their scores are numbers
\* (searcher.cc:34-36, 143-149).
THEOREM TypesHold ==
    ASSUME Exact
    PROVE  Spec => []TypeOK
<1>1. Init => ControlOK
  <2> SUFFICES ASSUME Init PROVE ControlOK
    OBVIOUS
  <2>1. IndexOK
    BY InvInit DEF IInv, InputOK
  <2>2. index = [t \in Terms |-> index[t]]
    BY DEF Init
  <2> QED BY <2>1, <2>2 DEF Init, ControlOK, IndexOK, BlocksOK
<1>2. ControlOK /\ IInv => TypeOK
  <2> SUFFICES ASSUME ControlOK, IInv PROVE TypeOK
    OBVIOUS
  <2>i. IndexOK /\ CursorsOK(cursor) /\ HeapOK(heap)
    BY DEF IInv, InputOK, SearchInv
  <2>1. ASSUME NEW t \in Terms
        PROVE  \/ cursor[t] = [block |-> Len(index[t]) + 1, docid |-> NoDocid]
               \/ cursor[t].block \in DOMAIN index[t] /\ cursor[t].docid \in index[t][cursor[t].block]
    BY <2>i DEF CursorsOK, CursorOK
  <2>2. \A r \in heap : r.docid \in Docs /\ r.score \in Nat
    <3> SUFFICES ASSUME NEW r \in heap PROVE r.docid \in Docs /\ r.score \in Nat
      OBVIOUS
    <3>1. r.docid \in Matches /\ r = Scored(r.docid)
      BY <2>i DEF HeapOK
    <3>2. r.docid \in Docs /\ Score(r.docid) \in Nat /\ Scored(r.docid).score = Score(r.docid)
      BY <2>i, <3>1, Matching, ScoreIs
    <3> QED BY <3>1, <3>2
  <2> QED BY <2>i, <2>1, <2>2 DEF ControlOK, HeapOK, TypeOK
<1> QED BY <1>1, <1>2, ControlStep, Inductive, PTL DEF Spec
=============================================================================
