------------------------- MODULE RankingCascadeProofs -------------------------
(***************************************************************************)
(* Proofs about RankingCascade, for any documents, scores, judgments and   *)
(* depths.                                                                 *)
(***************************************************************************)
EXTENDS RankingCascade, FiniteSetTheorems, SequenceTheorems, WellFoundedInduction, TLAPS

(* Counting *)

\* A set of numbers has a least one.
LEMMA LeastNat ==
    ASSUME NEW T, T \subseteq Nat, T # {}
    PROVE  \E x \in T : \A y \in T : x <= y
<1> DEFINE less == OpToRel(<, Nat)
<1>1. IsWellFoundedOn(less, Nat)
  BY NatLessThanWellFounded
<1>2. \A x, y \in Nat : x < y => <<x, y>> \in less
  BY DEF OpToRel
<1> HIDE DEF less
<1>3. PICK x \in T : \A y \in T : <<y, x>> \notin less
  BY <1>1, WFMin
<1>4. ASSUME NEW y \in T PROVE x <= y
  <2>1. x \in Nat /\ y \in Nat
    OBVIOUS
  <2>2. ~(y < x)
    BY <1>2, <1>3, <2>1
  <2> QED BY <2>1, <2>2
<1> QED BY <1>4

\* As many different members as the set has are all of them.
LEMMA InjectiveIsOnto ==
    ASSUME NEW S, NEW T, IsFiniteSet(S), IsFiniteSet(T), Cardinality(S) = Cardinality(T),
           NEW f \in [S -> T], \A i, j \in S : i # j => f[i] # f[j]
    PROVE  \A t \in T : \E i \in S : f[i] = t
<1>1. f \in Injection(S, T)
  BY DEF Injection, IsInjective
<1>2. f \in Surjection(S, T)
  BY <1>1, FS_Injection
<1> QED BY <1>2 DEF Surjection

StrictTotal(S, R) ==
    /\ \A i \in S : <<i, i>> \notin R
    /\ \A i, j, k \in S : <<i, j>> \in R /\ <<j, k>> \in R => <<i, k>> \in R
    /\ \A i, j \in S : i # j => <<i, j>> \in R \/ <<j, i>> \in R

Before(S, R, i) == {j \in S : <<j, i>> \in R}

\* The number of members before each one numbers the members through.
LEMMA Numbering ==
    ASSUME NEW S, IsFiniteSet(S), NEW R, StrictTotal(S, R)
    PROVE  /\ Cardinality(S) \in Nat
           /\ \A i \in S : /\ Cardinality(Before(S, R, i)) \in Nat
                           /\ Cardinality(Before(S, R, i)) < Cardinality(S)
           /\ \A i, j \in S :
                 <<j, i>> \in R <=> Cardinality(Before(S, R, j)) < Cardinality(Before(S, R, i))
           /\ \A p \in 1 .. Cardinality(S) : \E i \in S : 1 + Cardinality(Before(S, R, i)) = p
<1>1. Cardinality(S) \in Nat
  BY FS_CardinalityType
<1>2. ASSUME NEW i \in S
      PROVE  /\ IsFiniteSet(Before(S, R, i)) /\ Cardinality(Before(S, R, i)) \in Nat
             /\ Cardinality(Before(S, R, i)) < Cardinality(S)
  <2>1. Before(S, R, i) \in SUBSET S /\ i \notin Before(S, R, i)
    BY DEF Before, StrictTotal
  <2>2. IsFiniteSet(Before(S, R, i)) /\ Cardinality(Before(S, R, i)) <= Cardinality(S)
        /\ Cardinality(Before(S, R, i)) # Cardinality(S)
    BY <2>1, FS_Subset
  <2> QED BY <1>1, <2>2, FS_CardinalityType
<1>3. ASSUME NEW i \in S, NEW j \in S, <<j, i>> \in R
      PROVE  Cardinality(Before(S, R, j)) < Cardinality(Before(S, R, i))
  <2>1. Before(S, R, j) \in SUBSET Before(S, R, i)
    BY <1>3 DEF Before, StrictTotal
  <2>2. j \in Before(S, R, i) /\ j \notin Before(S, R, j)
    BY <1>3 DEF Before, StrictTotal
  <2>3. Cardinality(Before(S, R, j)) <= Cardinality(Before(S, R, i))
        /\ Cardinality(Before(S, R, j)) # Cardinality(Before(S, R, i))
    BY <1>2, <2>1, <2>2, FS_Subset
  <2> QED BY <1>2, <2>3
<1>4. ASSUME NEW i \in S, NEW j \in S,
             Cardinality(Before(S, R, j)) < Cardinality(Before(S, R, i))
      PROVE  <<j, i>> \in R
  <2>1. i # j /\ ~(<<i, j>> \in R)
    BY <1>2, <1>3, <1>4
  <2> QED BY <2>1 DEF StrictTotal
<1>5. \A p \in 1 .. Cardinality(S) : \E i \in S : 1 + Cardinality(Before(S, R, i)) = p
  <2> DEFINE T == 1 .. Cardinality(S)
             place == [i \in S |-> 1 + Cardinality(Before(S, R, i))]
  <2>1. place \in [S -> T]
    BY <1>1, <1>2
  <2>2. IsFiniteSet(T) /\ Cardinality(T) = Cardinality(S)
    BY <1>1, FS_Interval
  <2>3. \A i, j \in S : i # j => place[i] # place[j]
    <3> SUFFICES ASSUME NEW i \in S, NEW j \in S, i # j PROVE place[i] # place[j]
      OBVIOUS
    <3>1. \/ Cardinality(Before(S, R, i)) < Cardinality(Before(S, R, j))
          \/ Cardinality(Before(S, R, j)) < Cardinality(Before(S, R, i))
      BY <1>3 DEF StrictTotal
    <3> QED BY <1>2, <3>1
  <2>4. \A p \in T : \E i \in S : place[i] = p
    <3> HIDE DEF place, T
    <3> QED BY <2>1, <2>2, <2>3, InjectiveIsOnto
  <2> QED BY <2>4
<1> QED BY <1>1, <1>2, <1>3, <1>4, <1>5

-------------------------------------------------------------------------------
(* Runs *)

Hit == [doc : Nat, score : Nat]

IsRun(run) ==
    run \in Seq(Hit) /\ \A i, j \in DOMAIN run : i # j => run[i].doc # run[j].doc

LEMMA RunFacts ==
    ASSUME NEW run, IsRun(run)
    PROVE  /\ Len(run) \in Nat /\ DOMAIN run = 1 .. Len(run)
           /\ run \in [1 .. Len(run) -> Hit]
           /\ \A i \in DOMAIN run : run[i] \in Hit /\ run[i].doc \in Nat /\ run[i].score \in Nat
           /\ IsFiniteSet(DOMAIN run) /\ Cardinality(DOMAIN run) = Len(run)
<1>1. /\ Len(run) \in Nat /\ DOMAIN run = 1 .. Len(run) /\ run \in [1 .. Len(run) -> Hit]
  BY LenProperties DEF IsRun
<1>2. \A i \in DOMAIN run : run[i] \in Hit /\ run[i].doc \in Nat /\ run[i].score \in Nat
  BY <1>1 DEF Hit
<1>3. IsFiniteSet(1 .. Len(run)) /\ Cardinality(1 .. Len(run)) = Len(run)
  BY <1>1, FS_Interval
<1> QED BY <1>1, <1>2, <1>3

\* A function on the first numbers is a run if its hits are on different
\* documents.
LEMMA RunOf ==
    ASSUME NEW n \in Nat, NEW f \in [1 .. n -> Hit],
           \A i, j \in 1 .. n : i # j => f[i].doc # f[j].doc
    PROVE  IsRun(f) /\ Len(f) = n /\ DOMAIN f = 1 .. n
<1>1. f \in Seq(Hit)
  BY SeqDef
<1>2. DOMAIN f = 1 .. n
  OBVIOUS
<1>3. Len(f) = n
  BY <1>1, <1>2, LenProperties
<1> QED BY <1>1, <1>2, <1>3 DEF IsRun

\* A run has as many documents as hits.
LEMMA DocidsCounted ==
    ASSUME NEW run, IsRun(run)
    PROVE  IsFiniteSet(Docids(run)) /\ Cardinality(Docids(run)) = Len(run)
           /\ Docids(run) \subseteq Nat
<1> DEFINE f == [i \in DOMAIN run |-> run[i].doc]
<1>1. f \in Bijection(DOMAIN run, Docids(run))
  BY DEF IsRun, Docids, Bijection, Injection, IsInjective, Surjection
<1>2. ExistsBijection(DOMAIN run, Docids(run))
  <2> HIDE DEF f
  <2> QED BY <1>1 DEF ExistsBijection
<1>3. IsFiniteSet(Docids(run)) /\ Cardinality(Docids(run)) = Len(run)
  BY <1>2, RunFacts, FS_Bijection
<1>4. Docids(run) \subseteq Nat
  BY RunFacts DEF Docids
<1> QED BY <1>3, <1>4

LEMMA ScoreIs ==
    ASSUME NEW run, IsRun(run), NEW i \in DOMAIN run
    PROVE  ScoreOf(run, run[i].doc) = run[i].score
<1>1. \E k \in DOMAIN run : run[k].doc = run[i].doc
  OBVIOUS
<1>2. \A k \in DOMAIN run : run[k].doc = run[i].doc => k = i
  BY DEF IsRun
<1>3. (CHOOSE k \in DOMAIN run : run[k].doc = run[i].doc) = i
  BY <1>1, <1>2
<1> QED BY <1>3 DEF ScoreOf

LEMMA ScoreType ==
    ASSUME NEW run, IsRun(run), NEW d \in Docids(run)
    PROVE  \E i \in DOMAIN run : /\ run[i].doc = d /\ ScoreOf(run, d) = run[i].score
                                 /\ ScoreOf(run, d) \in Nat
<1>1. PICK i \in DOMAIN run : run[i].doc = d
  BY DEF Docids
<1>2. ScoreOf(run, d) = run[i].score
  BY <1>1, ScoreIs
<1> QED BY <1>1, <1>2, RunFacts

LEMMA ScoreTotal ==
    ASSUME NEW run, IsRun(run)
    PROVE  StrictTotal(DOMAIN run, ByScore(run))
<1>1. DOMAIN run = 1 .. Len(run) /\ Len(run) \in Nat /\ \A i \in DOMAIN run : run[i].score \in Nat
  BY RunFacts
<1>2. \A i, j \in DOMAIN run :
         <<i, j>> \in ByScore(run) <=>
            run[i].score > run[j].score \/ (run[i].score = run[j].score /\ i < j)
  BY DEF ByScore
<1> QED BY <1>1, <1>2 DEF StrictTotal

LEMMA ScoreAndDocidTotal ==
    ASSUME NEW run, IsRun(run)
    PROVE  StrictTotal(DOMAIN run, ByScoreAndDocid(run))
<1>1. \A i \in DOMAIN run : run[i].score \in Nat /\ run[i].doc \in Nat
  BY RunFacts
<1>2. \A i, j \in DOMAIN run :
         <<i, j>> \in ByScoreAndDocid(run) <=>
            run[i].score > run[j].score \/ (run[i].score = run[j].score /\ run[i].doc > run[j].doc)
  BY DEF ByScoreAndDocid
<1>3. \A i, j \in DOMAIN run : i # j => run[i].doc # run[j].doc
  BY DEF IsRun
<1> QED BY <1>1, <1>2, <1>3 DEF StrictTotal

\* Sorting moves every hit to its place.
LEMMA SortedIs ==
    ASSUME NEW run, IsRun(run), NEW R, StrictTotal(DOMAIN run, R)
    PROVE  /\ IsRun(Sorted(run, R)) /\ Len(Sorted(run, R)) = Len(run)
           /\ DOMAIN Sorted(run, R) = DOMAIN run
           /\ \A i \in DOMAIN run : /\ Place(run, R, i) \in DOMAIN run
                                    /\ Sorted(run, R)[Place(run, R, i)] = run[i]
           /\ \A i, j \in DOMAIN run : <<j, i>> \in R <=> Place(run, R, j) < Place(run, R, i)
           /\ \A p \in DOMAIN run : \E i \in DOMAIN run : Place(run, R, i) = p
<1> DEFINE n == Len(run)
           sorted == Sorted(run, R)
<1>1. n \in Nat /\ DOMAIN run = 1 .. n /\ run \in [1 .. n -> Hit]
      /\ IsFiniteSet(DOMAIN run) /\ Cardinality(DOMAIN run) = n
  BY RunFacts
<1>2. ASSUME NEW i \in DOMAIN run
      PROVE  Place(run, R, i) = 1 + Cardinality(Before(DOMAIN run, R, i))
  BY DEF Place, Before
<1>3. /\ \A i \in DOMAIN run : /\ Cardinality(Before(DOMAIN run, R, i)) \in Nat
                               /\ Cardinality(Before(DOMAIN run, R, i)) < n
      /\ \A i, j \in DOMAIN run :
            <<j, i>> \in R <=> Cardinality(Before(DOMAIN run, R, j))
                                  < Cardinality(Before(DOMAIN run, R, i))
      /\ \A p \in 1 .. n : \E i \in DOMAIN run : 1 + Cardinality(Before(DOMAIN run, R, i)) = p
  <2> DEFINE S == DOMAIN run
  <2>1. IsFiniteSet(S) /\ Cardinality(S) = n /\ StrictTotal(S, R)
    BY <1>1
  <2> HIDE DEF S, n
  <2>2. /\ \A i \in S : /\ Cardinality(Before(S, R, i)) \in Nat
                        /\ Cardinality(Before(S, R, i)) < Cardinality(S)
        /\ \A i, j \in S :
              <<j, i>> \in R <=> Cardinality(Before(S, R, j)) < Cardinality(Before(S, R, i))
        /\ \A p \in 1 .. Cardinality(S) : \E i \in S : 1 + Cardinality(Before(S, R, i)) = p
    BY <2>1, Numbering, Zenon
  <2> QED BY <2>1, <2>2 DEF S, n
<1>4. ASSUME NEW i \in DOMAIN run PROVE Place(run, R, i) \in 1 .. n
  <2>1. Place(run, R, i) = 1 + Cardinality(Before(DOMAIN run, R, i))
    BY <1>2
  <2>2. Cardinality(Before(DOMAIN run, R, i)) \in Nat
        /\ Cardinality(Before(DOMAIN run, R, i)) < n
    BY <1>3
  <2> QED BY <1>1, <2>1, <2>2
<1>5. ASSUME NEW i \in DOMAIN run, NEW j \in DOMAIN run
      PROVE  <<j, i>> \in R <=> Place(run, R, j) < Place(run, R, i)
  <2>1. /\ Place(run, R, i) = 1 + Cardinality(Before(DOMAIN run, R, i))
        /\ Place(run, R, j) = 1 + Cardinality(Before(DOMAIN run, R, j))
    BY <1>2
  <2>2. /\ Cardinality(Before(DOMAIN run, R, i)) \in Nat
        /\ Cardinality(Before(DOMAIN run, R, j)) \in Nat
        /\ <<j, i>> \in R <=> Cardinality(Before(DOMAIN run, R, j))
                                  < Cardinality(Before(DOMAIN run, R, i))
    BY <1>3
  <2> QED BY <2>1, <2>2
<1>6. \A p \in 1 .. n : \E i \in DOMAIN run : Place(run, R, i) = p
  BY <1>2, <1>3
<1>7. \A i, j \in DOMAIN run : i # j => Place(run, R, i) # Place(run, R, j)
  <2> SUFFICES ASSUME NEW i \in DOMAIN run, NEW j \in DOMAIN run, i # j
               PROVE  Place(run, R, i) # Place(run, R, j)
    OBVIOUS
  <2>1. <<i, j>> \in R \/ <<j, i>> \in R
    BY DEF StrictTotal
  <2> QED BY <1>1, <1>4, <1>5, <2>1
<1>8. ASSUME NEW i \in DOMAIN run PROVE sorted[Place(run, R, i)] = run[i]
  <2>1. (CHOOSE k \in DOMAIN run : Place(run, R, k) = Place(run, R, i)) = i
    BY <1>7
  <2>2. sorted[Place(run, R, i)]
           = run[CHOOSE k \in DOMAIN run : Place(run, R, k) = Place(run, R, i)]
    BY <1>1, <1>4 DEF Sorted
  <2> QED BY <2>1, <2>2
<1>9. DOMAIN sorted = 1 .. n /\ sorted = [p \in 1 .. n |-> sorted[p]]
  BY <1>1 DEF Sorted
<1>10. IsRun(sorted) /\ Len(sorted) = n
  <2> HIDE DEF sorted
  <2>1. \A p \in 1 .. n : \E i \in DOMAIN run : p = Place(run, R, i) /\ sorted[p] = run[i]
    BY <1>6, <1>8
  <2>2. \A p \in 1 .. n : sorted[p] \in Hit
    BY <1>1, <2>1
  <2>3. sorted \in [1 .. n -> Hit]
    BY <1>9, <2>2
  <2>4. ASSUME NEW p \in 1 .. n, NEW q \in 1 .. n, p # q PROVE sorted[p].doc # sorted[q].doc
    <3>1. PICK i \in DOMAIN run : p = Place(run, R, i) /\ sorted[p] = run[i]
      BY <2>1
    <3>2. PICK j \in DOMAIN run : q = Place(run, R, j) /\ sorted[q] = run[j]
      BY <2>1
    <3> QED BY <2>4, <3>1, <3>2 DEF IsRun
  <2> QED BY <1>1, <2>3, <2>4, RunOf
<1> QED BY <1>1, <1>4, <1>5, <1>6, <1>8, <1>9, <1>10

\* Sorting leaves what is sorted.
LEMMA SortedAlready ==
    ASSUME NEW run, IsRun(run), NEW R, StrictTotal(DOMAIN run, R),
           \A i, j \in DOMAIN run : i < j => <<i, j>> \in R
    PROVE  Sorted(run, R) = run
<1>1. DOMAIN run = 1 .. Len(run) /\ Len(run) \in Nat
  BY RunFacts
<1>2. ASSUME NEW i \in DOMAIN run PROVE Place(run, R, i) = i
  <2>1. {j \in DOMAIN run : <<j, i>> \in R} = 1 .. (i - 1)
    <3>1. ASSUME NEW j \in DOMAIN run PROVE <<j, i>> \in R <=> j < i
      <4>1. CASE j < i
        BY <4>1
      <4>2. CASE j = i
        BY <1>1, <4>2 DEF StrictTotal
      <4>3. CASE i < j
        <5>1. <<i, j>> \in R /\ <<i, i>> \notin R
          BY <4>3 DEF StrictTotal
        <5>2. <<j, i>> \notin R
          BY <5>1 DEF StrictTotal
        <5> QED BY <1>1, <4>3, <5>2
      <4> QED BY <1>1, <4>1, <4>2, <4>3
    <3> QED BY <1>1, <3>1
  <2>2. i \in Nat /\ i >= 1 /\ i - 1 \in Int
    BY <1>1
  <2>3. Cardinality(1 .. (i - 1)) = i - 1
    BY <2>2, FS_Interval
  <2>4. Place(run, R, i) = 1 + Cardinality(1 .. (i - 1))
    BY <2>1 DEF Place
  <2> QED BY <2>2, <2>3, <2>4
<1>3. /\ IsRun(Sorted(run, R)) /\ Len(Sorted(run, R)) = Len(run)
      /\ \A i \in DOMAIN run : Sorted(run, R)[Place(run, R, i)] = run[i]
  BY SortedIs
<1>4. \A i \in 1 .. Len(run) : Sorted(run, R)[i] = run[i]
  BY <1>1, <1>2, <1>3
<1>5. run \in Seq(Hit) /\ Sorted(run, R) \in Seq(Hit)
  BY <1>3 DEF IsRun
<1> QED BY <1>3, <1>4, <1>5, SeqEqual

LEMMA TakeIs ==
    ASSUME NEW S, NEW s \in Seq(S), NEW k \in Nat
    PROVE  /\ Take(s, k) \in Seq(S)
           /\ Len(Take(s, k)) = IF k < Len(s) THEN k ELSE Len(s)
           /\ DOMAIN Take(s, k) = 1 .. (IF k < Len(s) THEN k ELSE Len(s))
           /\ \A i \in DOMAIN Take(s, k) : i \in DOMAIN s /\ Take(s, k)[i] = s[i]
           /\ Len(s) <= k => Take(s, k) = s
<1> DEFINE n == IF k < Len(s) THEN k ELSE Len(s)
<1>1. Len(s) \in Nat /\ DOMAIN s = 1 .. Len(s) /\ \A i \in 1 .. Len(s) : s[i] \in S
  BY LenProperties, ElementOfSeq
<1>2. n \in Nat /\ n <= Len(s)
  BY <1>1
<1>3. Take(s, k) = SubSeq(s, 1, n)
  BY DEF Take
<1> HIDE DEF n
<1>4. /\ SubSeq(s, 1, n) \in Seq(S) /\ Len(SubSeq(s, 1, n)) = n
      /\ \A i \in 1 .. n : SubSeq(s, 1, n)[i] = s[i]
  <2>1. 1 \in Int /\ n \in Int /\ \A i \in 1 .. n : s[i] \in S
    BY <1>1, <1>2
  <2>2. /\ SubSeq(s, 1, n) \in Seq(S) /\ Len(SubSeq(s, 1, n)) = IF 1 <= n THEN n - 1 + 1 ELSE 0
        /\ \A i \in 1 .. n - 1 + 1 : SubSeq(s, 1, n)[i] = s[1 + i - 1]
    BY <2>1, SubSeqProperties
  <2>3. n - 1 + 1 = n /\ \A i \in 1 .. n : 1 + i - 1 = i
    BY <1>2
  <2> QED BY <1>2, <2>2, <2>3
<1>5. DOMAIN SubSeq(s, 1, n) = 1 .. n
  BY <1>4, LenProperties
<1>6. ASSUME Len(s) <= k PROVE SubSeq(s, 1, n) = s
  <2>1. n = Len(s)
    <3>1. ~(k < Len(s))
      BY <1>1, <1>6
    <3> QED BY <3>1 DEF n
  <2> QED BY <1>4, <2>1, SeqEqual
<1> QED BY <1>1, <1>2, <1>3, <1>4, <1>5, <1>6 DEF n

LEMMA TakeRun ==
    ASSUME NEW run, IsRun(run), NEW k \in Nat
    PROVE  IsRun(Take(run, k)) /\ Docids(Take(run, k)) \subseteq Docids(run)
<1>1. run \in Seq(Hit)
  BY DEF IsRun
<1>2. /\ Take(run, k) \in Seq(Hit)
      /\ \A i \in DOMAIN Take(run, k) : i \in DOMAIN run /\ Take(run, k)[i] = run[i]
  BY <1>1, TakeIs
<1>3. IsRun(Take(run, k))
  BY <1>2 DEF IsRun
<1> QED BY <1>2, <1>3 DEF Docids

\* A new line adds its hit.
LEMMA AssignLine ==
    ASSUME NEW lines, IsRun(lines), NEW n \in 1 .. Len(lines)
    PROVE  Assign(Take(lines, n - 1), lines[n]) = Take(lines, n)
<1> DEFINE before == Take(lines, n - 1)
<1>1. /\ lines \in Seq(Hit) /\ Len(lines) \in Nat /\ DOMAIN lines = 1 .. Len(lines)
      /\ lines[n] \in Hit /\ n \in Nat /\ n - 1 \in Nat
  BY RunFacts DEF IsRun
<1>2. /\ before \in Seq(Hit) /\ Len(before) = n - 1 /\ DOMAIN before = 1 .. (n - 1)
      /\ \A i \in DOMAIN before : before[i] = lines[i]
  BY <1>1, TakeIs
<1>3. /\ Take(lines, n) \in Seq(Hit) /\ Len(Take(lines, n)) = n
      /\ DOMAIN Take(lines, n) = 1 .. n
      /\ \A i \in DOMAIN Take(lines, n) : Take(lines, n)[i] = lines[i]
  BY <1>1, TakeIs
<1> HIDE DEF before
<1>4. lines[n].doc \notin Docids(before)
  <2>1. \A i \in 1 .. (n - 1) : before[i].doc # lines[n].doc
    BY <1>1, <1>2 DEF IsRun
  <2> QED BY <1>2, <2>1 DEF Docids
<1>5. Assign(before, lines[n]) = Append(before, lines[n])
  BY <1>4 DEF Assign
<1>6. /\ Append(before, lines[n]) \in Seq(Hit) /\ Len(Append(before, lines[n])) = n
      /\ \A i \in 1 .. (n - 1) : Append(before, lines[n])[i] = lines[i]
      /\ Append(before, lines[n])[n] = lines[n]
  BY <1>1, <1>2, AppendProperties
<1>7. \A i \in 1 .. n : Append(before, lines[n])[i] = Take(lines, n)[i]
  BY <1>1, <1>3, <1>6
<1>8. Append(before, lines[n]) = Take(lines, n)
  BY <1>3, <1>6, <1>7, SeqEqual
<1> QED BY <1>5, <1>8 DEF before

\* Reading a block of lines gives the lines.
LEMMA ReadRunIs ==
    ASSUME NEW lines, IsRun(lines)
    PROVE  ReadRun(lines) = lines
<1> DEFINE N == 0 .. Len(lines)
           step(f) == [n \in N |-> IF n = 0 THEN <<>> ELSE Assign(f[n - 1], lines[n])]
           run == CHOOSE f : f = step(f)
           prefix == [n \in N |-> Take(lines, n)]
<1>1. lines \in Seq(Hit) /\ Len(lines) \in Nat
  BY RunFacts DEF IsRun
<1>2. ReadRun(lines) = run[Len(lines)]
  BY DEF ReadRun
<1>3. prefix = step(prefix)
  <2>1. ASSUME NEW n \in N
        PROVE  prefix[n] = IF n = 0 THEN <<>> ELSE Assign(prefix[n - 1], lines[n])
    <3>1. CASE n = 0
      <4>1. Take(lines, 0) = <<>>
        BY <1>1, SubSeqEmpty DEF Take
      <4> QED BY <3>1, <4>1
    <3>2. CASE n # 0
      <4>1. n \in 1 .. Len(lines) /\ n - 1 \in N
        BY <1>1, <3>2
      <4>2. prefix[n - 1] = Take(lines, n - 1) /\ prefix[n] = Take(lines, n)
        BY <4>1
      <4> QED BY <3>2, <4>1, <4>2, AssignLine
    <3> QED BY <3>1, <3>2
  <2> QED BY <2>1
<1>4. run = step(run)
  BY <1>3
<1>5. \A n \in N : run[n] = IF n = 0 THEN <<>> ELSE Assign(run[n - 1], lines[n])
  BY <1>4
<1>6. \A n \in N : prefix[n] = IF n = 0 THEN <<>> ELSE Assign(prefix[n - 1], lines[n])
  BY <1>3
<1>7. prefix[Len(lines)] = lines
  <2>1. prefix[Len(lines)] = Take(lines, Len(lines))
    BY <1>1
  <2> QED BY <1>1, <2>1, TakeIs
<1> HIDE DEF run, prefix
<1>8. \A n \in N : run[n] = prefix[n]
  <2> DEFINE wrong == {n \in N : run[n] # prefix[n]}
  <2> SUFFICES ASSUME wrong # {} PROVE FALSE
    OBVIOUS
  <2>1. PICK m \in wrong : \A n \in wrong : m <= n
    <3>1. wrong \subseteq Nat
      BY <1>1
    <3> HIDE DEF wrong
    <3> QED BY <3>1, LeastNat
  <2>2. m \in N /\ run[m] # prefix[m]
    OBVIOUS
  <2>3. m # 0
    BY <1>5, <1>6, <2>2
  <2>4. m - 1 \in N /\ m - 1 \notin wrong
    BY <1>1, <2>1, <2>2, <2>3
  <2>5. run[m - 1] = prefix[m - 1]
    BY <2>4
  <2> QED BY <1>5, <1>6, <2>2, <2>3, <2>5
<1> QED BY <1>1, <1>2, <1>7, <1>8

\* Reading no more than k hits gives the first k lines.
LEMMA ReadRunTruncatedIs ==
    ASSUME NEW lines, IsRun(lines), NEW k \in Nat
    PROVE  ReadRunTruncated(lines, k) = Take(lines, k)
<1> DEFINE N == 0 .. Len(lines)
           step(f) == [n \in N |->
                          IF n = 0 THEN <<>>
                          ELSE IF Len(f[n - 1]) >= k THEN f[n - 1]
                          ELSE Assign(f[n - 1], lines[n])]
           bucket == CHOOSE f : f = step(f)
           prefix == [n \in N |-> Take(lines, IF n < k THEN n ELSE k)]
<1>1. lines \in Seq(Hit) /\ Len(lines) \in Nat
  BY RunFacts DEF IsRun
<1>2. ReadRunTruncated(lines, k) = bucket[Len(lines)]
  BY DEF ReadRunTruncated
<1>3. prefix = step(prefix)
  <2>1. ASSUME NEW n \in N
        PROVE  prefix[n] = IF n = 0 THEN <<>>
                           ELSE IF Len(prefix[n - 1]) >= k THEN prefix[n - 1]
                           ELSE Assign(prefix[n - 1], lines[n])
    <3>1. CASE n = 0
      <4>1. Take(lines, 0) = <<>>
        BY <1>1, SubSeqEmpty DEF Take
      <4>2. (IF n < k THEN n ELSE k) = 0
        BY <3>1
      <4> QED BY <3>1, <4>1, <4>2
    <3>2. CASE n # 0
      <4>1. n \in 1 .. Len(lines) /\ n - 1 \in N /\ n \in Nat /\ n - 1 \in Nat /\ n - 1 < Len(lines)
        BY <1>1, <3>2
      <4>2. CASE n - 1 < k
        <5>1. (IF n - 1 < k THEN n - 1 ELSE k) = n - 1 /\ (IF n < k THEN n ELSE k) = n
          BY <4>1, <4>2
        <5>2. prefix[n - 1] = Take(lines, n - 1) /\ prefix[n] = Take(lines, n)
          BY <4>1, <5>1
        <5>3. Len(Take(lines, n - 1)) = n - 1
          BY <1>1, <4>1, TakeIs
        <5>4. ~(Len(prefix[n - 1]) >= k)
          BY <4>1, <4>2, <5>2, <5>3
        <5>5. Assign(prefix[n - 1], lines[n]) = prefix[n]
          BY <4>1, <5>2, AssignLine
        <5> QED BY <3>2, <5>4, <5>5
      <4>3. CASE k <= n - 1
        <5>1. (IF n - 1 < k THEN n - 1 ELSE k) = k /\ (IF n < k THEN n ELSE k) = k
          BY <4>1, <4>3
        <5>2. prefix[n - 1] = Take(lines, k) /\ prefix[n] = Take(lines, k)
          BY <4>1, <5>1
        <5>3. Len(Take(lines, k)) = k
          <6>1. k < Len(lines)
            BY <1>1, <4>1, <4>3
          <6> QED BY <1>1, <6>1, TakeIs
        <5>4. Len(prefix[n - 1]) >= k
          BY <5>2, <5>3
        <5> QED BY <3>2, <5>2, <5>4
      <4> QED BY <4>1, <4>2, <4>3
    <3> QED BY <3>1, <3>2
  <2> QED BY <2>1
<1>4. bucket = step(bucket)
  BY <1>3
<1>5. \A n \in N : bucket[n] = IF n = 0 THEN <<>>
                               ELSE IF Len(bucket[n - 1]) >= k THEN bucket[n - 1]
                               ELSE Assign(bucket[n - 1], lines[n])
  BY <1>4
<1>6. \A n \in N : prefix[n] = IF n = 0 THEN <<>>
                               ELSE IF Len(prefix[n - 1]) >= k THEN prefix[n - 1]
                               ELSE Assign(prefix[n - 1], lines[n])
  BY <1>3
<1>7. prefix[Len(lines)] = Take(lines, k)
  <2>1. CASE Len(lines) < k
    <3>1. prefix[Len(lines)] = Take(lines, Len(lines))
      BY <1>1, <2>1
    <3>2. Take(lines, Len(lines)) = lines
      BY <1>1, TakeIs
    <3>3. Take(lines, k) = lines
      BY <1>1, <2>1, TakeIs
    <3> QED BY <3>1, <3>2, <3>3
  <2>2. CASE ~(Len(lines) < k)
    BY <1>1, <2>2
  <2> QED BY <2>1, <2>2
<1> HIDE DEF bucket, prefix
<1>8. \A n \in N : bucket[n] = prefix[n]
  <2> DEFINE wrong == {n \in N : bucket[n] # prefix[n]}
  <2> SUFFICES ASSUME wrong # {} PROVE FALSE
    OBVIOUS
  <2>1. PICK m \in wrong : \A n \in wrong : m <= n
    <3>1. wrong \subseteq Nat
      BY <1>1
    <3> HIDE DEF wrong
    <3> QED BY <3>1, LeastNat
  <2>2. m \in N /\ bucket[m] # prefix[m]
    OBVIOUS
  <2>3. m # 0
    BY <1>5, <1>6, <2>2
  <2>4. m - 1 \in N /\ m - 1 \notin wrong
    BY <1>1, <2>1, <2>2, <2>3
  <2>5. bucket[m - 1] = prefix[m - 1]
    BY <2>4
  <2> QED BY <1>5, <1>6, <2>2, <2>3, <2>5
<1> QED BY <1>1, <1>2, <1>7, <1>8

\* What is kept of a run: the documents that are asked for, with their scores.
LEMMA AmongIs ==
    ASSUME NEW run, IsRun(run), NEW docs
    PROVE  /\ IsRun(Among(run, docs))
           /\ Docids(Among(run, docs)) = Docids(run) \cap docs
           /\ \A d \in Docids(run) \cap docs : ScoreOf(Among(run, docs), d) = ScoreOf(run, d)
           /\ Docids(run) \subseteq docs => Among(run, docs) = run
<1> DEFINE kept == {i \in DOMAIN run : run[i].doc \in docs}
           R == {pair \in kept \X kept : pair[1] < pair[2]}
           upTo(i) == {j \in kept : j <= i}
           m == Cardinality(kept)
           among == Among(run, docs)
<1>1. /\ DOMAIN run = 1 .. Len(run) /\ Len(run) \in Nat /\ run \in [1 .. Len(run) -> Hit]
      /\ IsFiniteSet(DOMAIN run)
  BY RunFacts
<1>2. kept \in SUBSET DOMAIN run /\ kept \subseteq Nat
  BY <1>1
<1>3. IsFiniteSet(kept)
  <2> HIDE DEF kept
  <2> QED BY <1>1, <1>2, FS_Subset
<1>4. StrictTotal(kept, R)
  <2> HIDE DEF kept
  <2> QED BY <1>2 DEF StrictTotal
<1>5. ASSUME NEW i \in kept
      PROVE  /\ IsFiniteSet(Before(kept, R, i)) /\ i \notin Before(kept, R, i)
             /\ upTo(i) = Before(kept, R, i) \cup {i}
  <2> HIDE DEF kept
  <2>1. Before(kept, R, i) = {j \in kept : j < i}
    BY DEF Before
  <2>2. Before(kept, R, i) \in SUBSET kept
    BY DEF Before
  <2>3. IsFiniteSet(Before(kept, R, i))
    BY <1>3, <2>2, FS_Subset
  <2> QED BY <1>2, <2>1, <2>3
<1>6. ASSUME NEW i \in kept PROVE Cardinality(upTo(i)) = 1 + Cardinality(Before(kept, R, i))
  <2> HIDE DEF kept, R, upTo
  <2>1. Cardinality(upTo(i)) = Cardinality(Before(kept, R, i)) + 1
    BY <1>5, FS_AddElement
  <2>2. Cardinality(Before(kept, R, i)) \in Nat
    BY <1>5, FS_CardinalityType
  <2> QED BY <2>1, <2>2
<1>7. /\ m \in Nat
      /\ \A i \in kept : Cardinality(upTo(i)) \in 1 .. m
      /\ \A i, j \in kept : j < i => Cardinality(upTo(j)) < Cardinality(upTo(i))
      /\ \A p \in 1 .. m : \E i \in kept : Cardinality(upTo(i)) = p
  <2>1. \A i, j \in kept : j < i => <<j, i>> \in R
    OBVIOUS
  <2> HIDE DEF kept, R, upTo
  <2>2. /\ m \in Nat
        /\ \A i \in kept : /\ Cardinality(Before(kept, R, i)) \in Nat
                           /\ Cardinality(Before(kept, R, i)) < m
        /\ \A i, j \in kept :
              <<j, i>> \in R <=> Cardinality(Before(kept, R, j)) < Cardinality(Before(kept, R, i))
        /\ \A p \in 1 .. m : \E i \in kept : 1 + Cardinality(Before(kept, R, i)) = p
    BY <1>3, <1>4, Numbering
  <2> HIDE DEF m
  <2>3. \A i \in kept : Cardinality(upTo(i)) \in 1 .. m
    BY <1>6, <2>2
  <2>4. ASSUME NEW i \in kept, NEW j \in kept, j < i
        PROVE  Cardinality(upTo(j)) < Cardinality(upTo(i))
    <3>1. /\ Cardinality(Before(kept, R, i)) \in Nat
          /\ Cardinality(Before(kept, R, j)) \in Nat
          /\ Cardinality(Before(kept, R, j)) < Cardinality(Before(kept, R, i))
      BY <2>1, <2>2, <2>4
    <3>2. /\ Cardinality(upTo(i)) = 1 + Cardinality(Before(kept, R, i))
          /\ Cardinality(upTo(j)) = 1 + Cardinality(Before(kept, R, j))
      BY <1>6
    <3> QED BY <3>1, <3>2
  <2>5. \A p \in 1 .. m : \E i \in kept : Cardinality(upTo(i)) = p
    BY <1>6, <2>2
  <2> QED BY <2>2, <2>3, <2>4, <2>5
<1>8. /\ DOMAIN among = 1 .. m
      /\ \A p \in 1 .. m : among[p] = run[CHOOSE i \in kept : Cardinality(upTo(i)) = p]
  BY DEF Among
<1> HIDE DEF kept, R, upTo, m, among
<1>9. \A p \in 1 .. m : \E i \in kept : among[p] = run[i] /\ Cardinality(upTo(i)) = p
  BY <1>7, <1>8
<1>10. ASSUME NEW i \in kept PROVE among[Cardinality(upTo(i))] = run[i]
  <2>1. \A j \in kept : Cardinality(upTo(j)) = Cardinality(upTo(i)) => j = i
    BY <1>2, <1>7
  <2>2. PICK j \in kept :
           /\ among[Cardinality(upTo(i))] = run[j]
           /\ Cardinality(upTo(j)) = Cardinality(upTo(i))
    BY <1>7, <1>9
  <2> QED BY <2>1, <2>2
<1>11. IsRun(among) /\ Len(among) = m
  <2>1. \A p \in 1 .. m : among[p] \in Hit
    BY <1>1, <1>2, <1>9
  <2>2. among \in [1 .. m -> Hit]
    <3>1. among = [p \in 1 .. m |-> among[p]]
      BY <1>8 DEF among, Among
    <3> QED BY <2>1, <3>1
  <2>3. ASSUME NEW p \in 1 .. m, NEW q \in 1 .. m, p # q PROVE among[p].doc # among[q].doc
    <3>1. PICK i \in kept : among[p] = run[i] /\ Cardinality(upTo(i)) = p
      BY <1>9
    <3>2. PICK j \in kept : among[q] = run[j] /\ Cardinality(upTo(j)) = q
      BY <1>9
    <3>3. i # j /\ i \in DOMAIN run /\ j \in DOMAIN run
      BY <1>2, <2>3, <3>1, <3>2
    <3> QED BY <3>1, <3>2, <3>3 DEF IsRun
  <2> QED BY <1>7, <2>2, <2>3, RunOf
<1>12. \A d : d \in Docids(among) <=> d \in Docids(run) \cap docs
  <2>1. ASSUME NEW d \in Docids(among) PROVE d \in Docids(run) \cap docs
    <3>1. PICK p \in 1 .. m : among[p].doc = d
      BY <1>8 DEF Docids
    <3>2. PICK i \in kept : among[p] = run[i]
      BY <1>9
    <3> QED BY <3>1, <3>2 DEF kept, Docids
  <2>2. ASSUME NEW d \in Docids(run) \cap docs PROVE d \in Docids(among)
    <3>1. PICK i \in kept : run[i].doc = d
      BY DEF kept, Docids
    <3> QED BY <1>7, <1>8, <1>10, <3>1 DEF Docids
  <2> QED BY <2>1, <2>2
<1>13. ASSUME NEW d \in Docids(run) \cap docs PROVE ScoreOf(among, d) = ScoreOf(run, d)
  <2>1. PICK i \in kept : run[i].doc = d
    BY DEF kept, Docids
  <2>2. Cardinality(upTo(i)) \in DOMAIN among /\ among[Cardinality(upTo(i))] = run[i]
    BY <1>7, <1>8, <1>10
  <2>3. ScoreOf(among, d) = run[i].score
    BY <1>11, <2>1, <2>2, ScoreIs
  <2>4. ScoreOf(run, d) = run[i].score
    BY <1>2, <2>1, ScoreIs
  <2> QED BY <2>3, <2>4
<1>14. ASSUME Docids(run) \subseteq docs PROVE among = run
  <2>1. kept = 1 .. Len(run)
    BY <1>1, <1>14 DEF kept, Docids
  <2>2. m = Len(run)
    BY <1>1, <2>1, FS_Interval DEF m
  <2>3. ASSUME NEW i \in 1 .. Len(run) PROVE among[i] = run[i]
    <3>1. upTo(i) = 1 .. i
      BY <1>1, <2>1 DEF upTo
    <3>2. Cardinality(1 .. i) = i
      BY <1>1, FS_Interval
    <3> QED BY <1>10, <2>1, <3>1, <3>2
  <2>4. among \in Seq(Hit) /\ run \in Seq(Hit)
    BY <1>11 DEF IsRun
  <2> QED BY <1>11, <2>2, <2>3, <2>4, SeqEqual
<1>15. Docids(among) = Docids(run) \cap docs
  BY <1>12
<1> QED BY <1>11, <1>13, <1>14, <1>15 DEF among

-------------------------------------------------------------------------------
(* The ranking of the metrics, document by document *)

Above(run, d) ==
    {e \in Docids(run) : \/ ScoreOf(run, e) > ScoreOf(run, d)
                         \/ ScoreOf(run, e) = ScoreOf(run, d) /\ e > d}

LEMMA AboveFinite ==
    ASSUME NEW run, IsRun(run), NEW d
    PROVE  IsFiniteSet(Above(run, d)) /\ Cardinality(Above(run, d)) \in Nat
<1>1. Above(run, d) \in SUBSET Docids(run)
  BY DEF Above
<1> QED BY <1>1, DocidsCounted, FS_Subset, FS_CardinalityType

\* A document's place is one below the documents above it.
LEMMA RankedIs ==
    ASSUME NEW run, IsRun(run)
    PROVE  /\ RankedDocids(run) \in Seq(Docids(run))
           /\ Len(RankedDocids(run)) = Len(run)
           /\ DOMAIN RankedDocids(run) = 1 .. Len(run)
           /\ \A d \in Docids(run) : /\ 1 + Cardinality(Above(run, d)) \in 1 .. Len(run)
                                     /\ RankedDocids(run)[1 + Cardinality(Above(run, d))] = d
           /\ \A p \in 1 .. Len(run) :
                 /\ RankedDocids(run)[p] \in Docids(run)
                 /\ p = 1 + Cardinality(Above(run, RankedDocids(run)[p]))
<1> DEFINE D == DOMAIN run
           R == ByScoreAndDocid(run)
           sorted == Sorted(run, R)
           ranked == RankedDocids(run)
<1>1. StrictTotal(D, R) /\ D = 1 .. Len(run) /\ Len(run) \in Nat /\ IsFiniteSet(D)
  BY ScoreAndDocidTotal, RunFacts
<1>2. /\ IsRun(sorted) /\ DOMAIN sorted = D
      /\ \A i \in D : Place(run, R, i) \in D /\ sorted[Place(run, R, i)] = run[i]
      /\ \A p \in D : \E i \in D : Place(run, R, i) = p
  BY <1>1, SortedIs
<1>3. DOMAIN ranked = D /\ \A p \in D : ranked[p] = sorted[p].doc
  BY <1>2 DEF RankedDocids
<1>4. ASSUME NEW i \in D
      PROVE  Place(run, R, i) = 1 + Cardinality(Above(run, run[i].doc))
  <2> DEFINE B == Before(D, R, i)
             A == Above(run, run[i].doc)
             f == [j \in B |-> run[j].doc]
  <2>1. B \in SUBSET D
    BY DEF Before
  <2>2. \A j \in D : j \in B <=> \/ run[j].score > run[i].score
                                 \/ run[j].score = run[i].score /\ run[j].doc > run[i].doc
    BY DEF Before, ByScoreAndDocid
  <2>3. \A j \in D : ScoreOf(run, run[j].doc) = run[j].score /\ run[j].doc \in Docids(run)
    BY ScoreIs DEF Docids
  <2>4. \A j \in D : j \in B <=> run[j].doc \in A
    BY <2>2, <2>3 DEF Above
  <2>5. \A e \in A : \E j \in D : run[j].doc = e
    BY DEF Above, Docids
  <2> HIDE DEF A, B
  <2>6. f \in [B -> A]
    BY <2>1, <2>4
  <2>7. \A j, k \in B : f[j] = f[k] => j = k
    BY <2>1 DEF IsRun
  <2>8. \A e \in A : \E j \in B : f[j] = e
    BY <2>4, <2>5
  <2>9. f \in Bijection(B, A)
    BY <2>6, <2>7, <2>8 DEF Bijection, Injection, IsInjective, Surjection
  <2>10. ExistsBijection(B, A)
    <3> HIDE DEF f
    <3> QED BY <2>9 DEF ExistsBijection
  <2>11. Cardinality(A) = Cardinality(B)
    BY <1>1, <2>1, <2>10, FS_Subset, FS_Bijection
  <2>12. Place(run, R, i) = 1 + Cardinality(B)
    BY DEF Place, B, Before
  <2> QED BY <2>11, <2>12 DEF A
<1> HIDE DEF sorted, ranked, R
<1>5. ASSUME NEW d \in Docids(run)
      PROVE  /\ 1 + Cardinality(Above(run, d)) \in 1 .. Len(run)
             /\ ranked[1 + Cardinality(Above(run, d))] = d
  <2>1. PICK i \in D : run[i].doc = d
    BY DEF Docids
  <2>2. Place(run, R, i) = 1 + Cardinality(Above(run, d))
    BY <1>4, <2>1
  <2>3. Place(run, R, i) \in D /\ sorted[Place(run, R, i)].doc = d
    BY <1>2, <2>1
  <2> QED BY <1>1, <1>3, <2>2, <2>3
<1>6. ASSUME NEW p \in 1 .. Len(run)
      PROVE  ranked[p] \in Docids(run) /\ p = 1 + Cardinality(Above(run, ranked[p]))
  <2>1. PICK i \in D : Place(run, R, i) = p
    BY <1>1, <1>2
  <2>2. ranked[p] = run[i].doc
    BY <1>2, <1>3, <2>1
  <2>3. run[i].doc \in Docids(run)
    BY DEF Docids
  <2> QED BY <1>4, <2>1, <2>2, <2>3
<1>7. ranked \in Seq(Docids(run))
  <2>1. ranked = [p \in 1 .. Len(run) |-> ranked[p]]
    BY <1>1, <1>3 DEF ranked, RankedDocids
  <2>2. ranked \in [1 .. Len(run) -> Docids(run)]
    BY <1>6, <2>1
  <2> QED BY <1>1, <2>2, SeqDef
<1>8. Len(ranked) = Len(run)
  BY <1>1, <1>3, <1>7, LenProperties
<1> QED BY <1>1, <1>3, <1>5, <1>6, <1>7, <1>8 DEF ranked

\* The ranking depends on the documents and their scores, not on the order in
\* which the run lists them.
LEMMA SameRanking ==
    ASSUME NEW run, IsRun(run), NEW other, IsRun(other), Docids(run) = Docids(other),
           \A d \in Docids(run) : ScoreOf(run, d) = ScoreOf(other, d)
    PROVE  RankedDocids(run) = RankedDocids(other) /\ Len(run) = Len(other)
<1>1. \A d \in Docids(run) : Above(run, d) = Above(other, d)
  BY DEF Above
<1>2. Len(run) = Len(other)
  BY DocidsCounted
<1>3. ASSUME NEW p \in 1 .. Len(run) PROVE RankedDocids(run)[p] = RankedDocids(other)[p]
  <2>1. RankedDocids(run)[p] \in Docids(run)
        /\ p = 1 + Cardinality(Above(run, RankedDocids(run)[p]))
    BY RankedIs
  <2>2. p = 1 + Cardinality(Above(other, RankedDocids(run)[p]))
    BY <1>1, <2>1
  <2>3. RankedDocids(other)[1 + Cardinality(Above(other, RankedDocids(run)[p]))]
           = RankedDocids(run)[p]
    BY <2>1, RankedIs
  <2> QED BY <2>2, <2>3
<1>4. /\ RankedDocids(run) \in Seq(Docids(run)) /\ RankedDocids(other) \in Seq(Docids(run))
      /\ Len(RankedDocids(run)) = Len(run) /\ Len(RankedDocids(other)) = Len(run)
  BY <1>2, RankedIs
<1> QED BY <1>2, <1>3, <1>4, SeqEqual

LEMMA TopOfIs ==
    ASSUME NEW run, IsRun(run)
    PROVE  \A d : d \in TopOf(run) <=> d \in Docids(run) /\ Cardinality(Above(run, d)) < Cut
<1> DEFINE ranked == RankedDocids(run)
           top == Take(ranked, Cut)
<1>1. Cut \in Nat /\ Len(run) \in Nat
  BY CascadeAssumption, RunFacts
<1>2. /\ ranked \in Seq(Docids(run)) /\ Len(ranked) = Len(run)
      /\ \A d \in Docids(run) : /\ 1 + Cardinality(Above(run, d)) \in 1 .. Len(run)
                                /\ ranked[1 + Cardinality(Above(run, d))] = d
      /\ \A p \in 1 .. Len(run) : ranked[p] \in Docids(run)
                                  /\ p = 1 + Cardinality(Above(run, ranked[p]))
  BY RankedIs
<1> HIDE DEF ranked
<1>3. /\ DOMAIN top = 1 .. (IF Cut < Len(run) THEN Cut ELSE Len(run))
      /\ \A p \in DOMAIN top : top[p] = ranked[p]
  BY <1>1, <1>2, TakeIs
<1>4. TopOf(run) = {top[p] : p \in DOMAIN top}
  BY DEF TopOf, ToSet, ranked
<1> HIDE DEF top
<1>5. ASSUME NEW d \in TopOf(run)
      PROVE  d \in Docids(run) /\ Cardinality(Above(run, d)) < Cut
  <2>1. PICK p \in DOMAIN top : d = top[p]
    BY <1>4
  <2>2. p \in 1 .. Len(run) /\ p <= Cut /\ d = ranked[p]
    BY <1>1, <1>3, <2>1
  <2>3. d \in Docids(run) /\ p = 1 + Cardinality(Above(run, d))
    BY <1>2, <2>2
  <2>4. Cardinality(Above(run, d)) \in Nat
    BY AboveFinite
  <2> QED BY <1>1, <2>2, <2>3, <2>4
<1>6. ASSUME NEW d \in Docids(run), Cardinality(Above(run, d)) < Cut PROVE d \in TopOf(run)
  <2> DEFINE p == 1 + Cardinality(Above(run, d))
  <2>1. p \in 1 .. Len(run) /\ ranked[p] = d
    BY <1>2
  <2>2. Cardinality(Above(run, d)) \in Nat
    BY AboveFinite
  <2>3. p \in DOMAIN top
    BY <1>1, <1>3, <1>6, <2>1, <2>2
  <2> HIDE DEF p
  <2> QED BY <1>3, <1>4, <2>1, <2>3
<1> QED BY <1>5, <1>6

-------------------------------------------------------------------------------
(* What the pre-ranker loses *)

\* Cutting by score keeps as many as it may, and none that scores less than
\* one it drops.
LEMMA CutByScore ==
    ASSUME NEW run, IsRun(run), NEW k \in Nat, NEW top,
           top = Docids(Take(Sorted(run, ByScore(run)), k))
    PROVE  /\ top \subseteq Docids(run) /\ IsFiniteSet(top)
           /\ Cardinality(top) = IF k < Len(run) THEN k ELSE Len(run)
           /\ \A d \in top, e \in Docids(run) \ top : ScoreOf(run, d) >= ScoreOf(run, e)
<1> DEFINE D == DOMAIN run
           R == ByScore(run)
           sorted == Sorted(run, R)
           taken == Take(sorted, k)
           n == IF k < Len(run) THEN k ELSE Len(run)
<1>1. StrictTotal(D, R) /\ D = 1 .. Len(run) /\ Len(run) \in Nat
      /\ \A i \in D : run[i].score \in Nat
  BY ScoreTotal, RunFacts
<1>2. /\ IsRun(sorted) /\ Len(sorted) = Len(run) /\ DOMAIN sorted = D
      /\ \A i \in D : Place(run, R, i) \in D /\ sorted[Place(run, R, i)] = run[i]
      /\ \A i, j \in D : <<j, i>> \in R <=> Place(run, R, j) < Place(run, R, i)
      /\ \A p \in D : \E i \in D : Place(run, R, i) = p
  BY <1>1, SortedIs
<1> HIDE DEF sorted
<1>3. IsRun(taken) /\ Len(taken) = n /\ DOMAIN taken = 1 .. n
      /\ \A p \in DOMAIN taken : p \in D /\ taken[p] = sorted[p]
  <2>1. sorted \in Seq(Hit)
    BY <1>2 DEF IsRun
  <2> QED BY <1>2, <2>1, TakeIs, TakeRun
<1>4. top = Docids(taken)
  BY DEF sorted
<1>5. IsFiniteSet(top) /\ Cardinality(top) = n
  BY <1>3, <1>4, DocidsCounted
<1>6. n \in Nat /\ n <= Len(run)
  BY <1>1
<1> HIDE DEF taken, n, R
<1>7. ASSUME NEW i \in D PROVE run[i].doc \in top <=> Place(run, R, i) <= n
  <2>1. ASSUME Place(run, R, i) <= n PROVE run[i].doc \in top
    <3>1. Place(run, R, i) \in DOMAIN taken
      BY <1>1, <1>2, <1>3, <1>6, <2>1
    <3>2. taken[Place(run, R, i)] = run[i]
      BY <1>2, <1>3, <3>1
    <3> QED BY <1>4, <3>1, <3>2 DEF Docids
  <2>2. ASSUME run[i].doc \in top PROVE Place(run, R, i) <= n
    <3>1. PICK p \in DOMAIN taken : taken[p].doc = run[i].doc
      BY <1>4, <2>2 DEF Docids
    <3>2. p \in D /\ sorted[p].doc = run[i].doc /\ p <= n
      BY <1>3, <1>6, <3>1
    <3>3. sorted[Place(run, R, i)].doc = run[i].doc /\ Place(run, R, i) \in DOMAIN sorted
      BY <1>2
    <3>4. p = Place(run, R, i)
      BY <1>2, <3>2, <3>3 DEF IsRun
    <3> QED BY <3>2, <3>4
  <2> QED BY <2>1, <2>2
<1>8. top \subseteq Docids(run)
  <2>1. ASSUME NEW d \in top PROVE d \in Docids(run)
    <3>1. PICK p \in DOMAIN taken : taken[p].doc = d
      BY <1>4 DEF Docids
    <3>2. PICK i \in D : Place(run, R, i) = p
      BY <1>2, <1>3
    <3>3. sorted[p] = run[i] /\ taken[p] = sorted[p]
      BY <1>2, <1>3, <3>2
    <3> QED BY <3>1, <3>3 DEF Docids
  <2> QED BY <2>1
<1>9. ASSUME NEW d \in top, NEW e \in Docids(run) \ top
      PROVE  ScoreOf(run, d) >= ScoreOf(run, e)
  <2>1. PICK i \in D : run[i].doc = d /\ ScoreOf(run, d) = run[i].score
    BY <1>8, ScoreType
  <2>2. PICK j \in D : run[j].doc = e /\ ScoreOf(run, e) = run[j].score
    BY ScoreType
  <2>3. Place(run, R, i) <= n /\ ~(Place(run, R, j) <= n)
    BY <1>7, <2>1, <2>2
  <2>4. Place(run, R, i) < Place(run, R, j)
    BY <1>1, <1>2, <1>6, <2>3
  <2>5. <<i, j>> \in R
    BY <1>2, <2>4
  <2>6. run[i].score >= run[j].score
    BY <1>1, <2>5 DEF R, ByScore
  <2> QED BY <2>1, <2>2, <2>6
<1> QED BY <1>5, <1>8, <1>9 DEF n

LEMMA TrueTopKIs ==
    ASSUME IsRun(allScores)
    PROVE  /\ TrueTopK \subseteq Docids(allScores) /\ IsFiniteSet(TrueTopK)
           /\ Cardinality(TrueTopK) \in Nat
           /\ Cardinality(TrueTopK) = IF TopK < Len(allScores) THEN TopK ELSE Len(allScores)
           /\ \A d \in TrueTopK, e \in Docids(allScores) \ TrueTopK :
                 ScoreOf(allScores, d) >= ScoreOf(allScores, e)
<1>1. TopK \in Nat
  BY CascadeAssumption
<1>2. TrueTopK = Docids(Take(Sorted(allScores, ByScore(allScores)), TopK))
  BY DEF TrueTopK
<1>3. /\ TrueTopK \subseteq Docids(allScores) /\ IsFiniteSet(TrueTopK)
      /\ Cardinality(TrueTopK) = IF TopK < Len(allScores) THEN TopK ELSE Len(allScores)
      /\ \A d \in TrueTopK, e \in Docids(allScores) \ TrueTopK :
            ScoreOf(allScores, d) >= ScoreOf(allScores, e)
  BY <1>1, <1>2, CutByScore
<1> QED BY <1>3, FS_CardinalityType

\* Without a tie across its boundary, the top of the full ranking holds all
\* that the metrics look at.
LEMMA EvaluatedIsTrueTop ==
    ASSUME IsRun(allScores), TopIsSeparate
    PROVE  TopOf(allScores) \subseteq TrueTopK
<1> SUFFICES ASSUME NEW e \in TopOf(allScores), e \notin TrueTopK PROVE FALSE
  OBVIOUS
<1>1. e \in Docids(allScores) /\ Cardinality(Above(allScores, e)) < Cut
  BY TopOfIs
<1>2. ASSUME NEW d \in TrueTopK PROVE d \in Above(allScores, e)
  <2>1. d \in Docids(allScores) /\ ScoreOf(allScores, d) >= ScoreOf(allScores, e)
    BY <1>1, TrueTopKIs
  <2>2. ScoreOf(allScores, d) # ScoreOf(allScores, e)
    BY <1>1 DEF TopIsSeparate
  <2>3. ScoreOf(allScores, d) \in Nat /\ ScoreOf(allScores, e) \in Nat
    BY <1>1, <2>1, ScoreType
  <2> QED BY <2>1, <2>2, <2>3 DEF Above
<1>3. TrueTopK \in SUBSET Above(allScores, e)
  BY <1>2
<1>4. IsFiniteSet(Above(allScores, e)) /\ Cardinality(Above(allScores, e)) \in Nat
  BY AboveFinite
<1>5. Cardinality(TrueTopK) <= Cardinality(Above(allScores, e))
  BY <1>3, <1>4, FS_Subset
<1>6. Cut \in Nat /\ TopK \in Nat /\ Cut <= TopK /\ Len(allScores) \in Nat
  BY CascadeAssumption, RunFacts
<1>7. CASE TopK < Len(allScores)
  <2>1. Cardinality(TrueTopK) = TopK
    BY <1>7, TrueTopKIs
  <2> QED BY <1>1, <1>4, <1>5, <1>6, <2>1
<1>8. CASE ~(TopK < Len(allScores))
  <2>1. Cardinality(TrueTopK) = Cardinality(Docids(allScores))
    BY <1>8, TrueTopKIs, DocidsCounted
  <2>2. TrueTopK = Docids(allScores)
    BY <2>1, TrueTopKIs, DocidsCounted, FS_Subset
  <2> QED BY <1>1, <2>2
<1> QED BY <1>7, <1>8

\* Fewer documents are above one in what is left of a run.
LEMMA AboveAmong ==
    ASSUME NEW run, IsRun(run), NEW docs, NEW d \in Docids(Among(run, docs))
    PROVE  /\ Above(Among(run, docs), d) = Above(run, d) \cap docs
           /\ Cardinality(Above(Among(run, docs), d)) <= Cardinality(Above(run, d))
<1> DEFINE among == Among(run, docs)
<1>1. /\ Docids(among) = Docids(run) \cap docs
      /\ \A e \in Docids(run) \cap docs : ScoreOf(among, e) = ScoreOf(run, e)
  BY AmongIs
<1> HIDE DEF among
<1>2. d \in Docids(run) \cap docs
  BY <1>1 DEF among
<1>3. \A e : e \in Above(among, d) <=> e \in Above(run, d) \cap docs
  BY <1>1, <1>2 DEF Above
<1>4. Above(among, d) = Above(run, d) \cap docs
  BY <1>3
<1>5. Above(among, d) \in SUBSET Above(run, d)
  BY <1>4
<1>6. Cardinality(Above(among, d)) <= Cardinality(Above(run, d))
  BY <1>5, AboveFinite, FS_Subset
<1> QED BY <1>4, <1>6 DEF among

\* A document above one that the metrics look at is looked at.
LEMMA AboveTop ==
    ASSUME NEW run, IsRun(run), NEW d \in TopOf(run), NEW e \in Above(run, d)
    PROVE  e \in TopOf(run)
<1>1. d \in Docids(run) /\ Cardinality(Above(run, d)) < Cut /\ e \in Docids(run)
  BY TopOfIs DEF Above
<1>2. ScoreOf(run, d) \in Nat /\ ScoreOf(run, e) \in Nat /\ d \in Nat /\ e \in Nat
  BY <1>1, ScoreType, DocidsCounted
<1>3. \A x \in Docids(run) : ScoreOf(run, x) \in Nat /\ x \in Nat
  BY ScoreType, DocidsCounted
<1>4. \A x \in Above(run, e) : x \in Above(run, d)
  BY <1>1, <1>2, <1>3 DEF Above
<1>5. Above(run, e) \in SUBSET Above(run, d)
  BY <1>4
<1>6. Cardinality(Above(run, e)) <= Cardinality(Above(run, d))
  BY <1>5, AboveFinite, FS_Subset
<1>7. Cardinality(Above(run, e)) \in Nat /\ Cardinality(Above(run, d)) \in Nat /\ Cut \in Nat
  BY AboveFinite, CascadeAssumption
<1>8. Cardinality(Above(run, e)) < Cut
  BY <1>1, <1>6, <1>7
<1> QED BY <1>1, <1>8, TopOfIs

\* What the cascade misses of the evaluated documents are survivors' losses.
LEMMA MissedIsLost ==
    ASSUME IsRun(allScores), TopIsSeparate, NEW survivors
    PROVE  TopOf(allScores) \ TopOf(Among(allScores, survivors)) \subseteq TrueTopK \ survivors
<1> SUFFICES ASSUME NEW d \in TopOf(allScores), d \notin TopOf(Among(allScores, survivors))
             PROVE  d \in TrueTopK /\ d \notin survivors
  OBVIOUS
<1>1. d \in TrueTopK
  BY EvaluatedIsTrueTop
<1>2. ASSUME d \in survivors PROVE FALSE
  <2>1. d \in Docids(allScores) /\ Cardinality(Above(allScores, d)) < Cut
    BY TopOfIs
  <2>2. IsRun(Among(allScores, survivors)) /\ d \in Docids(Among(allScores, survivors))
    BY <1>2, <2>1, AmongIs
  <2>3. Cardinality(Above(Among(allScores, survivors), d)) <= Cardinality(Above(allScores, d))
    BY <2>2, AboveAmong
  <2>4. /\ Cardinality(Above(Among(allScores, survivors), d)) \in Nat
        /\ Cardinality(Above(allScores, d)) \in Nat /\ Cut \in Nat
    BY <2>2, AboveFinite, CascadeAssumption
  <2>5. Cardinality(Above(Among(allScores, survivors), d)) < Cut
    BY <2>1, <2>3, <2>4
  <2> QED BY <2>2, <2>5, TopOfIs
<1> QED BY <1>1, <1>2

\* When the whole top survives, the metrics see the same ranking.
LEMMA NothingLost ==
    ASSUME IsRun(allScores), TopIsSeparate, NEW survivors, TrueTopK \subseteq survivors
    PROVE  Take(RankedDocids(allScores), Cut)
              = Take(RankedDocids(Among(allScores, survivors)), Cut)
<1> DEFINE among == Among(allScores, survivors)
           a == RankedDocids(allScores)
           b == RankedDocids(among)
           D == Docids(allScores)
<1>1. /\ IsRun(among) /\ Docids(among) = D \cap survivors
      /\ \A d \in D \cap survivors : ScoreOf(among, d) = ScoreOf(allScores, d)
  BY AmongIs
<1>2. /\ a \in Seq(D) /\ Len(a) = Len(allScores)
      /\ \A p \in 1 .. Len(allScores) : a[p] \in D /\ p = 1 + Cardinality(Above(allScores, a[p]))
  BY RankedIs
<1>3. /\ b \in Seq(D) /\ Len(b) = Len(among)
      /\ \A d \in Docids(among) : b[1 + Cardinality(Above(among, d))] = d
  <2>1. b \in Seq(Docids(among)) /\ Docids(among) \subseteq D
    BY <1>1, RankedIs
  <2>2. b \in Seq(D)
    BY <2>1, SeqMonotonic
  <2> QED BY <1>1, <2>2, RankedIs
<1>4. /\ Cut \in Nat /\ TopK \in Nat /\ Cut <= TopK
      /\ Len(allScores) \in Nat /\ Len(among) \in Nat
  BY <1>1, CascadeAssumption, RunFacts
<1>5. /\ IsFiniteSet(D) /\ Cardinality(D) = Len(allScores)
      /\ IsFiniteSet(Docids(among)) /\ Cardinality(Docids(among)) = Len(among)
  BY <1>1, DocidsCounted
<1>6. (IF Cut < Len(allScores) THEN Cut ELSE Len(allScores))
         = (IF Cut < Len(among) THEN Cut ELSE Len(among))
  <2>1. TrueTopK \in SUBSET Docids(among) /\ Docids(among) \in SUBSET D
    BY <1>1, TrueTopKIs
  <2>2. Cardinality(TrueTopK) <= Len(among) /\ Len(among) <= Len(allScores)
    BY <1>5, <2>1, FS_Subset
  <2>3. Cardinality(TrueTopK) = IF TopK < Len(allScores) THEN TopK ELSE Len(allScores)
    BY TrueTopKIs
  <2> QED BY <1>4, <2>2, <2>3
<1> HIDE DEF a, b, among
<1>7. /\ Take(a, Cut) \in Seq(D) /\ Take(b, Cut) \in Seq(D)
      /\ Len(Take(a, Cut)) = Len(Take(b, Cut))
      /\ Len(Take(a, Cut)) <= Cut /\ Len(Take(a, Cut)) <= Len(allScores)
      /\ \A p \in 1 .. Len(Take(a, Cut)) : Take(a, Cut)[p] = a[p] /\ Take(b, Cut)[p] = b[p]
  <2>1. /\ Take(a, Cut) \in Seq(D)
        /\ Len(Take(a, Cut)) = IF Cut < Len(allScores) THEN Cut ELSE Len(allScores)
        /\ DOMAIN Take(a, Cut) = 1 .. (IF Cut < Len(allScores) THEN Cut ELSE Len(allScores))
        /\ \A p \in DOMAIN Take(a, Cut) : Take(a, Cut)[p] = a[p]
    BY <1>2, <1>4, TakeIs
  <2>2. /\ Take(b, Cut) \in Seq(D)
        /\ Len(Take(b, Cut)) = IF Cut < Len(among) THEN Cut ELSE Len(among)
        /\ DOMAIN Take(b, Cut) = 1 .. (IF Cut < Len(among) THEN Cut ELSE Len(among))
        /\ \A p \in DOMAIN Take(b, Cut) : Take(b, Cut)[p] = b[p]
    BY <1>3, <1>4, TakeIs
  <2> QED BY <1>4, <1>6, <2>1, <2>2
<1>8. ASSUME NEW p \in 1 .. Len(Take(a, Cut)) PROVE Take(a, Cut)[p] = Take(b, Cut)[p]
  <2> DEFINE d == a[p]
  <2>1. Len(Take(a, Cut)) \in Nat
    BY <1>7, LenProperties
  <2>2. p \in 1 .. Len(allScores) /\ p \in Nat /\ p <= Cut
    BY <1>4, <1>7, <2>1
  <2>3. d \in D /\ p = 1 + Cardinality(Above(allScores, d))
    BY <1>2, <2>2
  <2> HIDE DEF d
  <2>4. Cardinality(Above(allScores, d)) \in Nat
    BY AboveFinite
  <2>5. d \in TopOf(allScores)
    <3>1. Cardinality(Above(allScores, d)) < Cut
      BY <1>4, <2>2, <2>3, <2>4
    <3> QED BY <2>3, <3>1, TopOfIs
  <2>6. \A e \in Above(allScores, d) : e \in survivors
    BY <2>5, AboveTop, EvaluatedIsTrueTop
  <2>7. d \in Docids(among)
    BY <1>1, <2>3, <2>5, EvaluatedIsTrueTop
  <2>8. Above(among, d) = Above(allScores, d)
    BY <2>6, <2>7, AboveAmong DEF among
  <2>9. b[p] = d
    BY <1>3, <2>3, <2>7, <2>8
  <2> QED BY <1>7, <2>9 DEF d
<1>9. Take(a, Cut) = Take(b, Cut)
  BY <1>7, <1>8, SeqEqual
<1> QED BY <1>9 DEF a, b, among

-------------------------------------------------------------------------------
(* Fusion *)

LEMMA ExactDivision ==
    ASSUME NEW u \in Nat, NEW a \in Nat, a > 0, u % a = 0
    PROVE  u = a * (u \div a) /\ u \div a \in Nat
<1>1. u = a * (u \div a) + (u % a)
  BY SMT
<1>2. u \div a \in Int /\ a * (u \div a) \in Int
  BY SMT
<1>3. u \div a >= 0
  BY SMT
<1> QED BY <1>1, <1>2, <1>3

LEMMA SmallerFactor ==
    ASSUME NEW a \in Nat, NEW b \in Nat, NEW p \in Nat, NEW q \in Nat,
           a < b, q > 0, a * p = b * q
    PROVE  p > q
<1> SUFFICES ASSUME p <= q PROVE FALSE
  OBVIOUS
<1>1. a * p <= a * q
  BY SMT
<1>2. a * q < b * q
  BY SMT
<1>3. a * p \in Int /\ a * q \in Int /\ b * q \in Int
  BY SMT
<1> QED BY <1>1, <1>2, <1>3

\* What a channel of a fusion may be.
IsChannel(run) ==
    IsRun(run) /\ Len(run) <= Depth /\ \A i \in DOMAIN run : run[i].score \in Levels

LEMMA RankShare ==
    ASSUME NEW a \in 1 .. Depth
    PROVE  /\ RrfUnit \div (RrfK + a) \in Nat /\ RrfUnit \div (RrfK + a) > 0
           /\ RrfUnit = (RrfK + a) * (RrfUnit \div (RrfK + a))
<1> DEFINE k == RrfK + a
           q == RrfUnit \div k
<1>1. RrfUnit \in Nat /\ RrfUnit > 0 /\ Depth \in Nat
  BY UnitAssumption, CascadeAssumption
<1>2. k \in Nat /\ k > 0 /\ RrfUnit % k = 0
  BY <1>1, UnitAssumption DEF RrfK
<1> HIDE DEF k
<1>3. RrfUnit = k * q /\ q \in Nat
  BY <1>1, <1>2, ExactDivision
<1> HIDE DEF q
<1>4. q # 0
  <2> SUFFICES ASSUME q = 0 PROVE FALSE
    OBVIOUS
  <2>1. k * q = 0
    BY <1>2
  <2> QED BY <1>1, <1>3, <2>1
<1>5. q > 0
  BY <1>3, <1>4
<1> QED BY <1>3, <1>5 DEF k, q

\* A document's share of a channel is positive, and larger the higher its
\* score.
LEMMA SharesAre ==
    ASSUME NEW channel, IsChannel(channel), NEW shares,
           shares = ReciprocalRankShares(channel)
    PROVE  /\ DOMAIN shares = Docids(channel)
           /\ \A d \in Docids(channel) : shares[d] \in Nat /\ shares[d] > 0
           /\ \A d, e \in Docids(channel) :
                 ScoreOf(channel, d) > ScoreOf(channel, e) => shares[d] > shares[e]
<1> DEFINE D == DOMAIN channel
           R == ByScore(channel)
           ranked == Sorted(channel, R)
<1>1. IsRun(channel) /\ Len(channel) <= Depth /\ Depth \in Nat
  BY CascadeAssumption DEF IsChannel
<1>2. /\ StrictTotal(D, R) /\ D = 1 .. Len(channel) /\ Len(channel) \in Nat
      /\ \A i \in D : channel[i].score \in Nat
  BY <1>1, ScoreTotal, RunFacts
<1>3. /\ IsRun(ranked) /\ DOMAIN ranked = D
      /\ \A i \in D : Place(channel, R, i) \in D /\ ranked[Place(channel, R, i)] = channel[i]
      /\ \A i, j \in D : <<j, i>> \in R <=> Place(channel, R, j) < Place(channel, R, i)
  BY <1>1, <1>2, SortedIs
<1>4. \A i, j \in D : channel[j].score > channel[i].score => <<j, i>> \in R
  BY DEF ByScore
<1>5. /\ DOMAIN shares = Docids(channel)
      /\ \A d \in Docids(channel) : shares[d] = RrfUnit \div (RrfK + Rank(ranked, d))
  BY DEF ReciprocalRankShares
<1> HIDE DEF R, ranked
<1>6. ASSUME NEW i \in D PROVE Rank(ranked, channel[i].doc) = Place(channel, R, i)
  <2>1. \A r \in D : ranked[r].doc = channel[i].doc => r = Place(channel, R, i)
    BY <1>3 DEF IsRun
  <2>2. Place(channel, R, i) \in D /\ ranked[Place(channel, R, i)].doc = channel[i].doc
    BY <1>3
  <2> QED BY <1>3, <2>1, <2>2 DEF Rank
<1>7. ASSUME NEW i \in D
      PROVE  /\ shares[channel[i].doc] = RrfUnit \div (RrfK + Place(channel, R, i))
             /\ Place(channel, R, i) \in 1 .. Depth
             /\ shares[channel[i].doc] \in Nat /\ shares[channel[i].doc] > 0
             /\ RrfUnit = (RrfK + Place(channel, R, i)) * shares[channel[i].doc]
  <2>1. channel[i].doc \in Docids(channel)
    BY DEF Docids
  <2>2. shares[channel[i].doc] = RrfUnit \div (RrfK + Place(channel, R, i))
    BY <1>5, <1>6, <2>1
  <2>3. Place(channel, R, i) \in 1 .. Depth
    BY <1>1, <1>2, <1>3
  <2> QED BY <2>2, <2>3, RankShare
<1>8. ASSUME NEW d \in Docids(channel) PROVE shares[d] \in Nat /\ shares[d] > 0
  <2>1. PICK i \in D : channel[i].doc = d
    BY DEF Docids
  <2> QED BY <1>7, <2>1
<1>9. ASSUME NEW d \in Docids(channel), NEW e \in Docids(channel),
             ScoreOf(channel, d) > ScoreOf(channel, e)
      PROVE  shares[d] > shares[e]
  <2>1. PICK i \in D : channel[i].doc = d /\ ScoreOf(channel, d) = channel[i].score
    BY <1>1, ScoreType
  <2>2. PICK j \in D : channel[j].doc = e /\ ScoreOf(channel, e) = channel[j].score
    BY <1>1, ScoreType
  <2> DEFINE a == RrfK + Place(channel, R, i)
             b == RrfK + Place(channel, R, j)
  <2>3. Place(channel, R, i) < Place(channel, R, j)
    BY <1>3, <1>4, <1>9, <2>1, <2>2
  <2>4. a \in Nat /\ b \in Nat /\ a < b
    BY <1>1, <1>7, <2>3 DEF RrfK
  <2>5. RrfUnit = a * shares[d] /\ RrfUnit = b * shares[e]
    BY <1>7, <2>1, <2>2
  <2>6. shares[d] \in Nat /\ shares[e] \in Nat /\ shares[e] > 0
    BY <1>8
  <2> HIDE DEF a, b
  <2> QED BY <2>4, <2>5, <2>6, SmallerFactor
<1> QED BY <1>5, <1>8, <1>9

LEMMA LargerMultiple ==
    ASSUME NEW q \in Nat, q > 0, NEW x \in Nat, NEW y \in Nat, x > y
    PROVE  q * x \in Nat /\ q * y \in Nat /\ q * x > q * y
BY SMT

\* The best and the worst score of a channel.
LEMMA Extremes ==
    ASSUME NEW channel, IsChannel(channel), NEW scores, scores # {},
           scores = {channel[i].score : i \in DOMAIN channel}
    PROVE  /\ \E lo \in scores : \A y \in scores : lo <= y
           /\ \E hi \in scores : \A y \in scores : hi >= y
           /\ scores \subseteq Nat
<1> DEFINE D == DOMAIN channel
           R == ByScore(channel)
<1>1. /\ IsRun(channel) /\ D = 1 .. Len(channel) /\ Len(channel) \in Nat
      /\ \A i \in D : channel[i].score \in Nat
  BY RunFacts DEF IsChannel
<1>2. scores \subseteq Nat
  BY <1>1
<1>3. \E lo \in scores : \A y \in scores : lo <= y
  BY <1>2, LeastNat
<1>4. PICK k \in D : TRUE
  OBVIOUS
<1>5. /\ \A i \in D : Place(channel, R, i) \in D
      /\ \A i, j \in D : <<j, i>> \in R <=> Place(channel, R, j) < Place(channel, R, i)
      /\ \A p \in D : \E i \in D : Place(channel, R, i) = p
  BY <1>1, ScoreTotal, SortedIs
<1>6. \A i, j \in D : channel[j].score > channel[i].score => <<j, i>> \in R
  BY DEF ByScore
<1> HIDE DEF R
<1>7. 1 \in D
  BY <1>1, <1>4
<1>8. PICK i \in D : Place(channel, R, i) = 1
  BY <1>5, <1>7
<1>9. ASSUME NEW j \in D PROVE channel[i].score >= channel[j].score
  <2>1. Place(channel, R, j) \in Nat /\ ~(Place(channel, R, j) < 1)
    <3>1. Place(channel, R, j) \in 1 .. Len(channel)
      BY <1>1, <1>5
    <3> QED BY <1>1, <3>1
  <2>2. ~(channel[j].score > channel[i].score)
    BY <1>5, <1>6, <1>8, <2>1
  <2> QED BY <1>1, <2>2
<1>10. channel[i].score \in scores /\ \A y \in scores : channel[i].score >= y
  BY <1>9
<1> QED BY <1>2, <1>3, <1>10

\* Normalising keeps the order of the scores.
LEMMA NormalizedAre ==
    ASSUME NEW channel, IsChannel(channel), NEW normal, normal = MinMaxNormalize(channel)
    PROVE  /\ DOMAIN normal = Docids(channel)
           /\ \A d \in Docids(channel) : normal[d] \in Nat
           /\ \A d, e \in Docids(channel) :
                 ScoreOf(channel, d) > ScoreOf(channel, e) => normal[d] > normal[e]
<1> DEFINE scores == {channel[i].score : i \in DOMAIN channel}
           lo == CHOOSE x \in scores : \A y \in scores : x <= y
           hi == CHOOSE x \in scores : \A y \in scores : x >= y
           q == ScoreUnit \div (hi - lo)
<1>1. /\ DOMAIN normal = Docids(channel)
      /\ \A d \in Docids(channel) :
            normal[d] = IF lo = hi THEN 0 ELSE q * (ScoreOf(channel, d) - lo)
  BY DEF MinMaxNormalize
<1>2. IsRun(channel) /\ \A i \in DOMAIN channel : channel[i].score \in Levels
  BY DEF IsChannel
<1>3. scores \subseteq Levels
  BY <1>2
<1>4. \A d \in Docids(channel) : ScoreOf(channel, d) \in scores
  BY <1>2, ScoreType
<1> SUFFICES ASSUME scores # {}
             PROVE  /\ \A d \in Docids(channel) : normal[d] \in Nat
                    /\ \A d, e \in Docids(channel) :
                          ScoreOf(channel, d) > ScoreOf(channel, e) => normal[d] > normal[e]
  BY <1>1, <1>4
<1>5. /\ \E x \in scores : \A y \in scores : x <= y
      /\ \E x \in scores : \A y \in scores : x >= y
      /\ scores \subseteq Nat
  BY Extremes
<1> HIDE DEF scores
<1>6. /\ lo \in scores /\ \A y \in scores : lo <= y
      /\ hi \in scores /\ \A y \in scores : hi >= y
  BY <1>5
<1> HIDE DEF lo, hi
<1>7. lo \in Nat /\ hi \in Nat /\ lo <= hi
  BY <1>5, <1>6
<1>8. ASSUME lo # hi PROVE q \in Nat /\ q > 0
  <2>1. hi > lo /\ hi - lo \in Nat /\ hi - lo > 0
    BY <1>7, <1>8
  <2>2. ScoreUnit \in Nat /\ ScoreUnit > 0 /\ ScoreUnit % (hi - lo) = 0
    BY <1>3, <1>6, <2>1, UnitAssumption
  <2> DEFINE w == hi - lo
  <2>3. w \in Nat /\ w > 0 /\ ScoreUnit % w = 0
    BY <2>1, <2>2
  <2> HIDE DEF w
  <2>4. ScoreUnit = w * (ScoreUnit \div w) /\ ScoreUnit \div w \in Nat
    BY <2>2, <2>3, ExactDivision
  <2>5. ScoreUnit \div w # 0
    <3> SUFFICES ASSUME ScoreUnit \div w = 0 PROVE FALSE
      OBVIOUS
    <3>1. w * (ScoreUnit \div w) = 0
      BY <2>3
    <3> QED BY <2>2, <2>4, <3>1
  <2>6. ScoreUnit \div w > 0
    BY <2>4, <2>5
  <2> QED BY <2>4, <2>6 DEF w
<1> HIDE DEF q
<1>9. ASSUME NEW d \in Docids(channel) PROVE normal[d] \in Nat
  <2>1. ScoreOf(channel, d) \in Nat /\ lo <= ScoreOf(channel, d)
    BY <1>4, <1>5, <1>6
  <2>2. CASE lo = hi
    BY <1>1, <2>2
  <2>3. CASE lo # hi
    <3>1. q \in Nat /\ ScoreOf(channel, d) - lo \in Nat
      BY <1>7, <1>8, <2>1, <2>3
    <3>2. q * (ScoreOf(channel, d) - lo) \in Nat
      BY <3>1
    <3> QED BY <1>1, <2>3, <3>2
  <2> QED BY <2>2, <2>3
<1>10. ASSUME NEW d \in Docids(channel), NEW e \in Docids(channel),
              ScoreOf(channel, d) > ScoreOf(channel, e)
       PROVE  normal[d] > normal[e]
  <2>1. /\ ScoreOf(channel, d) \in Nat /\ lo <= ScoreOf(channel, d) /\ hi >= ScoreOf(channel, d)
        /\ ScoreOf(channel, e) \in Nat /\ lo <= ScoreOf(channel, e)
    BY <1>4, <1>5, <1>6
  <2>2. lo # hi
    BY <1>7, <1>10, <2>1
  <2> DEFINE x == ScoreOf(channel, d) - lo
             y == ScoreOf(channel, e) - lo
  <2>3. x \in Nat /\ y \in Nat /\ x > y
    BY <1>7, <1>10, <2>1
  <2>4. normal[d] = q * x /\ normal[e] = q * y
    BY <1>1, <2>2
  <2> HIDE DEF x, y
  <2> QED BY <1>8, <2>2, <2>3, <2>4, LargerMultiple
<1> QED BY <1>9, <1>10

\* A fused score is the sum of the shares, 0 for a channel that did not
\* retrieve the document.
LEMMA FusedIs ==
    ASSUME NEW a, NEW b, NEW fused, fused = AddShares(AddShares(<<>>, a), b),
           \A d \in DOMAIN a : a[d] \in Nat,
           NEW d \in (DOMAIN a) \cup (DOMAIN b)
    PROVE  fused[d] = (IF d \in DOMAIN a THEN a[d] ELSE 0) + (IF d \in DOMAIN b THEN b[d] ELSE 0)
<1> DEFINE first == AddShares(<<>>, a)
<1>1. DOMAIN <<>> = {}
  <2>1. <<>> \in Seq(Nat) /\ Len(<<>>) = 0
    BY EmptySeq
  <2>2. DOMAIN <<>> = 1 .. 0
    BY <2>1, LenProperties
  <2> QED BY <2>2
<1>2. /\ DOMAIN first = DOMAIN a
      /\ \A x \in DOMAIN a : first[x] = 0 + a[x]
  BY <1>1 DEF AddShares
<1>3. \A x \in DOMAIN a : first[x] = a[x]
  BY <1>2
<1>4. fused[d] = (IF d \in DOMAIN first THEN first[d] ELSE 0) + (IF d \in DOMAIN b THEN b[d] ELSE 0)
  <2> HIDE DEF first
  <2>1. fused = AddShares(first, b)
    BY DEF first
  <2>2. d \in DOMAIN first \cup DOMAIN b
    BY <1>2
  <2> QED BY <2>1, <2>2 DEF AddShares
<1> HIDE DEF first
<1> QED BY <1>2, <1>3, <1>4

\* Where the channels agree, so do both fusions.
LEMMA FusionAgrees ==
    ASSUME IsChannel(wand), IsChannel(dense)
    PROVE  LET lexical == ReadRun(wand)
               Beats(run, d, e) == e \in Docids(run) => ScoreOf(run, d) > ScoreOf(run, e)
               Both == Docids(lexical) \cap Docids(dense)
               rrf == FuseRun("rrf")
               score == FuseRun("score")
           IN  \A d \in Both : \A e \in Docids(lexical) \cup Docids(dense) :
                  d # e /\ Beats(lexical, d, e) /\ Beats(dense, d, e) =>
                     /\ rrf[d] > rrf[e]
                     /\ e \in Both => score[d] > score[e]
<1> DEFINE both == Docids(wand) \cap Docids(dense)
           rrf == FuseRun("rrf")
           score == FuseRun("score")
           ls == ReciprocalRankShares(wand)
           ds == ReciprocalRankShares(dense)
           ln == MinMaxNormalize(wand)
           dn == MinMaxNormalize(dense)
<1>1. ReadRun(wand) = wand
  BY ReadRunIs DEF IsChannel
<1>2. rrf = AddShares(AddShares(<<>>, ls), ds) /\ score = AddShares(AddShares(<<>>, ln), dn)
  BY <1>1 DEF FuseRun, ReciprocalRankFusion, NormalizedScoreFusion
<1>3. /\ DOMAIN ls = Docids(wand)
      /\ \A d \in Docids(wand) : ls[d] \in Nat /\ ls[d] > 0
      /\ \A d, e \in Docids(wand) : ScoreOf(wand, d) > ScoreOf(wand, e) => ls[d] > ls[e]
  BY SharesAre
<1>4. /\ DOMAIN ds = Docids(dense)
      /\ \A d \in Docids(dense) : ds[d] \in Nat /\ ds[d] > 0
      /\ \A d, e \in Docids(dense) : ScoreOf(dense, d) > ScoreOf(dense, e) => ds[d] > ds[e]
  BY SharesAre
<1>5. /\ DOMAIN ln = Docids(wand)
      /\ \A d \in Docids(wand) : ln[d] \in Nat
      /\ \A d, e \in Docids(wand) : ScoreOf(wand, d) > ScoreOf(wand, e) => ln[d] > ln[e]
  BY NormalizedAre
<1>6. /\ DOMAIN dn = Docids(dense)
      /\ \A d \in Docids(dense) : dn[d] \in Nat
      /\ \A d, e \in Docids(dense) : ScoreOf(dense, d) > ScoreOf(dense, e) => dn[d] > dn[e]
  BY NormalizedAre
<1> HIDE DEF rrf, score, ls, ds, ln, dn
<1>7. ASSUME NEW d \in Docids(wand) \cup Docids(dense)
      PROVE  /\ rrf[d] = (IF d \in Docids(wand) THEN ls[d] ELSE 0)
                            + (IF d \in Docids(dense) THEN ds[d] ELSE 0)
             /\ score[d] = (IF d \in Docids(wand) THEN ln[d] ELSE 0)
                              + (IF d \in Docids(dense) THEN dn[d] ELSE 0)
  <2>1. rrf[d] = (IF d \in DOMAIN ls THEN ls[d] ELSE 0) + (IF d \in DOMAIN ds THEN ds[d] ELSE 0)
    BY <1>2, <1>3, <1>4, FusedIs
  <2>2. score[d] = (IF d \in DOMAIN ln THEN ln[d] ELSE 0) + (IF d \in DOMAIN dn THEN dn[d] ELSE 0)
    BY <1>2, <1>5, <1>6, FusedIs
  <2> QED BY <1>3, <1>4, <1>5, <1>6, <2>1, <2>2
<1>8. ASSUME NEW d \in both, NEW e \in Docids(wand) \cup Docids(dense),
             e \in Docids(wand) => ScoreOf(wand, d) > ScoreOf(wand, e),
             e \in Docids(dense) => ScoreOf(dense, d) > ScoreOf(dense, e)
      PROVE  rrf[d] > rrf[e] /\ (e \in both => score[d] > score[e])
  <2>1. /\ rrf[d] = ls[d] + ds[d] /\ score[d] = ln[d] + dn[d]
        /\ ls[d] \in Nat /\ ls[d] > 0 /\ ds[d] \in Nat /\ ds[d] > 0
        /\ ln[d] \in Nat /\ dn[d] \in Nat
    BY <1>3, <1>4, <1>5, <1>6, <1>7
  <2>2. CASE e \in both
    <3>1. rrf[e] = ls[e] + ds[e] /\ score[e] = ln[e] + dn[e]
      BY <1>7, <2>2
    <3>2. ls[e] \in Nat /\ ds[e] \in Nat /\ ln[e] \in Nat /\ dn[e] \in Nat
      BY <1>3, <1>4, <1>5, <1>6, <2>2
    <3>3. ls[d] > ls[e] /\ ds[d] > ds[e] /\ ln[d] > ln[e] /\ dn[d] > dn[e]
      BY <1>3, <1>4, <1>5, <1>6, <1>8, <2>2
    <3> QED BY <2>1, <3>1, <3>2, <3>3
  <2>3. CASE e \in Docids(wand) /\ e \notin Docids(dense)
    <3>1. rrf[e] = ls[e] + 0
      BY <1>7, <2>3
    <3>2. ls[e] \in Nat /\ ls[d] > ls[e]
      BY <1>3, <1>8, <2>3
    <3> QED BY <2>1, <2>3, <3>1, <3>2
  <2>4. CASE e \in Docids(dense) /\ e \notin Docids(wand)
    <3>1. rrf[e] = 0 + ds[e]
      BY <1>7, <2>4
    <3>2. ds[e] \in Nat /\ ds[d] > ds[e]
      BY <1>4, <1>8, <2>4
    <3> QED BY <2>1, <2>4, <3>1, <3>2
  <2> QED BY <2>2, <2>3, <2>4
<1> QED BY <1>1, <1>8 DEF rrf, score

-------------------------------------------------------------------------------
(* The inductive invariant *)

\* A run as its file has it.
InFileOrder(lines) ==
    \A i, j \in DOMAIN lines : i < j => <<i, j>> \in ByScoreAndDocid(lines)

\* The stages at which a query has its metrics, its survivors, its scores, its
\* features and its run.
HasMetrics   == {"evaluated", "rescored"}
HasSurvivors == {"preranked", "failed"} \cup HasMetrics
HasScores    == {"scored"} \cup HasSurvivors
HasFeatures  == {"encoded", "trained"} \cup HasScores
HasRun       == {"searched", "fused"} \cup HasFeatures

StageOk == querySet \in {"dev", "dl"} /\ stage \in {"start"} \cup HasRun

WandOk == stage \in HasRun => IsChannel(wand) /\ Docids(wand) \subseteq Docs /\ InFileOrder(wand)

EncodedOk ==
    stage \in HasFeatures =>
        encoded = Docids(IF querySet = "dev" THEN TruncateToTopK(ReadRun(wand), PoolDepth)
                         ELSE ReadRun(wand))

SampleOk ==
    stage = "trained" =>
        /\ querySet = "dev"
        /\ examples # Empty =>
              /\ Cardinality({d \in DOMAIN examples : examples[d] = 1}) = 1
              /\ \/ Cardinality(DOMAIN examples) = NumNegatives + 1
                 \/ DOMAIN examples = Docids(TruncateToTopK(ReadRun(wand), PoolDepth))

ScoresOk ==
    stage \in HasScores =>
        /\ querySet = "dl"
        /\ IsRun(allScores) /\ Docids(allScores) = Docids(wand)

PrerankOk ==
    stage \in HasSurvivors =>
        \E score \in [encoded -> Levels] :
            /\ consistency = PrerankConsistency(TrueTopK, Survivors(score))
            /\ fusedRun = Among(allScores, Survivors(score))

EvaluatedOk ==
    stage \in HasMetrics =>
        \E others \in {0, TopK} :
            /\ fp32 = Evaluate(qrels, fusedRun, Cut, TopK, RelThreshold, others)
            /\ fp32.shallow = {}

RescoredOk == stage = "rescored" => precision = fp32

\* The assertion against metrics deeper than the run fails short runs only.
FailedOk == stage = "failed" => Len(wand) < TopK

DenseOk == stage = "fused" => IsChannel(dense)

CascadeInv ==
    /\ StageOk /\ WandOk /\ EncodedOk /\ SampleOk /\ ScoresOk /\ PrerankOk /\ EvaluatedOk
    /\ RescoredOk /\ FailedOk /\ DenseOk

-------------------------------------------------------------------------------
(* What the actions make *)

LEMMA RetrievedIs ==
    ASSUME NEW run \in Retrieved(Depth)
    PROVE  IsChannel(run) /\ Docids(run) \subseteq Docs
<1>1. Depth \in Nat /\ Docs \subseteq Nat /\ Levels \subseteq Nat
  BY CascadeAssumption
<1>2. \A i, j \in DOMAIN run : i < j => run[i].doc # run[j].doc
  BY DEF Retrieved
<1>3. PICK n \in 0 .. Depth : run \in [1 .. n -> [doc : Docs, score : Levels]]
  BY DEF Retrieved
<1>4. n \in Nat /\ n <= Depth /\ DOMAIN run = 1 .. n
  BY <1>1, <1>3
<1>5. \A i \in 1 .. n : run[i].doc \in Docs /\ run[i].score \in Levels /\ run[i] \in Hit
  BY <1>1, <1>3 DEF Hit
<1>6. run \in [1 .. n -> Hit]
  BY <1>3, <1>5
<1>7. \A i, j \in 1 .. n : i # j => run[i].doc # run[j].doc
  <2> SUFFICES ASSUME NEW i \in 1 .. n, NEW j \in 1 .. n, i # j
               PROVE  run[i].doc # run[j].doc
    OBVIOUS
  <2>1. i < j \/ j < i
    BY <1>4
  <2> QED BY <1>2, <1>4, <2>1
<1>8. IsRun(run) /\ Len(run) = n
  BY <1>4, <1>6, <1>7, RunOf
<1> QED BY <1>4, <1>5, <1>8 DEF IsChannel, Docids

LEMMA WriteRunIs ==
    ASSUME NEW run, IsChannel(run), Docids(run) \subseteq Docs, NEW lines,
           lines = WriteRun(run, Depth)
    PROVE  IsChannel(lines) /\ Docids(lines) \subseteq Docs /\ InFileOrder(lines)
<1> DEFINE D == DOMAIN run
           R == ByScoreAndDocid(run)
           sorted == Sorted(run, R)
<1>1. IsRun(run) /\ StrictTotal(D, R) /\ Depth \in Nat /\ D = 1 .. Len(run) /\ Len(run) \in Nat
  BY ScoreAndDocidTotal, RunFacts, CascadeAssumption DEF IsChannel
<1>2. /\ IsRun(sorted) /\ Len(sorted) = Len(run) /\ DOMAIN sorted = D
      /\ \A i \in D : Place(run, R, i) \in D /\ sorted[Place(run, R, i)] = run[i]
      /\ \A i, j \in D : <<j, i>> \in R <=> Place(run, R, j) < Place(run, R, i)
      /\ \A p \in D : \E i \in D : Place(run, R, i) = p
  BY <1>1, SortedIs
<1>3. lines = Take(sorted, Depth)
  BY DEF WriteRun
<1>4. \A i, j \in D : <<i, j>> \in R =>
         \/ run[i].score > run[j].score
         \/ run[i].score = run[j].score /\ run[i].doc > run[j].doc
  BY DEF ByScoreAndDocid
<1> HIDE DEF R, sorted
<1>5. /\ IsRun(lines) /\ Len(lines) <= Depth
      /\ \A p \in DOMAIN lines : p \in D /\ lines[p] = sorted[p]
  <2>1. sorted \in Seq(Hit)
    BY <1>2 DEF IsRun
  <2>2. /\ Len(lines) = IF Depth < Len(sorted) THEN Depth ELSE Len(sorted)
        /\ \A p \in DOMAIN lines : p \in DOMAIN sorted /\ lines[p] = sorted[p]
    BY <1>1, <1>3, <2>1, TakeIs
  <2>3. IsRun(lines)
    BY <1>1, <1>2, <1>3, TakeRun
  <2>4. Len(lines) <= Depth
    BY <1>1, <1>2, <2>2
  <2> QED BY <1>2, <2>2, <2>3, <2>4
<1>6. \A p \in DOMAIN lines : \E i \in D : Place(run, R, i) = p /\ lines[p] = run[i]
  BY <1>2, <1>5
<1>7. IsChannel(lines)
  BY <1>5, <1>6 DEF IsChannel
<1>8. Docids(lines) \subseteq Docs
  BY <1>6 DEF Docids
<1>9. ASSUME NEW p \in DOMAIN lines, NEW q \in DOMAIN lines, p < q
      PROVE  <<p, q>> \in ByScoreAndDocid(lines)
  <2>1. PICK i \in D : Place(run, R, i) = p /\ lines[p] = run[i]
    BY <1>6
  <2>2. PICK j \in D : Place(run, R, j) = q /\ lines[q] = run[j]
    BY <1>6
  <2>3. <<i, j>> \in R
    BY <1>2, <1>9, <2>1, <2>2
  <2>4. \/ lines[p].score > lines[q].score
        \/ lines[p].score = lines[q].score /\ lines[p].doc > lines[q].doc
    BY <1>4, <2>1, <2>2, <2>3
  <2> QED BY <2>4 DEF ByScoreAndDocid
<1> QED BY <1>7, <1>8, <1>9 DEF InFileOrder

\* What is streamed from the head of the file is what the sorting keeps.
LEMMA PoolIs ==
    ASSUME IsRun(wand), InFileOrder(wand),
           encoded = Docids(TruncateToTopK(ReadRun(wand), PoolDepth))
    PROVE  /\ TrainingPool = TruncateToTopK(ReadRun(wand), PoolDepth)
           /\ Available = TrainingPool
           /\ IsRun(Available)
<1>1. PoolDepth \in Nat
  BY CascadeAssumption
<1>2. TrainingPool = Take(wand, PoolDepth)
  BY <1>1, ReadRunTruncatedIs DEF TrainingPool
<1>3. Sorted(wand, ByScoreAndDocid(wand)) = wand
  BY ScoreAndDocidTotal, SortedAlready DEF InFileOrder
<1>4. TruncateToTopK(ReadRun(wand), PoolDepth) = Take(wand, PoolDepth)
  BY <1>3, ReadRunIs DEF TruncateToTopK
<1>5. IsRun(TrainingPool)
  BY <1>1, <1>2, TakeRun
<1>6. Available = TrainingPool
  <2>1. Docids(TrainingPool) \subseteq encoded
    BY <1>2, <1>4
  <2> QED BY <1>5, <2>1, AmongIs DEF Available
<1> QED BY <1>2, <1>4, <1>5, <1>6

Positives(labels) == {d \in DOMAIN labels : labels[d] = 1}

\* One positive, and as many negatives as asked for or all there are.
LEMMA SampleIs ==
    ASSUME NEW pool, IsFiniteSet(pool), NEW positive \in pool,
           NEW negatives \in Sampled(pool \ {positive}), NEW labels,
           DOMAIN labels = {positive} \cup negatives,
           \A d \in DOMAIN labels : labels[d] = IF d = positive THEN 1 ELSE 0
    PROVE  /\ Cardinality(Positives(labels)) = 1
           /\ \/ Cardinality(DOMAIN labels) = NumNegatives + 1
              \/ DOMAIN labels = pool
<1> DEFINE rest == pool \ {positive}
<1>1. /\ negatives \in SUBSET rest
      /\ Cardinality(negatives) = IF NumNegatives < Cardinality(rest) THEN NumNegatives
                                  ELSE Cardinality(rest)
  BY DEF Sampled
<1>2. DOMAIN labels = {positive} \cup negatives
  OBVIOUS
<1>3. Positives(labels) = {positive}
  BY <1>2 DEF Positives
<1>4. Cardinality({positive}) = 1
  BY FS_Singleton
<1>5. IsFiniteSet(rest) /\ positive \notin rest /\ rest \cup {positive} = pool
  BY FS_RemoveElement
<1> HIDE DEF rest
<1>6. IsFiniteSet(negatives) /\ (Cardinality(negatives) = Cardinality(rest) => negatives = rest)
  BY <1>1, <1>5, FS_Subset
<1>7. CASE NumNegatives < Cardinality(rest)
  <2>1. Cardinality(negatives) = NumNegatives
    BY <1>1, <1>7
  <2>2. Cardinality(negatives \cup {positive}) = Cardinality(negatives) + 1
    BY <1>1, <1>5, <1>6, FS_AddElement
  <2>3. DOMAIN labels = negatives \cup {positive}
    BY <1>2
  <2> QED BY <1>3, <1>4, <2>1, <2>2, <2>3
<1>8. CASE ~(NumNegatives < Cardinality(rest))
  <2>1. negatives = rest
    BY <1>1, <1>6, <1>8
  <2> QED BY <1>2, <1>3, <1>4, <1>5, <2>1
<1> QED BY <1>7, <1>8

\* The run of the second scoring ranks as the first.
LEMMA RescoredRun ==
    ASSUME IsRun(allScores), NEW survivors, NEW order,
           order \in SetToSeqs(Docids(Among(allScores, survivors))), NEW run,
           run = [i \in DOMAIN order |->
                     [doc |-> order[i], score |-> ScoreOf(allScores, order[i])]]
    PROVE  /\ RankedDocids(run) = RankedDocids(Among(allScores, survivors))
           /\ Len(run) = Len(Among(allScores, survivors)) /\ Len(run) \in Nat
<1> DEFINE among == Among(allScores, survivors)
           D == Docids(among)
           n == Cardinality(D)
<1>1. /\ IsRun(among) /\ D \subseteq Docids(allScores)
      /\ \A d \in D : ScoreOf(among, d) = ScoreOf(allScores, d)
  BY AmongIs
<1>2. IsFiniteSet(D) /\ n = Len(among) /\ n \in Nat /\ D \subseteq Nat
  BY <1>1, DocidsCounted, RunFacts
<1>3. order \in [1 .. n -> D] /\ \A i, j \in 1 .. n : i # j => order[i] # order[j]
  BY DEF SetToSeqs
<1> HIDE DEF among, D, n
<1>4. \A d \in D : ScoreOf(allScores, d) \in Nat
  BY <1>1, ScoreType
<1>5. DOMAIN order = 1 .. n
  BY <1>3
<1>6. \A i \in 1 .. n : /\ run[i].doc = order[i]
                        /\ run[i].score = ScoreOf(allScores, order[i])
                        /\ run[i] \in Hit
  BY <1>2, <1>3, <1>4, <1>5 DEF Hit
<1>7. run \in [1 .. n -> Hit]
  BY <1>5, <1>6
<1>8. IsRun(run) /\ Len(run) = n /\ DOMAIN run = 1 .. n
  BY <1>2, <1>3, <1>6, <1>7, RunOf
<1>9. \A d \in D : \E i \in 1 .. n : order[i] = d
  <2> DEFINE I == 1 .. n
  <2>1. IsFiniteSet(I) /\ Cardinality(I) = n
    <3>1. 1 \in Int /\ n \in Int /\ n \in Nat
      BY <1>2
    <3>2. IsFiniteSet(1 .. n) /\ Cardinality(1 .. n) = IF 1 > n THEN 0 ELSE n - 1 + 1
      BY <3>1, FS_Interval
    <3> QED BY <3>1, <3>2
  <2>2. order \in [I -> D] /\ \A i, j \in I : i # j => order[i] # order[j]
    BY <1>3
  <2> HIDE DEF I
  <2>3. Cardinality(I) = Cardinality(D)
    BY <2>1 DEF n
  <2>4. \A d \in D : \E i \in I : order[i] = d
    BY <1>2, <2>1, <2>2, <2>3, InjectiveIsOnto
  <2> QED BY <2>4 DEF I
<1>10. \A d : d \in Docids(run) <=> d \in D
  BY <1>3, <1>6, <1>8, <1>9 DEF Docids
<1>11. Docids(run) = D
  BY <1>10
<1>12. ASSUME NEW d \in D PROVE ScoreOf(run, d) = ScoreOf(among, d)
  <2>1. PICK i \in 1 .. n : order[i] = d
    BY <1>9
  <2>2. ScoreOf(run, run[i].doc) = run[i].score
    BY <1>8, ScoreIs
  <2> QED BY <1>1, <1>6, <2>1, <2>2
<1>13. RankedDocids(run) = RankedDocids(among)
  BY <1>1, <1>8, <1>11, <1>12, SameRanking DEF D
<1> QED BY <1>2, <1>8, <1>13 DEF among

\* Evaluation looks at a run's ranking and length only.
LEMMA EvaluateSame ==
    ASSUME NEW run, NEW other, RankedDocids(run) = RankedDocids(other), Len(run) = Len(other),
           Len(run) \in Nat, NEW judgments, NEW others,
           Evaluate(judgments, other, Cut, TopK, RelThreshold, others).shallow = {}
    PROVE  Evaluate(judgments, run, Cut, TopK, RelThreshold, TopK)
              = Evaluate(judgments, other, Cut, TopK, RelThreshold, others)
<1>1. Ndcg(judgments, run, Cut) = Ndcg(judgments, other, Cut)
  BY DEF Ndcg
<1>2. Mrr(judgments, run, Cut, RelThreshold) = Mrr(judgments, other, Cut, RelThreshold)
  BY DEF Mrr
<1>3. Recall(judgments, run, TopK, RelThreshold) = Recall(judgments, other, TopK, RelThreshold)
  BY DEF Recall
<1>4. Cut \in Nat /\ TopK \in Nat /\ Cut <= TopK
  BY CascadeAssumption
<1> DEFINE depth == IF Len(run) > TopK THEN Len(run) ELSE TopK
<1>5. depth \in Nat /\ depth >= TopK
  BY <1>4
<1>6. Evaluate(judgments, run, Cut, TopK, RelThreshold, TopK)
         = [ndcg |-> Ndcg(judgments, run, Cut),
            mrr |-> Mrr(judgments, run, Cut, RelThreshold),
            recall |-> Recall(judgments, run, TopK, RelThreshold),
            shallow |-> {k \in {Cut, TopK} : k > depth}]
  BY DEF Evaluate
<1> HIDE DEF depth
<1>7. {k \in {Cut, TopK} : k > depth} = {}
  BY <1>4, <1>5
<1> DEFINE flat == IF Len(other) > others THEN Len(other) ELSE others
           shallow == {k \in {Cut, TopK} : k > flat}
<1>8. Evaluate(judgments, other, Cut, TopK, RelThreshold, others)
         = [ndcg |-> Ndcg(judgments, other, Cut),
            mrr |-> Mrr(judgments, other, Cut, RelThreshold),
            recall |-> Recall(judgments, other, TopK, RelThreshold),
            shallow |-> shallow]
  BY DEF Evaluate
<1> HIDE DEF shallow
<1>9. shallow = {}
  BY <1>8
<1> QED BY <1>1, <1>2, <1>3, <1>6, <1>7, <1>8, <1>9

\* Scoring the candidates changes their scores only.
LEMMA ScoredRun ==
    ASSUME NEW candidates, IsRun(candidates), NEW score \in [Docids(candidates) -> Levels],
           NEW run,
           run = [i \in DOMAIN candidates |->
                     [doc |-> candidates[i].doc, score |-> score[candidates[i].doc]]]
    PROVE  /\ IsRun(run) /\ Len(run) = Len(candidates) /\ Docids(run) = Docids(candidates)
           /\ DOMAIN run = DOMAIN candidates
           /\ \A i \in DOMAIN run : run[i].score \in Levels
<1>1. /\ Len(candidates) \in Nat /\ DOMAIN candidates = 1 .. Len(candidates)
      /\ \A i \in DOMAIN candidates : candidates[i].doc \in Nat
      /\ \A i, j \in DOMAIN candidates : i # j => candidates[i].doc # candidates[j].doc
  BY RunFacts DEF IsRun
<1>2. Levels \subseteq Nat
  BY CascadeAssumption
<1>3. \A i \in DOMAIN candidates : candidates[i].doc \in Docids(candidates)
  BY DEF Docids
<1>4. DOMAIN run = DOMAIN candidates
  OBVIOUS
<1>5. \A i \in DOMAIN candidates :
         /\ run[i].doc = candidates[i].doc /\ run[i].score \in Levels
         /\ run[i] \in Hit
  BY <1>1, <1>2, <1>3 DEF Hit
<1>6. run \in [1 .. Len(candidates) -> Hit]
  BY <1>1, <1>4, <1>5
<1>7. \A i, j \in 1 .. Len(candidates) : i # j => run[i].doc # run[j].doc
  BY <1>1, <1>5
<1>8. IsRun(run) /\ Len(run) = Len(candidates)
  BY <1>1, <1>6, <1>7, RunOf
<1>9. Docids(run) = Docids(candidates)
  BY <1>4, <1>5 DEF Docids
<1> QED BY <1>4, <1>5, <1>8, <1>9

-------------------------------------------------------------------------------
(* The invariant is inductive *)

LEMMA InvInit == Init => CascadeInv
BY DEF Init, CascadeInv, StageOk, WandOk, EncodedOk, SampleOk, ScoresOk, PrerankOk, EvaluatedOk,
       RescoredOk, FailedOk, DenseOk, HasRun, HasFeatures, HasScores, HasSurvivors, HasMetrics

USE DEF HasRun, HasFeatures, HasScores, HasSurvivors, HasMetrics

\* A conjunct survives a step that leaves what it speaks of alone.
LEMMA Unchanged ==
    /\ WandOk /\ stage # "start" /\ stage \in {"start"} \cup HasRun /\ wand' = wand => WandOk'
    /\ EncodedOk /\ stage \in HasFeatures /\ UNCHANGED <<querySet, wand, encoded>> => EncodedOk'
    /\ SampleOk /\ UNCHANGED <<querySet, wand, examples>>
          /\ (stage' = "trained" => stage = "trained") => SampleOk'
    /\ ScoresOk /\ stage \in HasScores /\ UNCHANGED <<querySet, wand, allScores>> => ScoresOk'
    /\ PrerankOk /\ stage \in HasSurvivors
          /\ UNCHANGED <<wand, encoded, allScores, fusedRun, consistency>> => PrerankOk'
    /\ EvaluatedOk /\ stage \in HasMetrics /\ UNCHANGED <<qrels, fusedRun, fp32>> => EvaluatedOk'
<1>1. WandOk /\ stage # "start" /\ stage \in {"start"} \cup HasRun /\ wand' = wand => WandOk'
  BY DEF WandOk
<1>2. EncodedOk /\ stage \in HasFeatures /\ UNCHANGED <<querySet, wand, encoded>> => EncodedOk'
  BY DEF EncodedOk
<1>3. SampleOk /\ UNCHANGED <<querySet, wand, examples>>
         /\ (stage' = "trained" => stage = "trained") => SampleOk'
  BY DEF SampleOk, Empty
<1>4. ScoresOk /\ stage \in HasScores /\ UNCHANGED <<querySet, wand, allScores>> => ScoresOk'
  BY DEF ScoresOk
<1>5. ASSUME PrerankOk, stage \in HasSurvivors,
             UNCHANGED <<wand, encoded, allScores, fusedRun, consistency>>
      PROVE  PrerankOk'
  <2>1. TrueTopK' = TrueTopK /\ \A score : Survivors(score)' = Survivors(score)
    BY <1>5 DEF TrueTopK, Survivors
  <2>2. PICK score \in [encoded -> Levels] :
           /\ consistency = PrerankConsistency(TrueTopK, Survivors(score))
           /\ fusedRun = Among(allScores, Survivors(score))
    BY <1>5 DEF PrerankOk
  <2> QED BY <1>5, <2>1, <2>2 DEF PrerankOk
<1>6. EvaluatedOk /\ stage \in HasMetrics /\ UNCHANGED <<qrels, fusedRun, fp32>> => EvaluatedOk'
  BY DEF EvaluatedOk
<1> QED BY <1>1, <1>2, <1>3, <1>4, <1>5, <1>6

\* The cascade evaluates as many documents as it may keep, or all there are.
LEMMA InvSurvivors ==
    ASSUME CascadeInv, stage \in HasSurvivors
    PROVE  /\ IsRun(fusedRun) /\ Docids(fusedRun) \subseteq Docids(wand)
           /\ Len(fusedRun) = IF TopK < Len(wand) THEN TopK ELSE Len(wand)
           /\ Len(fusedRun) \in Nat /\ Len(wand) \in Nat
<1>1. /\ IsRun(wand) /\ IsRun(allScores) /\ querySet = "dl"
      /\ Docids(allScores) = Docids(wand) /\ encoded = Docids(ReadRun(wand))
  BY DEF CascadeInv, WandOk, ScoresOk, EncodedOk, IsChannel
<1>2. ReadRun(wand) = wand /\ encoded = Docids(wand)
  BY <1>1, ReadRunIs
<1>3. PICK score \in [Docids(wand) -> Levels] : fusedRun = Among(allScores, Survivors(score))
  BY <1>2 DEF CascadeInv, PrerankOk
<1> DEFINE run == [i \in DOMAIN wand |->
                      [doc |-> wand[i].doc, score |-> score[wand[i].doc]]]
<1>4. Survivors(score) = Docids(Take(Sorted(run, ByScore(run)), TopK))
  BY <1>2 DEF Survivors
<1>5. IsRun(run) /\ Len(run) = Len(wand) /\ Docids(run) = Docids(wand)
  BY <1>1, ScoredRun
<1> HIDE DEF run
<1>6. TopK \in Nat
  BY CascadeAssumption
<1>7. /\ Survivors(score) \subseteq Docids(wand)
      /\ Cardinality(Survivors(score)) = IF TopK < Len(wand) THEN TopK ELSE Len(wand)
  BY <1>4, <1>5, <1>6, CutByScore
<1>8. IsRun(fusedRun) /\ Docids(fusedRun) = Docids(allScores) \cap Survivors(score)
  BY <1>1, <1>3, AmongIs
<1>9. Docids(fusedRun) = Survivors(score)
  BY <1>1, <1>7, <1>8
<1>10. Cardinality(Docids(fusedRun)) = Len(fusedRun)
  BY <1>8, DocidsCounted
<1> QED BY <1>1, <1>7, <1>8, <1>9, <1>10, RunFacts

LEMMA SearchKeeps ==
    ASSUME CascadeInv, Search
    PROVE  CascadeInv'
<1>1. /\ stage = "start" /\ stage' = "searched" /\ querySet' = querySet
      /\ \E results \in Retrieved(Depth) : wand' = WriteRun(results, Depth)
  BY DEF Search
<1>2. WandOk'
  <2>1. PICK results \in Retrieved(Depth) : wand' = WriteRun(results, Depth)
    BY <1>1
  <2>2. IsChannel(results) /\ Docids(results) \subseteq Docs
    BY RetrievedIs
  <2>3. \A lines : lines = WriteRun(results, Depth) =>
           IsChannel(lines) /\ Docids(lines) \subseteq Docs /\ InFileOrder(lines)
    BY <2>2, WriteRunIs
  <2>4. (IsChannel(wand) /\ Docids(wand) \subseteq Docs /\ InFileOrder(wand))'
    BY <2>1, <2>3 DEF IsChannel, IsRun, Docids, InFileOrder
  <2> QED BY <2>4 DEF WandOk
<1> QED BY <1>1, <1>2 DEF CascadeInv, StageOk, EncodedOk, SampleOk, ScoresOk, PrerankOk,
                          EvaluatedOk, RescoredOk, FailedOk, DenseOk

LEMMA EncodeCandidatesKeeps ==
    ASSUME CascadeInv, EncodeCandidates
    PROVE  CascadeInv'
<1>1. /\ stage = "searched" /\ stage' = "encoded" /\ querySet' = querySet /\ wand' = wand
      /\ encoded' = Docids(IF querySet = "dev" THEN TruncateToTopK(ReadRun(wand), PoolDepth)
                           ELSE ReadRun(wand))
  BY DEF EncodeCandidates
<1>2. WandOk'
  BY <1>1, Unchanged DEF CascadeInv
<1>3. EncodedOk'
  BY <1>1 DEF EncodedOk
<1> QED BY <1>1, <1>2, <1>3 DEF CascadeInv, StageOk, SampleOk, ScoresOk, PrerankOk, EvaluatedOk,
                                RescoredOk, FailedOk, DenseOk

LEMMA BuildTrainingExamplesKeeps ==
    ASSUME CascadeInv, BuildTrainingExamples
    PROVE  CascadeInv'
<1>1. /\ stage = "encoded" /\ querySet = "dev" /\ stage' = "trained"
      /\ UNCHANGED <<querySet, wand, encoded>>
  BY DEF BuildTrainingExamples
<1>2. WandOk' /\ EncodedOk'
  BY <1>1, Unchanged DEF CascadeInv
<1>3. /\ IsRun(wand) /\ InFileOrder(wand)
      /\ encoded = Docids(TruncateToTopK(ReadRun(wand), PoolDepth))
  BY <1>1 DEF CascadeInv, WandOk, EncodedOk, IsChannel
<1>4. /\ Available = TruncateToTopK(ReadRun(wand), PoolDepth)
      /\ IsRun(Available) /\ IsFiniteSet(Docids(Available))
  BY <1>3, PoolIs, DocidsCounted
<1>5. examples' # Empty =>
         /\ Cardinality({d \in DOMAIN examples' : examples'[d] = 1}) = 1
         /\ \/ Cardinality(DOMAIN examples') = NumNegatives + 1
            \/ DOMAIN examples' = Docids(TruncateToTopK(ReadRun(wand), PoolDepth))
  <2> SUFFICES ASSUME examples' # Empty
               PROVE  /\ Cardinality({d \in DOMAIN examples' : examples'[d] = 1}) = 1
                      /\ \/ Cardinality(DOMAIN examples') = NumNegatives + 1
                         \/ DOMAIN examples' = Docids(TruncateToTopK(ReadRun(wand), PoolDepth))
    OBVIOUS
  <2>1. PICK first \in DOMAIN Available :
           \E negatives \in Sampled(Docids(Available) \ {Available[first].doc}) :
              examples' = [d \in {Available[first].doc} \cup negatives |->
                              IF d = Available[first].doc THEN 1 ELSE 0]
    BY DEF BuildTrainingExamples
  <2>2. PICK negatives \in Sampled(Docids(Available) \ {Available[first].doc}) :
           examples' = [d \in {Available[first].doc} \cup negatives |->
                           IF d = Available[first].doc THEN 1 ELSE 0]
    BY <2>1
  <2>3. Available[first].doc \in Docids(Available)
    BY DEF Docids
  <2> DEFINE pool == Docids(Available)
             positive == Available[first].doc
             labels == examples'
  <2>4. /\ IsFiniteSet(pool) /\ positive \in pool /\ negatives \in Sampled(pool \ {positive})
        /\ DOMAIN labels = {positive} \cup negatives
        /\ \A d \in DOMAIN labels : labels[d] = IF d = positive THEN 1 ELSE 0
    BY <1>4, <2>2, <2>3
  <2> HIDE DEF pool, positive, labels
  <2>5. /\ Cardinality(Positives(labels)) = 1
        /\ \/ Cardinality(DOMAIN labels) = NumNegatives + 1
           \/ DOMAIN labels = pool
    BY <2>4, SampleIs
  <2> QED BY <1>4, <2>5 DEF pool, labels, Positives
<1>6. SampleOk'
  BY <1>1, <1>5 DEF SampleOk, Empty
<1> QED BY <1>1, <1>2, <1>6 DEF CascadeInv, StageOk, ScoresOk, PrerankOk, EvaluatedOk,
                                RescoredOk, FailedOk, DenseOk

LEMMA ScoreAllKeeps ==
    ASSUME CascadeInv, ScoreAll
    PROVE  CascadeInv'
<1>1. /\ stage = "encoded" /\ querySet = "dl" /\ stage' = "scored"
      /\ UNCHANGED <<querySet, wand, encoded, examples>>
  BY DEF ScoreAll
<1>2. WandOk' /\ EncodedOk' /\ SampleOk'
  BY <1>1, Unchanged DEF CascadeInv
<1>3. ScoresOk'
  <2>1. IsRun(wand)
    BY <1>1 DEF CascadeInv, WandOk, IsChannel
  <2>2. PICK score \in [Docids(wand) -> Levels] :
           allScores' = [i \in DOMAIN wand |->
                            [doc |-> wand[i].doc, score |-> score[wand[i].doc]]]
    BY <2>1, ReadRunIs DEF ScoreAll
  <2>3. \A run : run = [i \in DOMAIN wand |->
                          [doc |-> wand[i].doc, score |-> score[wand[i].doc]]]
           => IsRun(run) /\ Docids(run) = Docids(wand)
    BY <2>1, ScoredRun
  <2>4. (IsRun(allScores) /\ Docids(allScores) = Docids(wand))'
    BY <1>1, <2>2, <2>3 DEF IsRun, Docids
  <2> QED BY <1>1, <2>4 DEF ScoresOk
<1> QED BY <1>1, <1>2, <1>3 DEF CascadeInv, StageOk, PrerankOk, EvaluatedOk, RescoredOk, FailedOk, DenseOk

LEMMA PrerankKeeps ==
    ASSUME CascadeInv, Prerank
    PROVE  CascadeInv'
<1>1. /\ stage = "scored" /\ stage' = "preranked"
      /\ UNCHANGED <<querySet, wand, encoded, examples, allScores>>
  BY DEF Prerank
<1>2. WandOk' /\ EncodedOk' /\ SampleOk' /\ ScoresOk'
  BY <1>1, Unchanged DEF CascadeInv
<1>3. PrerankOk'
  <2>1. TrueTopK' = TrueTopK /\ \A score : Survivors(score)' = Survivors(score)
    BY <1>1 DEF TrueTopK, Survivors
  <2>2. PICK score \in [encoded -> Levels] :
           /\ consistency' = PrerankConsistency(TrueTopK, Survivors(score))
           /\ fusedRun' = Among(allScores, Survivors(score))
    BY DEF Prerank
  <2> QED BY <1>1, <2>1, <2>2 DEF PrerankOk
<1> QED BY <1>1, <1>2, <1>3 DEF CascadeInv, StageOk, EvaluatedOk, RescoredOk, FailedOk, DenseOk

LEMMA EvaluateCascadeKeeps ==
    ASSUME CascadeInv, EvaluateCascade
    PROVE  CascadeInv'
<1>1. /\ stage = "preranked" /\ stage' \in {"failed", "evaluated"}
      /\ UNCHANGED <<querySet, wand, encoded, examples, allScores, fusedRun, consistency>>
  BY DEF EvaluateCascade
<1>2. WandOk' /\ EncodedOk' /\ SampleOk' /\ ScoresOk' /\ PrerankOk'
  BY <1>1, Unchanged DEF CascadeInv
<1>3. EvaluatedOk'
  <2> SUFFICES ASSUME stage' = "evaluated"
               PROVE  \E others \in {0, TopK} :
                         /\ fp32' = Evaluate(qrels', fusedRun, Cut, TopK, RelThreshold, others)
                         /\ (fp32').shallow = {}
    BY <1>1 DEF EvaluatedOk, RelThreshold
  <2> QED BY DEF EvaluateCascade
<1>4. FailedOk'
  <2> SUFFICES ASSUME stage' = "failed" PROVE Len(wand) < TopK
    BY <1>1 DEF FailedOk
  <2>1. PICK others \in {0, TopK} :
           Evaluate(qrels', fusedRun, Cut, TopK, RelThreshold, others).shallow # {}
    BY DEF EvaluateCascade
  <2> DEFINE depth == IF Len(fusedRun) > others THEN Len(fusedRun) ELSE others
             shallow == {k \in {Cut, TopK} : k > depth}
  <2>2. Evaluate(qrels', fusedRun, Cut, TopK, RelThreshold, others)
           = [ndcg |-> Ndcg(qrels', fusedRun, Cut),
              mrr |-> Mrr(qrels', fusedRun, Cut, RelThreshold),
              recall |-> Recall(qrels', fusedRun, TopK, RelThreshold),
              shallow |-> shallow]
    BY DEF Evaluate
  <2>3. shallow # {}
    <3> HIDE DEF shallow
    <3> QED BY <2>1, <2>2
  <2>4. PICK k \in {Cut, TopK} : k > depth
    BY <2>3
  <2>5. /\ Len(fusedRun) = IF TopK < Len(wand) THEN TopK ELSE Len(wand)
        /\ Len(fusedRun) \in Nat /\ Len(wand) \in Nat
    BY <1>1, InvSurvivors
  <2>6. Cut \in Nat /\ TopK \in Nat /\ Cut <= TopK
    BY CascadeAssumption
  <2>7. k <= TopK /\ depth >= Len(fusedRun)
    BY <2>4, <2>5, <2>6
  <2> QED BY <2>4, <2>5, <2>6, <2>7
<1> QED BY <1>1, <1>2, <1>3, <1>4 DEF CascadeInv, StageOk, RescoredOk, DenseOk

LEMMA RescoreSurvivorsKeeps ==
    ASSUME CascadeInv, RescoreSurvivors
    PROVE  CascadeInv'
<1>1. /\ stage = "evaluated" /\ stage' = "rescored"
      /\ UNCHANGED <<querySet, wand, encoded, examples, allScores, fusedRun, consistency, qrels,
                     fp32>>
  BY DEF RescoreSurvivors
<1>2. WandOk' /\ EncodedOk' /\ SampleOk' /\ ScoresOk' /\ PrerankOk' /\ EvaluatedOk'
  BY <1>1, Unchanged DEF CascadeInv
<1>3. RescoredOk'
  <2>1. IsRun(allScores)
    BY <1>1 DEF CascadeInv, ScoresOk
  <2>2. PICK survivors : fusedRun = Among(allScores, survivors)
    BY <1>1 DEF CascadeInv, PrerankOk
  <2>3. PICK others \in {0, TopK} :
           /\ fp32 = Evaluate(qrels, fusedRun, Cut, TopK, RelThreshold, others)
           /\ fp32.shallow = {}
    BY <1>1 DEF CascadeInv, EvaluatedOk
  <2>4. PICK order \in SetToSeqs(Docids(fusedRun)) :
           precision' = Evaluate(qrels,
                                 [i \in DOMAIN order |->
                                     [doc |-> order[i], score |-> ScoreOf(allScores, order[i])]],
                                 Cut, TopK, RelThreshold, TopK)
    BY DEF RescoreSurvivors
  <2> DEFINE run == [i \in DOMAIN order |->
                        [doc |-> order[i], score |-> ScoreOf(allScores, order[i])]]
  <2>5. precision' = Evaluate(qrels, run, Cut, TopK, RelThreshold, TopK)
    BY <2>4
  <2>6. /\ RankedDocids(run) = RankedDocids(fusedRun) /\ Len(run) = Len(fusedRun)
        /\ Len(run) \in Nat
    BY <2>1, <2>2, RescoredRun
  <2> HIDE DEF run
  <2>7. Evaluate(qrels, run, Cut, TopK, RelThreshold, TopK) = fp32
    BY <2>3, <2>6, EvaluateSame
  <2> QED BY <1>1, <2>5, <2>7 DEF RescoredOk
<1> QED BY <1>1, <1>2, <1>3 DEF CascadeInv, StageOk, FailedOk, DenseOk

LEMMA FuseKeeps ==
    ASSUME CascadeInv, Fuse
    PROVE  CascadeInv'
<1>1. /\ stage = "searched" /\ stage' = "fused" /\ UNCHANGED <<querySet, wand>>
      /\ dense' \in Retrieved(Depth)
  BY DEF Fuse
<1>2. WandOk'
  BY <1>1, Unchanged DEF CascadeInv
<1>3. DenseOk'
  <2>1. \A run \in Retrieved(Depth) : IsChannel(run)
    BY RetrievedIs
  <2>2. IsChannel(dense)'
    BY <1>1, <2>1 DEF IsChannel, IsRun
  <2> QED BY <2>2 DEF DenseOk
<1> QED BY <1>1, <1>2, <1>3 DEF CascadeInv, StageOk, EncodedOk, SampleOk, ScoresOk, PrerankOk,
                                EvaluatedOk, RescoredOk, FailedOk

LEMMA StutterKeeps ==
    ASSUME CascadeInv, UNCHANGED vars
    PROVE  CascadeInv'
<1>1. /\ UNCHANGED <<querySet, stage, wand, encoded, examples, allScores, fusedRun, consistency>>
      /\ UNCHANGED <<qrels, fp32, precision, dense>>
  BY DEF vars
<1>2. WandOk' /\ EncodedOk' /\ SampleOk' /\ ScoresOk'
  BY <1>1 DEF CascadeInv, WandOk, EncodedOk, SampleOk, ScoresOk, Empty
<1>3. PrerankOk'
  BY <1>1, Unchanged DEF CascadeInv, PrerankOk
<1>4. EvaluatedOk' /\ RescoredOk' /\ FailedOk' /\ DenseOk'
  BY <1>1 DEF CascadeInv, EvaluatedOk, RescoredOk, FailedOk, DenseOk
<1> QED BY <1>1, <1>2, <1>3, <1>4 DEF CascadeInv, StageOk

LEMMA InvNext ==
    ASSUME CascadeInv, [Next]_vars
    PROVE  CascadeInv'
<1>1. CASE Search
  BY <1>1, SearchKeeps
<1>2. CASE EncodeCandidates
  BY <1>2, EncodeCandidatesKeeps
<1>3. CASE BuildTrainingExamples
  BY <1>3, BuildTrainingExamplesKeeps
<1>4. CASE ScoreAll
  BY <1>4, ScoreAllKeeps
<1>5. CASE Prerank
  BY <1>5, PrerankKeeps
<1>6. CASE EvaluateCascade
  BY <1>6, EvaluateCascadeKeeps
<1>7. CASE RescoreSurvivors
  BY <1>7, RescoreSurvivorsKeeps
<1>8. CASE Fuse
  BY <1>8, FuseKeeps
<1>9. CASE Finished \/ UNCHANGED vars
  BY <1>9, StutterKeeps DEF Finished
<1> QED BY <1>1, <1>2, <1>3, <1>4, <1>5, <1>6, <1>7, <1>8, <1>9 DEF Next

-------------------------------------------------------------------------------
(* What the invariant says of a query *)

LEMMA InvTrainingPool == CascadeInv => TrainingPoolWhole
<1> SUFFICES ASSUME CascadeInv, stage = "trained"
             PROVE  /\ TrainingPool = TruncateToTopK(ReadRun(wand), PoolDepth)
                    /\ Available = TrainingPool
                    /\ examples # Empty =>
                          /\ Cardinality({d \in DOMAIN examples : examples[d] = 1}) = 1
                          /\ \/ Cardinality(DOMAIN examples) = NumNegatives + 1
                             \/ DOMAIN examples
                                   = Docids(TruncateToTopK(ReadRun(wand), PoolDepth))
  BY DEF TrainingPoolWhole
<1>1. /\ IsRun(wand) /\ InFileOrder(wand)
      /\ encoded = Docids(TruncateToTopK(ReadRun(wand), PoolDepth))
  BY DEF CascadeInv, WandOk, EncodedOk, SampleOk, IsChannel
<1> QED BY <1>1, PoolIs DEF CascadeInv, SampleOk

LEMMA InvConsistency == CascadeInv => ConsistencyBoundsLoss
<1> DEFINE lost == consistency[2] - consistency[1]
<1> SUFFICES ASSUME CascadeInv, stage \in HasMetrics, TopIsSeparate
             PROVE  /\ Cardinality(TopOf(allScores) \ TopOf(fusedRun)) <= lost
                    /\ lost = 0 => fp32.ndcg = Ndcg(qrels, allScores, Cut)
  BY DEF ConsistencyBoundsLoss
<1>1. IsRun(allScores)
  BY DEF CascadeInv, ScoresOk
<1>2. PICK survivors : /\ consistency = PrerankConsistency(TrueTopK, survivors)
                       /\ fusedRun = Among(allScores, survivors)
  BY DEF CascadeInv, PrerankOk
<1>3. fp32.ndcg = Ndcg(qrels, fusedRun, Cut)
  BY DEF CascadeInv, EvaluatedOk, Evaluate
<1> DEFINE missed == TopOf(allScores) \ TopOf(fusedRun)
           gone == TrueTopK \ survivors
           held == TrueTopK \cap survivors
<1>4. missed \in SUBSET gone /\ gone \in SUBSET TrueTopK
  BY <1>1, <1>2, MissedIsLost
<1>5. IsFiniteSet(TrueTopK) /\ Cardinality(TrueTopK) \in Nat
  BY <1>1, TrueTopKIs
<1>6. /\ held \in SUBSET TrueTopK /\ IsFiniteSet(held) /\ Cardinality(held) \in Nat
      /\ Cardinality(held) = Cardinality(TrueTopK) => held = TrueTopK
  <2>1. held \in SUBSET TrueTopK
    OBVIOUS
  <2> HIDE DEF held
  <2> QED BY <1>5, <2>1, FS_Subset, FS_CardinalityType
<1>7. /\ IsFiniteSet(gone) /\ Cardinality(gone) \in Nat
      /\ Cardinality(gone) = Cardinality(TrueTopK) - Cardinality(held)
  <2>1. IsFiniteSet(gone) /\ Cardinality(gone) = Cardinality(TrueTopK) - Cardinality(held)
    <3>1. held = TrueTopK \cap survivors
      OBVIOUS
    <3> QED BY <1>5, <3>1, FS_Difference
  <2> HIDE DEF gone
  <2> QED BY <2>1, FS_CardinalityType
<1>8. Cardinality(missed) <= Cardinality(gone) /\ Cardinality(missed) \in Nat
  <2> HIDE DEF missed, gone
  <2> QED BY <1>4, <1>7, FS_Subset, FS_CardinalityType
<1>9. CASE TrueTopK = {}
  <2>1. consistency = <<0, 1>>
    BY <1>2, <1>9 DEF PrerankConsistency
  <2>2. lost = 1
    BY <2>1
  <2>3. missed = {}
    BY <1>4, <1>9
  <2>4. Cardinality(missed) = 0
    BY <2>3, FS_EmptySet
  <2> QED BY <2>2, <2>4
<1>10. CASE TrueTopK # {}
  <2>1. consistency = <<Cardinality(held), Cardinality(TrueTopK)>>
    BY <1>2, <1>10 DEF PrerankConsistency
  <2>2. lost = Cardinality(TrueTopK) - Cardinality(held)
    BY <2>1
  <2>3. Cardinality(missed) <= lost
    BY <1>7, <1>8, <2>2
  <2>4. ASSUME lost = 0 PROVE fp32.ndcg = Ndcg(qrels, allScores, Cut)
    <3>1. Cardinality(held) = Cardinality(TrueTopK)
      BY <1>5, <1>6, <2>2, <2>4
    <3>2. TrueTopK \subseteq survivors
      BY <1>6, <3>1
    <3>3. Take(RankedDocids(allScores), Cut) = Take(RankedDocids(fusedRun), Cut)
      BY <1>1, <1>2, <3>2, NothingLost
    <3>4. Ndcg(qrels, fusedRun, Cut) = Ndcg(qrels, allScores, Cut)
      BY <3>3 DEF Ndcg
    <3> QED BY <1>3, <3>4
  <2> QED BY <2>3, <2>4
<1> QED BY <1>9, <1>10

-------------------------------------------------------------------------------
(* Theorems *)

\* Each stage leaves its results as the next ones expect them: the run sorted
\* as its file is, the features of what was encoded, the sample, the scores,
\* the survivors' run and their evaluation (run_prerank_and_consistency and
\* run_precision).
THEOREM CascadeInvariant == Spec => []CascadeInv
<1>1. Init => CascadeInv
  BY InvInit
<1>2. CascadeInv /\ [Next]_vars => CascadeInv'
  BY InvNext
<1> QED BY <1>1, <1>2, PTL DEF Spec

\* The pool the driver streams and the candidates the encoder sorted out are
\* the same, ties included, so that no candidate of the sample lacks features
\* (truncate_to_top_k, read_run_truncated, build_training_examples).
THEOREM TrainingPoolIsWhole == Spec => []TrainingPoolWhole
<1>1. CascadeInv => TrainingPoolWhole
  BY InvTrainingPool
<1> QED BY <1>1, CascadeInvariant, PTL

\* The prerank consistency bounds what the cascade's evaluation misses of the
\* full ranking, unless scores tie across the boundary of its top
\* (prerank_consistency, run_prerank_and_consistency).
THEOREM ConsistencyBounds == Spec => []ConsistencyBoundsLoss
<1>1. CascadeInv => ConsistencyBoundsLoss
  BY InvConsistency
<1> QED BY <1>1, CascadeInvariant, PTL

\* The metrics of the fp32 row do not depend on the order in which the set of
\* survivors is listed (score_survivors_with_session, _ranked_docids).
THEOREM Fp32DeltaIsZero == Spec => []Fp32DeltaZero
<1>1. CascadeInv => Fp32DeltaZero
  BY DEF CascadeInv, RescoredOk, Fp32DeltaZero
<1> QED BY <1>1, CascadeInvariant, PTL

\* Both fusions keep what the channels agree on, and reciprocal ranks also
\* what one says and the other does not contradict (reciprocal_rank_fusion,
\* normalized_score_fusion).
THEOREM FusionIsUnanimous == Spec => []FusionUnanimous
<1>1. CascadeInv => FusionUnanimous
  <2> SUFFICES ASSUME CascadeInv, stage = "fused" PROVE FusionUnanimous
    BY DEF FusionUnanimous
  <2>1. IsChannel(wand) /\ IsChannel(dense)
    BY DEF CascadeInv, WandOk, DenseOk
  <2> QED BY <2>1, FusionAgrees DEF FusionUnanimous
<1> QED BY <1>1, CascadeInvariant, PTL

\* run_prerank_and_consistency asserts that no metric is deeper than the run:
\* it fails only where the candidates are fewer than the cross-encoder is to
\* rank, never because the pre-ranker or a missing score dropped a survivor.
THEOREM OnlyShortRunsFail == Spec => [](stage = "failed" => Len(wand) < TopK)
<1>1. CascadeInv => (stage = "failed" => Len(wand) < TopK)
  BY DEF CascadeInv, FailedOk
<1> QED BY <1>1, CascadeInvariant, PTL

-------------------------------------------------------------------------------
(* Types *)

Hits == [doc : Docs, score : Levels]

\* Hits on documents of the collection, each with a score, make a list of the
\* type.
LEMMA HitsType ==
    ASSUME NEW run, IsRun(run), Docids(run) \subseteq Docs,
           \A i \in DOMAIN run : run[i].score \in Levels
    PROVE  run \in Seq(Hits)
<1>1. /\ Len(run) \in Nat /\ run \in [1 .. Len(run) -> Hit] /\ DOMAIN run = 1 .. Len(run)
  BY RunFacts
<1>2. ASSUME NEW i \in DOMAIN run PROVE run[i] \in Hits
  <2>1. run[i].doc \in Docs
    BY DEF Docids
  <2>2. run[i] \in Hit
    BY <1>1
  <2> QED BY <2>1, <2>2 DEF Hit, Hits
<1>3. run \in [1 .. Len(run) -> Hits]
  BY <1>1, <1>2
<1> QED BY <1>1, <1>3, SeqDef

\* What is kept of a list is of its type.
LEMMA AmongType ==
    ASSUME NEW run, IsRun(run), run \in Seq(Hits), NEW docs
    PROVE  Among(run, docs) \in Seq(Hits)
<1> DEFINE among == Among(run, docs)
<1>1. /\ IsRun(among) /\ Docids(among) = Docids(run) \cap docs
      /\ \A d \in Docids(run) \cap docs : ScoreOf(among, d) = ScoreOf(run, d)
  BY AmongIs
<1> HIDE DEF among
<1>2. \A i \in DOMAIN run : run[i].doc \in Docs /\ run[i].score \in Levels
  <2>1. DOMAIN run = 1 .. Len(run)
    BY RunFacts
  <2>2. \A i \in 1 .. Len(run) : run[i] \in Hits
    BY ElementOfSeq
  <2> QED BY <2>1, <2>2 DEF Hits
<1>3. Docids(among) \subseteq Docs
  BY <1>1, <1>2 DEF Docids
<1>4. ASSUME NEW p \in DOMAIN among PROVE among[p].score \in Levels
  <2>1. among[p].doc \in Docids(among) /\ ScoreOf(among, among[p].doc) = among[p].score
    BY <1>1, ScoreIs DEF Docids
  <2>2. among[p].doc \in Docids(run) \cap docs
    BY <1>1, <2>1
  <2>3. \E i \in DOMAIN run : ScoreOf(run, among[p].doc) = run[i].score
    BY <2>2, ScoreType
  <2> QED BY <1>1, <1>2, <2>1, <2>2, <2>3
<1> QED BY <1>1, <1>3, <1>4, HitsType DEF among

\* The head of a sorted run has its documents.
LEMMA TruncatedDocids ==
    ASSUME NEW run, IsRun(run), NEW k \in Nat
    PROVE  Docids(TruncateToTopK(run, k)) \subseteq Docids(run)
<1> DEFINE R == ByScoreAndDocid(run)
           sorted == Sorted(run, R)
<1>1. /\ IsRun(sorted) /\ DOMAIN sorted = DOMAIN run
      /\ \A i \in DOMAIN run : sorted[Place(run, R, i)] = run[i]
      /\ \A p \in DOMAIN run : \E i \in DOMAIN run : Place(run, R, i) = p
  BY ScoreAndDocidTotal, SortedIs
<1> HIDE DEF sorted, R
<1>2. Docids(sorted) \subseteq Docids(run)
  BY <1>1 DEF Docids
<1>3. Docids(Take(sorted, k)) \subseteq Docids(sorted)
  BY <1>1, TakeRun
<1> QED BY <1>2, <1>3 DEF TruncateToTopK, sorted, R

Types == CascadeInv /\ TypeOK

LEMMA TypesInit == Init => TypeOK
<1> SUFFICES ASSUME Init PROVE TypeOK
  OBVIOUS
<1>1. Empty \in Seq([doc : Docs, score : Levels]) /\ DOMAIN Empty = {}
  BY EmptySeq DEF Empty
<1> QED BY <1>1 DEF Init, TypeOK

LEMMA TypesNext ==
    ASSUME Types, [Next]_vars
    PROVE  TypeOK'
<1> USE DEF Types
<1>1. CascadeInv'
  BY InvNext
<1>2. (querySet \in {"dev", "dl"} /\ stage \in {"start"} \cup HasRun)'
  BY <1>1 DEF CascadeInv, StageOk
<1>3. TypeOK
  OBVIOUS
<1>4. CASE UNCHANGED vars
  BY <1>3, <1>4 DEF TypeOK, vars, Empty
<1>5. CASE Search
  <2>1. (IsChannel(wand) /\ Docids(wand) \subseteq Docs)'
    BY <1>1, <1>5 DEF CascadeInv, WandOk, Search
  <2>2. wand' \in Seq(Hits)
    BY <2>1, HitsType DEF IsChannel, IsRun, Docids
  <2> QED BY <1>2, <1>3, <1>5, <2>2 DEF TypeOK, Search, Hits, Empty
<1>6. CASE EncodeCandidates
  <2>1. IsRun(wand) /\ Docids(wand) \subseteq Docs /\ ReadRun(wand) = wand
    BY <1>6, ReadRunIs DEF CascadeInv, WandOk, IsChannel, EncodeCandidates
  <2>2. PoolDepth \in Nat
    BY CascadeAssumption
  <2>3. Docids(TruncateToTopK(wand, PoolDepth)) \subseteq Docids(wand)
    BY <2>1, <2>2, TruncatedDocids
  <2>4. encoded' \subseteq Docs
    BY <1>6, <2>1, <2>3 DEF EncodeCandidates
  <2> QED BY <1>2, <1>3, <1>6, <2>4 DEF TypeOK, EncodeCandidates, Empty
<1>7. CASE BuildTrainingExamples
  <2>1. IsRun(wand) /\ Docids(wand) \subseteq Docs
    BY <1>7 DEF CascadeInv, WandOk, IsChannel, BuildTrainingExamples
  <2>2. Docids(Available) \subseteq Docs
    <3>1. PoolDepth \in Nat
      BY CascadeAssumption
    <3>2. TrainingPool = Take(wand, PoolDepth)
      BY <2>1, <3>1, ReadRunTruncatedIs DEF TrainingPool
    <3>3. IsRun(TrainingPool) /\ Docids(TrainingPool) \subseteq Docs
      BY <2>1, <3>1, <3>2, TakeRun
    <3> QED BY <3>3, AmongIs DEF Available
  <2>3. DOMAIN examples' \subseteq Docs /\ \A d \in DOMAIN examples' : examples'[d] \in {0, 1}
    <3>1. CASE examples' = Empty
      BY <3>1 DEF Empty
    <3>2. CASE examples' # Empty
      <4>1. PICK first \in DOMAIN Available :
               \E negatives \in Sampled(Docids(Available) \ {Available[first].doc}) :
                  examples' = [d \in {Available[first].doc} \cup negatives |->
                                  IF d = Available[first].doc THEN 1 ELSE 0]
        BY <1>7, <3>2 DEF BuildTrainingExamples
      <4>2. PICK negatives \in Sampled(Docids(Available) \ {Available[first].doc}) :
               examples' = [d \in {Available[first].doc} \cup negatives |->
                               IF d = Available[first].doc THEN 1 ELSE 0]
        BY <4>1
      <4>3. Available[first].doc \in Docids(Available) /\ negatives \subseteq Docids(Available)
        BY DEF Docids, Sampled
      <4> QED BY <2>2, <4>2, <4>3
    <3> QED BY <3>1, <3>2
  <2>4. qrels' \in [Docs -> Grades]
    <3>1. qrels' \in [Docs -> Grades \cap {0, 1}]
      BY <1>7 DEF BuildTrainingExamples
    <3> QED BY <3>1
  <2> QED BY <1>2, <1>3, <1>7, <2>3, <2>4 DEF TypeOK, BuildTrainingExamples, Empty
<1>8. CASE ScoreAll
  <2>1. IsRun(wand) /\ Docids(wand) \subseteq Docs
    BY <1>8 DEF CascadeInv, WandOk, IsChannel, ScoreAll
  <2>2. PICK score \in [Docids(wand) -> Levels] :
           allScores' = [i \in DOMAIN wand |->
                            [doc |-> wand[i].doc, score |-> score[wand[i].doc]]]
    BY <1>8, <2>1, ReadRunIs DEF ScoreAll
  <2>3. \A run : run = [i \in DOMAIN wand |->
                          [doc |-> wand[i].doc, score |-> score[wand[i].doc]]]
           => IsRun(run) /\ Docids(run) \subseteq Docs
              /\ \A i \in DOMAIN run : run[i].score \in Levels
    BY <2>1, ScoredRun
  <2>4. allScores' \in Seq(Hits)
    BY <2>2, <2>3, HitsType
  <2> QED BY <1>2, <1>3, <1>8, <2>4 DEF TypeOK, ScoreAll, Hits, Empty
<1>9. CASE Prerank
  <2>1. IsRun(allScores)
    BY <1>9 DEF CascadeInv, ScoresOk, Prerank
  <2>2. allScores \in Seq(Hits)
    BY <1>3 DEF TypeOK, Hits
  <2>3. PICK survivors : /\ consistency' = PrerankConsistency(TrueTopK, survivors)
                         /\ fusedRun' = Among(allScores, survivors)
    BY <1>9 DEF Prerank
  <2>4. fusedRun' \in Seq(Hits)
    BY <2>1, <2>2, <2>3, AmongType
  <2>5. consistency' \in Nat \X (1 .. TopK) /\ consistency'[1] <= consistency'[2]
    <3>1. TopK \in Nat /\ TopK # 0 /\ Len(allScores) \in Nat
      BY <2>1, RunFacts, CascadeAssumption
    <3>2. /\ IsFiniteSet(TrueTopK) /\ Cardinality(TrueTopK) \in Nat
          /\ Cardinality(TrueTopK) <= TopK
      BY <2>1, <3>1, TrueTopKIs
    <3>3. CASE TrueTopK = {}
      BY <2>3, <3>1, <3>3 DEF PrerankConsistency
    <3>4. CASE TrueTopK # {}
      <4> DEFINE held == TrueTopK \cap survivors
      <4>1. Cardinality(held) \in Nat /\ Cardinality(held) <= Cardinality(TrueTopK)
        <5>1. held \in SUBSET TrueTopK
          OBVIOUS
        <5> HIDE DEF held
        <5> QED BY <3>2, <5>1, FS_Subset, FS_CardinalityType
      <4>2. Cardinality(TrueTopK) # 0
        BY <3>2, <3>4, FS_EmptySet
      <4>3. consistency' = <<Cardinality(held), Cardinality(TrueTopK)>>
        BY <2>3, <3>4 DEF PrerankConsistency
      <4> QED BY <3>1, <3>2, <4>1, <4>2, <4>3
    <3> QED BY <3>3, <3>4
  <2> QED BY <1>2, <1>3, <1>9, <2>4, <2>5 DEF TypeOK, Prerank, Hits, Empty
<1>10. CASE EvaluateCascade
  BY <1>2, <1>3, <1>10 DEF TypeOK, EvaluateCascade, Empty
<1>11. CASE RescoreSurvivors
  BY <1>2, <1>3, <1>11 DEF TypeOK, RescoreSurvivors, Empty
<1>12. CASE Fuse
  <2>1. \A run \in Retrieved(Depth) : IsChannel(run) /\ Docids(run) \subseteq Docs
    BY RetrievedIs
  <2>2. dense' \in Seq(Hits)
    BY <1>12, <2>1, HitsType DEF Fuse, IsChannel
  <2> QED BY <1>2, <1>3, <1>12, <2>2 DEF TypeOK, Fuse, Hits, Empty
<1> QED BY <1>4, <1>5, <1>6, <1>7, <1>8, <1>9, <1>10, <1>11, <1>12 DEF Next, Finished

\* Every list of the cascade holds scored documents of the collection, and a
\* reported consistency is a fraction of the top of the full ranking
\* (prerank_consistency, run_prerank_and_consistency).
THEOREM TypesHold == Spec => []TypeOK
<1>1. Init => Types
  BY InvInit, TypesInit DEF Types
<1>2. Types /\ [Next]_vars => Types'
  BY InvNext, TypesNext DEF Types
<1>3. Types => TypeOK
  BY DEF Types
<1> QED BY <1>1, <1>2, <1>3, PTL DEF Spec
===============================================================================
