------------------------- MODULE HedgedBrokerProofs -------------------------
(***************************************************************************)
(* Proofs about HedgedBroker, for any number of shards and of concurrent   *)
(* dispatches, any corpus and any k.                                       *)
(***************************************************************************)
EXTENDS HedgedBroker, FiniteSetTheorems, TLAPS

(* Merging the shards' best hits gives the best hits *)

\* The hits of S that score higher than h.
Above(S, h) == {g \in S : Score[g] > Score[h]}

\* Best, said with Above.
LEMMA BestIsAbove ==
    ASSUME NEW S
    PROVE  Best(S) = {h \in S : Cardinality(Above(S, h)) < K}
  BY DEF Best, Above

\* Sets of hits are finite.
LEMMA HitsFinite ==
    ASSUME NEW S \in SUBSET Hits
    PROVE  /\ IsFiniteSet(S) /\ Cardinality(S) \in Nat
           /\ \A T \in SUBSET S : Cardinality(T) <= Cardinality(S) /\ Cardinality(T) \in Nat
  BY BrokerAssumption, FS_Subset, FS_CardinalityType

\* What is among the best of all hits is among the best of every part.
LEMMA BestOfPart ==
    ASSUME NEW S \in SUBSET Hits, NEW h \in S, h \in Best(Hits)
    PROVE  h \in Best(S)
<1>1. Above(S, h) \subseteq Above(Hits, h) /\ Above(Hits, h) \subseteq Hits
  BY DEF Above
<1>2. Cardinality(Above(S, h)) <= Cardinality(Above(Hits, h))
      /\ Cardinality(Above(S, h)) \in Nat /\ Cardinality(Above(Hits, h)) \in Nat
  BY <1>1, HitsFinite
<1>3. Cardinality(Above(Hits, h)) < K /\ K \in Nat
  BY BestIsAbove, BrokerAssumption
<1> QED
  BY <1>2, <1>3, BestIsAbove

\* A hit that scores higher has fewer hits above it.
LEMMA AboveShrinks ==
    ASSUME NEW g \in Hits, NEW h \in Hits, Score[g] > Score[h]
    PROVE  /\ Above(Hits, g) \subseteq Above(Hits, h)
           /\ Cardinality(Above(Hits, g)) < Cardinality(Above(Hits, h))
<1>0. \A x \in Hits : Score[x] \in Nat
  BY BrokerAssumption
<1>1. Above(Hits, g) \subseteq Above(Hits, h) \ {g} /\ g \in Above(Hits, h)
  BY <1>0 DEF Above
<1>2. Above(Hits, h) \in SUBSET Hits
  BY DEF Above
<1>3. /\ Cardinality(Above(Hits, h) \ {g}) = Cardinality(Above(Hits, h)) - 1
      /\ IsFiniteSet(Above(Hits, h) \ {g}) /\ Cardinality(Above(Hits, h)) \in Nat
  BY <1>1, <1>2, HitsFinite, FS_RemoveElement
<1>4. /\ Cardinality(Above(Hits, g)) <= Cardinality(Above(Hits, h) \ {g})
      /\ Cardinality(Above(Hits, g)) \in Nat
  BY <1>1, <1>3, FS_Subset, FS_CardinalityType
<1> QED
  BY <1>1, <1>3, <1>4

\* There are m numbers below m.
LEMMA Below ==
    ASSUME NEW m \in Nat
    PROVE  IsFiniteSet(0..(m - 1)) /\ Cardinality(0..(m - 1)) = m
<1>1. 0 \in Int /\ m - 1 \in Int
  OBVIOUS
<1>2. /\ IsFiniteSet(0..(m - 1))
      /\ Cardinality(0..(m - 1)) = IF 0 > m - 1 THEN 0 ELSE (m - 1) - 0 + 1
  BY <1>1, FS_Interval
<1>3. (0 > m - 1 => m = 0) /\ (m - 1) - 0 + 1 = m
  OBVIOUS
<1> QED
  BY <1>2, <1>3

\* When at least K hits are above h, at least K of the best are: their ranks
\* are 0 to K - 1.
LEMMA BestAbove ==
    ASSUME NEW h \in Hits, K <= Cardinality(Above(Hits, h))
    PROVE  K <= Cardinality(Above(Hits, h) \cap Best(Hits))
<1> DEFINE A == Above(Hits, h)
           n == Cardinality(A)
           rank == [g \in A |-> Cardinality(Above(Hits, g))]
<1>0. \A x \in Hits : Score[x] \in Nat
  BY BrokerAssumption
<1>1. A \in SUBSET Hits /\ IsFiniteSet(A) /\ n \in Nat /\ K \in Nat
  BY HitsFinite, BrokerAssumption DEF Above
<1>2. \A g \in A : rank[g] \in 0..(n - 1)
  <2> SUFFICES ASSUME NEW g \in A PROVE Cardinality(Above(Hits, g)) \in 0..(n - 1)
    OBVIOUS
  <2>1. Cardinality(Above(Hits, g)) < n
    BY <1>1, AboveShrinks DEF Above
  <2>2. Above(Hits, g) \in SUBSET Hits
    BY DEF Above
  <2>3. Cardinality(Above(Hits, g)) \in Nat
    BY <2>2, HitsFinite
  <2> QED
    BY <1>1, <2>1, <2>3
<1>3. \A f, g \in A : rank[f] = rank[g] => f = g
  <2> SUFFICES ASSUME NEW f \in A, NEW g \in A, f # g PROVE rank[f] # rank[g]
    OBVIOUS
  <2>1. f \in Hits /\ g \in Hits /\ Score[f] # Score[g]
    BY <1>1, BrokerAssumption
  <2>2. Score[f] > Score[g] \/ Score[g] > Score[f]
    BY <1>0, <2>1
  <2>3. rank[f] < rank[g] \/ rank[g] < rank[f]
    BY <2>1, <2>2, AboveShrinks
  <2>4. rank[f] \in Nat /\ rank[g] \in Nat
    BY <1>1, <1>2
  <2> QED
    BY <2>3, <2>4
<1> HIDE DEF rank
<1>4. rank \in [A -> 0..(n - 1)]
  BY <1>2 DEF rank
<1>5. rank \in Injection(A, 0..(n - 1))
  BY <1>3, <1>4 DEF Injection, IsInjective
<1>6. IsFiniteSet(0..(n - 1)) /\ Cardinality(0..(n - 1)) = n
  BY <1>1, Below
<1>7. rank \in Surjection(A, 0..(n - 1))
  BY <1>5, <1>6, FS_Injection
<1> DEFINE T == {g \in A : rank[g] < K}
<1>8. T \subseteq A \cap Best(Hits)
  <2> SUFFICES ASSUME NEW g \in A, rank[g] < K PROVE g \in Best(Hits)
    OBVIOUS
  <2>1. Cardinality(Above(Hits, g)) < K
    BY DEF rank
  <2> QED
    BY <1>1, <2>1, BestIsAbove
<1>9. Cardinality(T) = K
  <2> DEFINE low == [g \in T |-> rank[g]]
  <2>1. low \in Surjection(T, 0..(K - 1))
    <3>1. \A m \in 0..(K - 1) : \E g \in T : low[g] = m
      <4> SUFFICES ASSUME NEW m \in 0..(K - 1) PROVE \E g \in T : low[g] = m
        OBVIOUS
      <4>1. m \in 0..(n - 1)
        BY <1>1
      <4>2. PICK g \in A : rank[g] = m
        BY <4>1, <1>7 DEF Surjection
      <4> QED
        BY <4>2, <1>1
    <3>2. low \in [T -> 0..(K - 1)]
      BY <1>1, <1>4
    <3> QED
      BY <3>1, <3>2 DEF Surjection
  <2>2. low \in Injection(T, 0..(K - 1))
    <3>1. low \in [T -> 0..(K - 1)]
      BY <1>1, <1>4
    <3> QED
      BY <3>1, <1>3 DEF Injection, IsInjective
  <2>3. IsFiniteSet(0..(K - 1)) /\ Cardinality(0..(K - 1)) = K
    BY <1>1, Below
  <2> QED
    BY <2>1, <2>2, <2>3, FS_Injection
<1>10. Cardinality(T) <= Cardinality(A \cap Best(Hits))
  BY <1>1, <1>8, FS_Subset
<1> QED
  BY <1>9, <1>10

\* Whatever contains the best hits has the same best hits.
LEMMA BestOfEnough ==
    ASSUME NEW U \in SUBSET Hits, Best(Hits) \subseteq U
    PROVE  Best(U) = Best(Hits)
<1>1. \A h \in Best(Hits) : h \in Best(U)
  BY BestOfPart
<1>2. ASSUME NEW h \in Best(U), h \notin Best(Hits) PROVE FALSE
  <2>1. h \in U /\ h \in Hits /\ Cardinality(Above(U, h)) < K
    BY BestIsAbove
  <2>2. Above(Hits, h) \in SUBSET Hits /\ Above(U, h) \in SUBSET Hits
    BY DEF Above
  <2>3. /\ Cardinality(Above(Hits, h)) \in Nat /\ K \in Nat
        /\ Cardinality(Above(U, h)) \in Nat /\ IsFiniteSet(Above(U, h))
    BY <2>2, HitsFinite, BrokerAssumption
  <2>4. K <= Cardinality(Above(Hits, h))
    BY <1>2, <2>1, <2>3, BestIsAbove
  <2>5. K <= Cardinality(Above(Hits, h) \cap Best(Hits))
    BY <2>1, <2>4, BestAbove
  <2>6. Above(Hits, h) \cap Best(Hits) \subseteq Above(U, h)
    BY DEF Above
  <2>7. /\ Cardinality(Above(Hits, h) \cap Best(Hits)) <= Cardinality(Above(U, h))
        /\ Cardinality(Above(Hits, h) \cap Best(Hits)) \in Nat
    BY <2>3, <2>6, FS_Subset, FS_CardinalityType
  <2> QED
    BY <2>1, <2>3, <2>5, <2>7
<1>3. Best(U) \subseteq U
  BY DEF Best
<1> QED
  BY <1>1, <1>2, <1>3

\* Asking every shard for its k best hits and keeping the k best of what comes
\* back is asking for the k best of the corpus, however it is cut into shards
\* (broker.py:147-153).
THEOREM MergeIsExact == Best(UNION {Response(i) : i \in Shards}) = Best(Hits)
<1> DEFINE Of(i) == {h \in Hits : ShardOf[h] = i}
           U == UNION {Response(i) : i \in Shards}
<1>1. \A i \in Shards : Response(i) = Best(Of(i)) /\ Response(i) \subseteq Hits
  BY DEF Response, Best
<1>2. U \in SUBSET Hits
  BY <1>1
<1>3. Best(Hits) \subseteq U
  <2> SUFFICES ASSUME NEW h \in Best(Hits) PROVE h \in U
    OBVIOUS
  <2>1. h \in Hits /\ ShardOf[h] \in Shards
    BY BrokerAssumption DEF Best
  <2>2. h \in Of(ShardOf[h]) /\ Of(ShardOf[h]) \in SUBSET Hits
    BY <2>1
  <2> HIDE DEF Of
  <2>3. h \in Best(Of(ShardOf[h]))
    BY <2>2, BestOfPart
  <2> QED
    BY <1>1, <2>1, <2>3
<1> HIDE DEF U
<1>4. Best(U) = Best(Hits)
  BY <1>2, <1>3, BestOfEnough
<1> QED
  BY <1>4 DEF U
-----------------------------------------------------------------------------
(* The state is well formed *)

\* A call that ends leaves the queue, which stays a sequence of calls.
LEMMA RemoveAtType ==
    ASSUME NEW S, NEW s \in Seq(S), NEW j \in DOMAIN s
    PROVE  RemoveAt(s, j) \in Seq(S) /\ s[j] \in S
<1>1. j \in 1..Len(s) /\ Len(s) \in Nat
  OBVIOUS
<1>2. SubSeq(s, 1, j - 1) \in Seq(S) /\ SubSeq(s, j + 1, Len(s)) \in Seq(S)
  BY <1>1
<1> QED
  BY <1>1, <1>2 DEF RemoveAt

\* The initial state.
LEMMA TypeInit == Init => TypeOK
<1> SUFFICES ASSUME Init PROVE TypeOK
  OBVIOUS
<1>1. <<>> \in Seq(CallIds)
  OBVIOUS
<1> QED
  BY <1>1 DEF Init, TypeOK

\* Submitting and ending calls keep their types.
LEMMA SubmitType ==
    ASSUME TypeOK, NEW p \in Pools, NEW d \in Dispatches, NEW i \in Shards, Submit(p, d, i)
    PROVE  /\ call' \in [Pools -> [CallIds -> {"unsent", "pending", "answered", "failed"}]]
           /\ queue' \in [Pools -> Seq(CallIds)]
<1>1. <<d, i>> \in CallIds
  BY DEF CallIds
<1>2. queue[p] \in Seq(CallIds)
  BY DEF TypeOK
<1>3. Append(queue[p], <<d, i>>) \in Seq(CallIds)
  BY <1>1, <1>2
<1> QED
  BY <1>1, <1>3 DEF Submit, TypeOK

\* Every step keeps the types.
LEMMA TypeStep == TypeOK /\ [Next]_vars => TypeOK'
<1> SUFFICES ASSUME TypeOK, [Next]_vars PROVE TypeOK'
  OBVIOUS
<1> USE DEF dispatchVars, poolVars, counterVars
<1>0. N \in Nat
  BY BrokerAssumption
<1>1. ASSUME NEW d \in Dispatches, Begin(d) PROVE TypeOK'
  BY <1>1 DEF Begin, TypeOK
<1>2. ASSUME NEW d \in Dispatches, AddCalls(d) PROVE TypeOK'
  BY <1>0, <1>2 DEF AddCalls, TypeOK
<1>3. ASSUME NEW d \in Dispatches, SubmitPrimary(d) PROVE TypeOK'
  <2>1. PICK i \in Shards : Submit("primary", d, i)
    BY <1>3 DEF SubmitPrimary, Unsent
  <2>2. /\ call' \in [Pools -> [CallIds -> {"unsent", "pending", "answered", "failed"}]]
        /\ queue' \in [Pools -> Seq(CallIds)]
    BY <2>1, SubmitType DEF Pools
  <2>3. \E to \in {"submitting", "waiting", "resolving"} : pc' = [pc EXCEPT ![d] = to]
    BY <1>3 DEF SubmitPrimary
  <2> QED
    BY <1>3, <2>2, <2>3 DEF SubmitPrimary, TypeOK
<1>4. ASSUME NEW d \in Dispatches, StopWaiting(d) PROVE TypeOK'
  <2>1. \E to \in {"resolving", "hedging"} : pc' = [pc EXCEPT ![d] = to]
    BY <1>4 DEF StopWaiting
  <2> QED
    BY <1>4, <2>1 DEF StopWaiting, TypeOK
<1>5. ASSUME NEW d \in Dispatches, SubmitBackup(d) PROVE TypeOK'
  <2>1. PICK i \in Hedges(d) : Submit("backup", d, i)
    BY <1>5 DEF SubmitBackup
  <2>2. i \in Shards
    BY <2>1 DEF Hedges, TypeOK
  <2>3. /\ call' \in [Pools -> [CallIds -> {"unsent", "pending", "answered", "failed"}]]
        /\ queue' \in [Pools -> Seq(CallIds)]
    BY <2>1, <2>2, SubmitType DEF Pools
  <2> QED
    BY <1>5, <2>3 DEF SubmitBackup, TypeOK
<1>6. ASSUME NEW d \in Dispatches, CountBackup(d) PROVE TypeOK'
  BY <1>6 DEF CountBackup, TypeOK
<1>7. ASSUME NEW d \in Dispatches, TallyBackup(d) PROVE TypeOK'
  <2>1. \E to \in {"resolving", "hedging"} : pc' = [pc EXCEPT ![d] = to]
    BY <1>7 DEF TallyBackup
  <2> QED
    BY <1>7, <2>1 DEF TallyBackup, TypeOK
<1>8. ASSUME NEW d \in Dispatches, Resolve(d) PROVE TypeOK'
  <2>1. \E to \in {"resolving", "returned", "raised"} : pc' = [pc EXCEPT ![d] = to]
    BY <1>8 DEF Resolve, TakeCall
  <2>2. winner' \in [Dispatches -> [Shards -> Pools \cup {"none"}]]
    <3>1. CASE UNCHANGED winner
      BY <3>1 DEF TypeOK
    <3>2. ASSUME NEW i \in Open(d), NEW p \in Pools, TakeCall(p, d, i)
          PROVE  winner' \in [Dispatches -> [Shards -> Pools \cup {"none"}]]
      BY <3>2 DEF TakeCall, TypeOK
    <3> QED
      BY <1>8, <3>1, <3>2 DEF Resolve
  <2> QED
    BY <1>8, <2>1, <2>2 DEF Resolve, TypeOK
<1>9. ASSUME NEW p \in Pools, Pool(p) PROVE TypeOK'
  <2>1. PICK outcome \in {"answered", "failed"}, j \in DOMAIN queue[p] :
            /\ call' = [call EXCEPT ![p][queue[p][j]] = outcome]
            /\ queue' = [queue EXCEPT ![p] = RemoveAt(@, j)]
            /\ UNCHANGED <<hedged, dispatchVars, counterVars, stage>>
    BY <1>9 DEF Pool, EndCall, Running
  <2>2. RemoveAt(queue[p], j) \in Seq(CallIds) /\ queue[p][j] \in CallIds
    BY RemoveAtType DEF TypeOK
  <2> QED
    BY <2>1, <2>2 DEF TypeOK
<1>10. CASE CloseStart \/ Close
  BY <1>10 DEF CloseStart, Close, CloseReplicas, CloseClients, TypeOK
<1>11. CASE UNCHANGED vars
  BY <1>11 DEF vars, TypeOK
<1> QED
  BY <1>1, <1>2, <1>3, <1>4, <1>5, <1>6, <1>7, <1>8, <1>9, <1>10, <1>11 DEF Next, Dispatch

\* Every variable keeps its type, for any number of shards and dispatches.
THEOREM TypeCorrect == Spec => []TypeOK
  BY TypeInit, TypeStep, PTL DEF Spec
-----------------------------------------------------------------------------
(* Calls, queues and what dispatches take from them *)

\* A queue holds unfinished calls, each once.
QueueOf(p) ==
    /\ \A j \in DOMAIN queue[p] : call[p][queue[p][j]] = "pending"
    /\ \A j, l \in DOMAIN queue[p] : queue[p][j] = queue[p][l] => j = l

QueueSound == \A p \in Pools : QueueOf(p)

\* What was taken for a shard is an answer.
WinnerAnswered ==
    \A d \in Dispatches, i \in Shards : winner[d][i] # "none" =>
        winner[d][i] \in Pools /\ call[winner[d][i]][<<d, i>>] = "answered"

\* A dispatch that returns has taken a call for every shard.
ReturnedComplete == \A d \in Dispatches : pc[d] = "returned" => Open(d) = {}

\* The plain broker knows no backups.
PlainHasNoBackups ==
    ~hedged =>
        /\ \A d \in Dispatches : pc[d] \notin {"waiting", "hedging", "counting", "tallying"}
        /\ \A c \in CallIds : call["backup"][c] = "unsent"

\* close() finds no dispatch under way, and shuts one pool down after the other.
CloseSound ==
    /\ stage # "open" => \A d \in Dispatches : pc[d] = "idle" \/ Ended(d)
    /\ stage \in {"primaries", "closed"} => Unfinished("backup") = {}
    /\ stage = "closed" => Unfinished("primary") = {}

IInv ==
    /\ TypeOK /\ QueueSound /\ WinnerAnswered /\ ReturnedComplete
    /\ PlainHasNoBackups /\ CloseSound

\* Where the calls of a queue are when one of them has left it.
LEMMA RemoveAtElements ==
    ASSUME NEW S, NEW s \in Seq(S), NEW j \in DOMAIN s
    PROVE  /\ DOMAIN RemoveAt(s, j) = 1..(Len(s) - 1)
           /\ \A l \in 1..(Len(s) - 1) :
                 RemoveAt(s, j)[l] = IF l < j THEN s[l] ELSE s[l + 1]
<1>1. j \in 1..Len(s) /\ Len(s) \in Nat
  OBVIOUS
<1> DEFINE a == SubSeq(s, 1, j - 1)
           b == SubSeq(s, j + 1, Len(s))
<1>2. /\ a \in Seq(S) /\ Len(a) = j - 1 /\ \A l \in 1..(j - 1) : a[l] = s[l]
  BY <1>1
<1>3. /\ b \in Seq(S) /\ Len(b) = Len(s) - j /\ \A l \in 1..(Len(s) - j) : b[l] = s[l + j]
  BY <1>1
<1> HIDE DEF a, b
<1>4. /\ Len(a \o b) = Len(s) - 1 /\ DOMAIN (a \o b) = 1..(Len(s) - 1)
      /\ \A l \in 1..(Len(s) - 1) : (a \o b)[l] = IF l <= j - 1 THEN a[l] ELSE b[l - (j - 1)]
  BY <1>1, <1>2, <1>3
<1>5. \A l \in 1..(Len(s) - 1) : (a \o b)[l] = IF l < j THEN s[l] ELSE s[l + 1]
  <2> SUFFICES ASSUME NEW l \in 1..(Len(s) - 1)
               PROVE  (a \o b)[l] = IF l < j THEN s[l] ELSE s[l + 1]
    OBVIOUS
  <2>1. CASE l < j
    <3>1. l \in 1..(j - 1) /\ l <= j - 1
      BY <1>1, <2>1
    <3>2. (a \o b)[l] = a[l] /\ a[l] = s[l]
      BY <1>2, <1>4, <3>1
    <3> QED
      BY <2>1, <3>2
  <2>2. CASE ~(l < j)
    <3>1. l - (j - 1) \in 1..(Len(s) - j) /\ l - (j - 1) + j = l + 1 /\ ~(l <= j - 1)
      BY <1>1, <2>2
    <3>2. (a \o b)[l] = b[l - (j - 1)]
      BY <1>4, <3>1
    <3>3. b[l - (j - 1)] = s[l - (j - 1) + j]
      BY <1>3, <3>1
    <3>4. s[l - (j - 1) + j] = s[l + 1]
      BY <3>1
    <3> QED
      BY <2>2, <3>2, <3>3, <3>4
  <2> QED
    BY <2>1, <2>2
<1> QED
  BY <1>4, <1>5 DEF RemoveAt, a, b

\* The initial state.
LEMMA InvInit == Init => IInv
<1> SUFFICES ASSUME Init PROVE IInv
  OBVIOUS
<1>1. TypeOK
  BY TypeInit
<1>2. QueueSound
  BY DEF Init, QueueSound, QueueOf
<1>3. WinnerAnswered /\ ReturnedComplete /\ PlainHasNoBackups /\ CloseSound
  BY DEF Init, WinnerAnswered, ReturnedComplete, PlainHasNoBackups, CloseSound, Pools
<1> QED
  BY <1>1, <1>2, <1>3 DEF IInv

\* A call that is submitted was not submitted before.
LEMMA SubmitStep ==
    ASSUME IInv, TypeOK', NEW p \in Pools, NEW d \in Dispatches, NEW i \in Shards,
           call[p][<<d, i>>] = "unsent", Submit(p, d, i), UNCHANGED winner
    PROVE  QueueSound' /\ WinnerAnswered'
<1> USE DEF IInv
<1> DEFINE c == <<d, i>>
<1>0. c \in CallIds
  BY DEF CallIds
<1>1. /\ call' = [call EXCEPT ![p][c] = "pending"]
      /\ queue' = [queue EXCEPT ![p] = Append(queue[p], c)]
  BY DEF Submit, TypeOK
<1>2. \A q \in Pools : queue[q] \in Seq(CallIds)
  BY DEF TypeOK
<1>3. \A j \in DOMAIN queue[p] : queue[p][j] # c
  BY DEF QueueSound, QueueOf
<1>4. WinnerAnswered'
  <2> SUFFICES ASSUME NEW e \in Dispatches, NEW l \in Shards, winner[e][l] # "none"
               PROVE  winner[e][l] \in Pools /\ call'[winner[e][l]][<<e, l>>] = "answered"
    BY DEF WinnerAnswered
  <2>1. winner[e][l] \in Pools /\ call[winner[e][l]][<<e, l>>] = "answered"
    BY DEF WinnerAnswered
  <2>2. winner[e][l] # p \/ <<e, l>> # c
    BY <2>1
  <2>3. <<e, l>> \in CallIds
    BY DEF CallIds
  <2> HIDE DEF c
  <2> QED
    BY <1>0, <1>1, <2>1, <2>2, <2>3 DEF TypeOK
<1> HIDE DEF c
<1>5. QueueSound'
  <2> SUFFICES ASSUME NEW q \in Pools PROVE QueueOf(q)'
    BY DEF QueueSound
  <2>1. CASE q # p
    BY <1>1, <2>1 DEF QueueSound, QueueOf, TypeOK
  <2>2. CASE q = p
    <3>1. /\ queue'[p] = Append(queue[p], c)
          /\ DOMAIN queue'[p] = 1..(Len(queue[p]) + 1) /\ Len(queue[p]) \in Nat
          /\ DOMAIN queue[p] = 1..Len(queue[p])
          /\ \A j \in 1..Len(queue[p]) : queue'[p][j] = queue[p][j] /\ queue[p][j] \in CallIds
          /\ queue'[p][Len(queue[p]) + 1] = c
      BY <1>0, <1>1, <1>2 DEF TypeOK
    <3>2. \A x \in CallIds : call'[p][x] = IF x = c THEN "pending" ELSE call[p][x]
      BY <1>0, <1>1 DEF TypeOK
    <3>3. \A j \in DOMAIN queue'[p] : call'[p][queue'[p][j]] = "pending"
      BY <1>0, <1>3, <3>1, <3>2 DEF QueueSound, QueueOf
    <3>4. \A j, l \in DOMAIN queue'[p] : queue'[p][j] = queue'[p][l] => j = l
      BY <1>3, <3>1 DEF QueueSound, QueueOf
    <3> QED
      BY <2>2, <3>3, <3>4 DEF QueueOf
  <2> QED
    BY <2>1, <2>2
<1> QED
  BY <1>4, <1>5

\* A call that ends was pending, and leaves its queue.
LEMMA EndCallStep ==
    ASSUME IInv, TypeOK', NEW p \in Pools, Pool(p)
    PROVE  IInv'
<1> USE DEF IInv
<1>1. PICK outcome \in {"answered", "failed"}, j \in DOMAIN queue[p] :
          /\ call' = [call EXCEPT ![p][queue[p][j]] = outcome]
          /\ queue' = [queue EXCEPT ![p] = RemoveAt(queue[p], j)]
          /\ UNCHANGED <<hedged, dispatchVars, counterVars, stage>>
  BY DEF Pool, EndCall, Running, TypeOK
<1> DEFINE c == queue[p][j]
           s == queue[p]
<1>2. s \in Seq(CallIds) /\ c \in CallIds /\ Len(s) \in Nat /\ DOMAIN s = 1..Len(s)
  BY <1>1, RemoveAtType DEF TypeOK
<1>3. call[p][c] = "pending"
  BY DEF QueueSound, QueueOf
<1>4. /\ DOMAIN RemoveAt(s, j) = 1..(Len(s) - 1)
      /\ \A l \in 1..(Len(s) - 1) :
            RemoveAt(s, j)[l] = IF l < j THEN s[l] ELSE s[l + 1]
  BY <1>2, RemoveAtElements
<1> HIDE DEF c
<1>5. /\ call' = [call EXCEPT ![p][c] = outcome]
      /\ UNCHANGED <<hedged, pc, winner, stage>>
  BY <1>1 DEF c, dispatchVars
<1>6. \A q \in Pools, x \in CallIds :
          call'[q][x] = IF q = p /\ x = c THEN outcome ELSE call[q][x]
  BY <1>2, <1>5 DEF TypeOK
<1>7. QueueSound'
  <2> SUFFICES ASSUME NEW q \in Pools PROVE QueueOf(q)'
    BY DEF QueueSound
  <2>1. CASE q # p
    BY <1>1, <1>5, <2>1 DEF QueueSound, QueueOf, TypeOK
  <2>2. CASE q = p
    <3>1. queue'[p] = RemoveAt(s, j)
      BY <1>1 DEF TypeOK
    <3> DEFINE old(l) == IF l < j THEN l ELSE l + 1
    <3>2. \A l \in 1..(Len(s) - 1) : old(l) \in DOMAIN s /\ old(l) # j /\ queue'[p][l] = s[old(l)]
      BY <1>2, <1>4, <3>1
    <3>3. \A l \in 1..(Len(s) - 1) : s[old(l)] # c
      BY <3>2 DEF QueueSound, QueueOf, c
    <3>4. \A l \in DOMAIN s : s[l] \in CallIds /\ call[p][s[l]] = "pending"
      BY <1>2 DEF QueueSound, QueueOf
    <3>5. \A l, m \in DOMAIN s : s[l] = s[m] => l = m
      BY DEF QueueSound, QueueOf
    <3>6. \A l, m \in 1..(Len(s) - 1) : old(l) = old(m) => l = m
      BY <1>2
    <3> HIDE DEF old, s
    <3>7. DOMAIN queue'[p] = 1..(Len(s) - 1)
      BY <1>4, <3>1
    <3>8. \A l \in DOMAIN queue'[p] : call'[p][queue'[p][l]] = "pending"
      BY <1>6, <3>2, <3>3, <3>4, <3>7
    <3>9. \A l, m \in DOMAIN queue'[p] : queue'[p][l] = queue'[p][m] => l = m
      BY <3>2, <3>5, <3>6, <3>7
    <3> QED
      BY <2>2, <3>8, <3>9 DEF QueueOf
  <2> QED
    BY <2>1, <2>2
<1>8. WinnerAnswered'
  <2>1. \A d \in Dispatches, i \in Shards : <<d, i>> \in CallIds
    BY DEF CallIds
  <2> QED
    BY <1>3, <1>5, <1>6, <2>1 DEF WinnerAnswered
<1>9. ReturnedComplete'
  BY <1>5 DEF ReturnedComplete, Open
<1>10. PlainHasNoBackups'
  BY <1>2, <1>3, <1>5, <1>6 DEF PlainHasNoBackups, Pools
<1>11. CloseSound'
  <2>1. \A q \in Pools : Unfinished(q)' \subseteq Unfinished(q)
    BY <1>3, <1>6 DEF Unfinished
  <2> QED
    BY <1>5, <2>1 DEF CloseSound, Ended, Pools
<1> QED
  BY <1>7, <1>8, <1>9, <1>10, <1>11

\* IInv is inductive.
LEMMA InvStep == IInv /\ [Next]_vars => IInv'
<1> SUFFICES ASSUME IInv, [Next]_vars PROVE IInv'
  OBVIOUS
<1> USE DEF dispatchVars, poolVars, counterVars
<1>0. TypeOK /\ TypeOK'
  BY TypeStep DEF IInv
<1>a. stage = "open" \/ \A d \in Dispatches : pc[d] \in {"idle", "returned", "raised"}
  BY DEF IInv, CloseSound, Ended
<1>1. ASSUME NEW d \in Dispatches, NEW to, NEW p \in Pools, NEW i \in Shards,
             pc[d] \notin {"idle", "returned", "raised"},
             pc' = [pc EXCEPT ![d] = to], to \notin {"returned"},
             ~hedged => p # "backup" /\ to \notin {"waiting", "hedging", "counting", "tallying"},
             call[p][<<d, i>>] = "unsent", Submit(p, d, i),
             UNCHANGED <<hedged, winner, stage>>
      PROVE  IInv'
  <2>1. QueueSound' /\ WinnerAnswered'
    BY <1>0, <1>1, SubmitStep
  <2>2. ReturnedComplete'
    BY <1>0, <1>1 DEF IInv, ReturnedComplete, Open, TypeOK
  <2>3. PlainHasNoBackups'
    <3>1. <<d, i>> \in CallIds
      BY DEF CallIds
    <3>2. p # "backup" => UNCHANGED call["backup"]
      BY <1>0, <1>1 DEF Submit, TypeOK, Pools
    <3> QED
      BY <1>0, <1>1, <3>1, <3>2 DEF IInv, PlainHasNoBackups, TypeOK
  <2>4. CloseSound'
    BY <1>1, <1>a DEF CloseSound
  <2> QED
    BY <1>0, <2>1, <2>2, <2>3, <2>4 DEF IInv
<1>2. ASSUME NEW d \in Dispatches, NEW to,
             stage = "open", pc' = [pc EXCEPT ![d] = to], to \notin {"returned"},
             ~hedged => to \notin {"waiting", "hedging", "counting", "tallying"},
             UNCHANGED <<hedged, winner, call, queue, stage>>
      PROVE  IInv'
  <2>1. QueueSound' /\ WinnerAnswered'
    BY <1>2 DEF IInv, QueueSound, QueueOf, WinnerAnswered
  <2>2. ReturnedComplete' /\ PlainHasNoBackups'
    BY <1>0, <1>2 DEF IInv, ReturnedComplete, Open, TypeOK, PlainHasNoBackups
  <2>3. CloseSound'
    BY <1>2 DEF CloseSound
  <2> QED
    BY <1>0, <2>1, <2>2, <2>3 DEF IInv
<1>3. ASSUME NEW d \in Dispatches, Begin(d) PROVE IInv'
  <2>1. \E to \in {"adding", "submitting"} : pc' = [pc EXCEPT ![d] = to]
    BY <1>3 DEF Begin
  <2> QED
    BY <1>2, <1>3, <2>1 DEF Begin
<1>4. ASSUME NEW d \in Dispatches, AddCalls(d) PROVE IInv'
  BY <1>2, <1>4, <1>a DEF AddCalls
<1>5. ASSUME NEW d \in Dispatches, SubmitPrimary(d) PROVE IInv'
  <2>1. PICK i \in Unsent(d) :
            /\ Submit("primary", d, i)
            /\ pc' = [pc EXCEPT ![d] = IF Unsent(d) # {i} THEN "submitting"
                                       ELSE IF hedged THEN "waiting"
                                       ELSE "resolving"]
    BY <1>5 DEF SubmitPrimary
  <2>2. i \in Shards /\ call["primary"][<<d, i>>] = "unsent"
    BY DEF Unsent, Sent
  <2>3. PICK to \in {"submitting", "waiting", "resolving"} :
            pc' = [pc EXCEPT ![d] = to] /\ (~hedged => to # "waiting")
    BY <2>1
  <2> QED
    BY <1>1, <1>5, <2>1, <2>2, <2>3 DEF SubmitPrimary, Pools
<1>6. ASSUME NEW d \in Dispatches, StopWaiting(d) PROVE IInv'
  <2>1. PICK to \in {"resolving", "hedging"} : pc' = [pc EXCEPT ![d] = to]
    BY <1>6 DEF StopWaiting
  <2>2. hedged
    BY <1>6 DEF StopWaiting, IInv, PlainHasNoBackups
  <2> QED
    BY <1>2, <1>6, <1>a, <2>1, <2>2 DEF StopWaiting
<1>7. ASSUME NEW d \in Dispatches, SubmitBackup(d) PROVE IInv'
  <2>1. PICK i \in Hedges(d) : Submit("backup", d, i)
    BY <1>7 DEF SubmitBackup
  <2>2. i \in Shards /\ call["backup"][<<d, i>>] = "unsent"
    BY <1>0 DEF Hedges, Sent, TypeOK
  <2>3. hedged
    BY <1>7 DEF SubmitBackup, IInv, PlainHasNoBackups
  <2>4. pc[d] = "hedging" /\ pc' = [pc EXCEPT ![d] = "counting"] /\ UNCHANGED <<hedged, winner, stage>>
    BY <1>7 DEF SubmitBackup
  <2>5. "backup" \in Pools
    BY DEF Pools
  <2>6. pc[d] \notin {"idle", "returned", "raised"} /\ "counting" \notin {"returned"}
    BY <2>4
  <2>7. ~hedged => "backup" # "backup" /\ "counting" \notin {"waiting", "hedging", "counting", "tallying"}
    BY <2>3
  <2> QED
    BY <1>1, <2>1, <2>2, <2>4, <2>5, <2>6, <2>7
<1>8. ASSUME NEW d \in Dispatches, CountBackup(d) PROVE IInv'
  <2>1. hedged
    BY <1>8 DEF CountBackup, IInv, PlainHasNoBackups
  <2> QED
    BY <1>2, <1>8, <1>a, <2>1 DEF CountBackup
<1>9. ASSUME NEW d \in Dispatches, TallyBackup(d) PROVE IInv'
  <2>1. PICK to \in {"resolving", "hedging"} : pc' = [pc EXCEPT ![d] = to]
    BY <1>9 DEF TallyBackup
  <2>2. hedged
    BY <1>9 DEF TallyBackup, IInv, PlainHasNoBackups
  <2> QED
    BY <1>2, <1>9, <1>a, <2>1, <2>2 DEF TallyBackup
<1>10. ASSUME NEW d \in Dispatches, Resolve(d) PROVE IInv'
  <2>0. pc[d] = "resolving" /\ UNCHANGED <<hedged, call, queue, stage>> /\ stage = "open"
    BY <1>10, <1>a DEF Resolve
  <2>1. ASSUME pc' = [pc EXCEPT ![d] = "raised"], UNCHANGED winner PROVE IInv'
    BY <1>2, <2>0, <2>1
  <2>2. ASSUME NEW i \in Open(d), NEW p \in Pools, i \in Answered(p, d), TakeCall(p, d, i)
        PROVE  IInv'
    <3>1. winner' = [winner EXCEPT ![d][i] = p] /\ i \in Shards
      BY <2>2 DEF TakeCall, Open
    <3>2. QueueSound' /\ PlainHasNoBackups' /\ CloseSound'
      BY <1>0, <2>0, <2>2 DEF IInv, QueueSound, QueueOf, PlainHasNoBackups, CloseSound, TakeCall, TypeOK
    <3>3. WinnerAnswered'
      <4>1. call[p][<<d, i>>] = "answered"
        BY <2>2 DEF Answered
      <4>2. \A e \in Dispatches, l \in Shards :
                winner'[e][l] = IF e = d /\ l = i THEN p ELSE winner[e][l]
        BY <1>0, <3>1 DEF TypeOK
      <4>3. UNCHANGED call
        BY <2>0
      <4> QED
        BY <4>1, <4>2, <4>3 DEF IInv, WinnerAnswered
    <3>4. ReturnedComplete'
      <4>1. "none" \notin Pools
        BY DEF Pools
      <4>2. Open(d)' = Open(d) \ {i}
        BY <1>0, <3>1, <4>1 DEF Open, TypeOK
      <4>3. \A e \in Dispatches : e # d => Open(e)' = Open(e) /\ pc'[e] = pc[e]
        BY <1>0, <2>2, <3>1 DEF Open, TakeCall, TypeOK
      <4>4. pc'[d] = "returned" => Open(d) = {i}
        BY <1>0, <2>2 DEF TakeCall, TypeOK
      <4> QED
        BY <4>2, <4>3, <4>4 DEF IInv, ReturnedComplete
    <3> QED
      BY <1>0, <3>2, <3>3, <3>4 DEF IInv
  <2> QED
    BY <1>10, <2>1, <2>2 DEF Resolve
<1>11. ASSUME NEW p \in Pools, Pool(p) PROVE IInv'
  BY <1>0, <1>11, EndCallStep
<1>12. CASE CloseStart \/ Close
  <2>1. UNCHANGED <<hedged, pc, winner, call, queue>>
    BY <1>12 DEF CloseStart, Close, CloseReplicas, CloseClients
  <2>2. QueueSound' /\ WinnerAnswered' /\ ReturnedComplete' /\ PlainHasNoBackups'
    BY <2>1 DEF IInv, QueueSound, QueueOf, WinnerAnswered, ReturnedComplete, Open, PlainHasNoBackups
  <2>3. CloseSound'
    <3>1. CASE CloseStart
      <4>1. ~hedged => Unfinished("backup") = {}
        BY DEF IInv, PlainHasNoBackups, Unfinished
      <4> QED
        BY <2>1, <3>1, <4>1 DEF CloseStart, CloseSound, Unfinished, Ended
    <3>2. CASE Close
      BY <2>1, <3>2 DEF IInv, Close, CloseReplicas, CloseClients, CloseSound, Unfinished, Ended, Quiet
    <3> QED
      BY <1>12, <3>1, <3>2
  <2> QED
    BY <1>0, <2>2, <2>3 DEF IInv
<1>13. CASE UNCHANGED vars
  BY <1>0, <1>13 DEF vars, IInv, QueueSound, QueueOf, WinnerAnswered, ReturnedComplete, Open,
     PlainHasNoBackups, CloseSound, Unfinished, Ended
<1> QED
  BY <1>3, <1>4, <1>5, <1>6, <1>7, <1>8, <1>9, <1>10, <1>11, <1>12, <1>13 DEF Next, Dispatch

\* Every state satisfies IInv.
LEMMA Inductive == Spec => []IInv
  BY InvInit, InvStep, PTL DEF Spec

\* A dispatch that returns has the best hits of the whole corpus, whatever is
\* hedged, whichever calls win and whatever else the pools run.
THEOREM AnswersAreExact == Spec => []AnswerExact
<1>1. IInv => AnswerExact
  <2> SUFFICES ASSUME IInv, NEW d \in Dispatches, pc[d] = "returned" PROVE Answer(d) = Best(Hits)
    BY DEF AnswerExact
  <2>1. \A i \in Shards : Reply(winner[d][i], d, i) = Response(i)
    BY DEF IInv, ReturnedComplete, Open, WinnerAnswered, Reply, Answered, ShardCalled
  <2>2. UNION {Reply(winner[d][i], d, i) : i \in Shards} = UNION {Response(i) : i \in Shards}
    BY <2>1
  <2> QED
    BY <2>2, MergeIsExact DEF Answer
<1> QED
  BY <1>1, Inductive, PTL

\* close() closes no channel that an abandoned call still uses.
THEOREM ChannelsOutliveCalls == Spec => []ClientsOutliveCalls
<1>1. IInv => ClientsOutliveCalls
  BY DEF IInv, TypeOK, CloseSound, ClientsOutliveCalls
<1> QED
  BY <1>1, Inductive, PTL
-----------------------------------------------------------------------------
(* The counters of the hedged broker *)

\* The calls that were submitted to a pool.
Calls(p) == {c \in CallIds : call[p][c] # "unsent"}

\* The dispatches total_shard_calls counts, and those that have submitted a
\* backup backup_calls_sent does not count yet.
Started == {d \in Dispatches : pc[d] \notin {"idle", "adding"}}
Owing == {d \in Dispatches : pc[d] \in {"counting", "tallying"}}

\* One dispatch at a time is between the read and the write of a counter, and
\* what it has read is still the counter's value.
LockInv ==
    /\ \A d, e \in Dispatches :
          pc[d] \in {"adding", "tallying"} /\ pc[e] \in {"adding", "tallying"} => d = e
    /\ \A d \in Dispatches : /\ pc[d] = "adding" => seen[d] = total
                             /\ pc[d] = "tallying" => seen[d] = sent

\* A dispatch submits its primaries while it is submitting, and all of them.
PrimaryInv ==
    \A d \in Dispatches, i \in Shards :
        /\ pc[d] \in {"idle", "adding"} => call["primary"][<<d, i>>] = "unsent"
        /\ pc[d] \notin {"idle", "adding", "submitting"} => call["primary"][<<d, i>>] # "unsent"

\* What the counters say.
CountInv ==
    /\ total = N * Cardinality(Started)
    /\ Cardinality(Calls("backup")) = sent + Cardinality(Owing)

\* There are finitely many calls.
LEMMA CallsFinite ==
    /\ IsFiniteSet(Shards) /\ Cardinality(Shards) = N /\ IsFiniteSet(CallIds)
<1>1. N \in Nat /\ N \in Int /\ 1 \in Int /\ ~(1 > N) /\ N - 1 + 1 = N
  BY BrokerAssumption
<1>2. IsFiniteSet(1..N) /\ Cardinality(1..N) = IF 1 > N THEN 0 ELSE N - 1 + 1
  BY <1>1, FS_Interval
<1>3. IsFiniteSet(Shards) /\ Cardinality(Shards) = N
  BY <1>1, <1>2 DEF Shards
<1>4. IsFiniteSet(Dispatches)
  BY BrokerAssumption
<1>5. IsFiniteSet(Dispatches \X Shards)
  BY <1>3, <1>4, FS_Product
<1> QED
  BY <1>3, <1>5 DEF CallIds

\* What a call that ends does to the calls: none is submitted, none forgotten.
LEMMA EndKeepsCalls ==
    ASSUME IInv, NEW p \in Pools, Pool(p)
    PROVE  /\ UNCHANGED <<hedged, pc, seen, total, sent>>
           /\ \A q \in Pools, x \in CallIds :
                 call'[q][x] = "unsent" <=> call[q][x] = "unsent"
<1>1. PICK outcome \in {"answered", "failed"}, j \in DOMAIN queue[p] :
          /\ call' = [call EXCEPT ![p][queue[p][j]] = outcome]
          /\ UNCHANGED <<hedged, dispatchVars, counterVars, stage>>
  BY DEF Pool, EndCall, Running, IInv, TypeOK
<1> DEFINE c == queue[p][j]
<1>2. call[p][c] = "pending"
  BY DEF IInv, QueueSound, QueueOf
<1>3. call' = [call EXCEPT ![p][c] = outcome]
  BY <1>1
<1>4. queue[p] \in Seq(CallIds) /\ c \in CallIds
  BY <1>1 DEF IInv, TypeOK
<1> HIDE DEF c
<1>5. \A q \in Pools, x \in CallIds :
          call'[q][x] = IF q = p /\ x = c THEN outcome ELSE call[q][x]
  BY <1>3, <1>4 DEF IInv, TypeOK
<1> QED
  BY <1>1, <1>2, <1>5 DEF dispatchVars, counterVars

\* What a submission does to the calls.
LEMMA SubmitAdds ==
    ASSUME TypeOK, NEW p \in Pools, NEW d \in Dispatches, NEW i \in Shards, Submit(p, d, i)
    PROVE  /\ <<d, i>> \in CallIds
           /\ \A q \in Pools, x \in CallIds :
                 call'[q][x] = IF q = p /\ x = <<d, i>> THEN "pending" ELSE call[q][x]
<1> DEFINE c == <<d, i>>
<1>1. c \in CallIds
  BY DEF CallIds
<1>2. call' = [call EXCEPT ![p][c] = "pending"]
  BY DEF Submit
<1> HIDE DEF c
<1>3. \A q \in Pools, x \in CallIds :
          call'[q][x] = IF q = p /\ x = c THEN "pending" ELSE call[q][x]
  BY <1>1, <1>2 DEF TypeOK
<1> QED
  BY <1>1, <1>3 DEF c

\* The lock makes the read and the write of a counter one step.
LEMMA NextLock == IInv /\ hedged /\ LockInv /\ [Next]_vars => LockInv'
<1> SUFFICES ASSUME IInv, hedged, LockInv, [Next]_vars PROVE LockInv'
  OBVIOUS
<1> USE DEF dispatchVars, poolVars, counterVars
<1>1. ASSUME NEW d \in Dispatches, Begin(d) \/ CountBackup(d) PROVE LockInv'
  BY <1>1 DEF Begin, CountBackup, LockFree, LockInv, IInv, TypeOK
<1>2. ASSUME NEW d \in Dispatches, AddCalls(d) \/ TallyBackup(d) PROVE LockInv'
  <2>1. /\ pc[d] \in {"adding", "tallying"} /\ UNCHANGED <<hedged, call>>
        /\ \E to \in {"submitting", "resolving", "hedging"} : pc' = [pc EXCEPT ![d] = to]
    BY <1>2 DEF AddCalls, TallyBackup
  <2>2. \A e \in Dispatches : pc'[e] \notin {"adding", "tallying"}
    BY <2>1 DEF LockInv, IInv, TypeOK
  <2> QED
    BY <2>2 DEF LockInv
<1>3. ASSUME NEW d \in Dispatches, NEW to, to \notin {"adding", "tallying"},
             pc' = [pc EXCEPT ![d] = to], UNCHANGED <<seen, total, sent>>
      PROVE  LockInv'
  BY <1>3 DEF LockInv, IInv, TypeOK
<1>4. ASSUME UNCHANGED <<pc, seen, total, sent>> PROVE LockInv'
  BY <1>4 DEF LockInv
<1>5. ASSUME NEW d \in Dispatches, SubmitPrimary(d) PROVE LockInv'
  <2>1. \E to \in {"submitting", "waiting", "resolving"} : pc' = [pc EXCEPT ![d] = to]
    BY <1>5 DEF SubmitPrimary
  <2> QED
    BY <1>3, <1>5, <2>1 DEF SubmitPrimary
<1>6. ASSUME NEW d \in Dispatches, StopWaiting(d) PROVE LockInv'
  <2>1. \E to \in {"hedging", "resolving"} : pc' = [pc EXCEPT ![d] = to]
    BY <1>6 DEF StopWaiting
  <2> QED
    BY <1>3, <1>6, <2>1 DEF StopWaiting
<1>7. ASSUME NEW d \in Dispatches, SubmitBackup(d) PROVE LockInv'
  BY <1>3, <1>7 DEF SubmitBackup
<1>8. ASSUME NEW d \in Dispatches, Resolve(d) PROVE LockInv'
  <2>1. \E to \in {"returned", "raised", "resolving"} : pc' = [pc EXCEPT ![d] = to]
    BY <1>8 DEF Resolve, TakeCall
  <2> QED
    BY <1>3, <1>8, <2>1 DEF Resolve
<1>9. ASSUME NEW p \in Pools, Pool(p) PROVE LockInv'
  BY <1>4, <1>9, EndKeepsCalls
<1>10. CASE CloseStart \/ Close \/ UNCHANGED vars
  BY <1>4, <1>10 DEF CloseStart, Close, CloseReplicas, CloseClients, vars
<1> QED
  BY <1>1, <1>2, <1>5, <1>6, <1>7, <1>8, <1>9, <1>10 DEF Next, Dispatch

\* Primaries are submitted in the submitting phase only.
LEMMA NextPrimary == IInv /\ hedged /\ PrimaryInv /\ [Next]_vars => PrimaryInv'
<1> SUFFICES ASSUME IInv, hedged, PrimaryInv, [Next]_vars PROVE PrimaryInv'
  OBVIOUS
<1> USE DEF dispatchVars, poolVars, counterVars
<1>c. "primary" \in Pools /\ "backup" \in Pools /\ \A d \in Dispatches, i \in Shards : <<d, i>> \in CallIds
  BY DEF Pools, CallIds
<1>1. ASSUME NEW d \in Dispatches, SubmitPrimary(d) PROVE PrimaryInv'
  <2>1. PICK i \in Unsent(d) :
            /\ Submit("primary", d, i)
            /\ pc' = [pc EXCEPT ![d] = IF Unsent(d) # {i} THEN "submitting"
                                       ELSE IF hedged THEN "waiting"
                                       ELSE "resolving"]
    BY <1>1 DEF SubmitPrimary
  <2>2. i \in Shards /\ pc[d] = "submitting"
    BY <1>1 DEF Unsent, SubmitPrimary
  <2>3. \A x \in CallIds : call'["primary"][x] =
            IF x = <<d, i>> THEN "pending" ELSE call["primary"][x]
    <3>1. TypeOK /\ "primary" \in Pools
      BY <1>c DEF IInv
    <3>2. \A q \in Pools, x \in CallIds :
              call'[q][x] = IF q = "primary" /\ x = <<d, i>> THEN "pending" ELSE call[q][x]
      BY <2>1, <2>2, <3>1, SubmitAdds
    <3> QED
      BY <1>c, <3>2
  <2>4. pc'[d] = "submitting" \/ Unsent(d) = {i}
    BY <2>1 DEF IInv, TypeOK
  <2>5. pc'[d] # "idle" /\ pc'[d] # "adding" /\ \A e \in Dispatches : e # d => pc'[e] = pc[e]
    BY <2>1 DEF IInv, TypeOK
  <2>6. Unsent(d) = {i} => \A l \in Shards : l = i \/ call["primary"][<<d, l>>] # "unsent"
    BY DEF Unsent, Sent
  <2>7. \A e \in Dispatches, l \in Shards :
            call'["primary"][<<e, l>>] =
                IF e = d /\ l = i THEN "pending" ELSE call["primary"][<<e, l>>]
    BY <1>c, <2>3
  <2>8. ASSUME NEW e \in Dispatches, NEW l \in Shards
        PROVE  /\ pc'[e] \in {"idle", "adding"} => call'["primary"][<<e, l>>] = "unsent"
               /\ pc'[e] \notin {"idle", "adding", "submitting"} =>
                      call'["primary"][<<e, l>>] # "unsent"
    <3>1. CASE e = d
      BY <2>4, <2>5, <2>6, <2>7, <3>1
    <3>2. CASE e # d
      BY <2>5, <2>7, <3>2 DEF PrimaryInv
    <3> QED
      BY <3>1, <3>2
  <2> QED
    BY <2>8 DEF PrimaryInv
<1>2. ASSUME NEW d \in Dispatches,
             \A x \in CallIds : call'["primary"][x] = call["primary"][x],
             NEW to, pc' = [pc EXCEPT ![d] = to],
             to \in {"idle", "adding"} => pc[d] \in {"idle", "adding"},
             to \notin {"idle", "adding", "submitting"} =>
                 pc[d] \notin {"idle", "adding", "submitting"}
      PROVE  PrimaryInv'
  BY <1>2, <1>c DEF PrimaryInv, IInv, TypeOK
<1>3. ASSUME NEW d \in Dispatches, Begin(d) PROVE PrimaryInv'
  BY <1>2, <1>3 DEF Begin
<1>4. ASSUME NEW d \in Dispatches, AddCalls(d) PROVE PrimaryInv'
  BY <1>2, <1>4 DEF AddCalls
<1>5. ASSUME NEW d \in Dispatches, StopWaiting(d) PROVE PrimaryInv'
  <2>1. \E to \in {"hedging", "resolving"} : pc' = [pc EXCEPT ![d] = to]
    BY <1>5 DEF StopWaiting
  <2> QED
    BY <1>2, <1>5, <2>1 DEF StopWaiting
<1>6. ASSUME NEW d \in Dispatches, SubmitBackup(d) PROVE PrimaryInv'
  <2>1. PICK i \in Hedges(d) : Submit("backup", d, i)
    BY <1>6 DEF SubmitBackup
  <2>2. i \in Shards
    BY DEF Hedges, IInv, TypeOK
  <2>3. \A x \in CallIds : call'["primary"][x] = call["primary"][x]
    <3>1. TypeOK /\ "backup" \in Pools
      BY <1>c DEF IInv
    <3>2. \A q \in Pools, x \in CallIds :
              call'[q][x] = IF q = "backup" /\ x = <<d, i>> THEN "pending" ELSE call[q][x]
      BY <2>1, <2>2, <3>1, SubmitAdds
    <3> QED
      BY <1>c, <3>2
  <2> QED
    BY <1>2, <1>6, <2>3 DEF SubmitBackup
<1>7. ASSUME NEW d \in Dispatches, CountBackup(d) PROVE PrimaryInv'
  BY <1>2, <1>7 DEF CountBackup
<1>8. ASSUME NEW d \in Dispatches, TallyBackup(d) PROVE PrimaryInv'
  <2>1. \E to \in {"hedging", "resolving"} : pc' = [pc EXCEPT ![d] = to]
    BY <1>8 DEF TallyBackup
  <2> QED
    BY <1>2, <1>8, <2>1 DEF TallyBackup
<1>9. ASSUME NEW d \in Dispatches, Resolve(d) PROVE PrimaryInv'
  <2>1. \E to \in {"returned", "raised", "resolving"} : pc' = [pc EXCEPT ![d] = to]
    BY <1>9 DEF Resolve, TakeCall
  <2> QED
    BY <1>2, <1>9, <2>1 DEF Resolve
<1>10. ASSUME NEW p \in Pools, Pool(p) PROVE PrimaryInv'
  BY <1>10, <1>c, EndKeepsCalls DEF PrimaryInv
<1>11. CASE CloseStart \/ Close \/ UNCHANGED vars
  BY <1>11 DEF PrimaryInv, CloseStart, Close, CloseReplicas, CloseClients, vars
<1> QED
  BY <1>1, <1>3, <1>4, <1>5, <1>6, <1>7, <1>8, <1>9, <1>10, <1>11 DEF Next, Dispatch

\* Every step keeps the counters in step with the calls.
LEMMA NextCount == IInv /\ hedged /\ LockInv /\ CountInv /\ [Next]_vars => CountInv'
<1> SUFFICES ASSUME IInv, hedged, LockInv, CountInv, [Next]_vars PROVE CountInv'
  OBVIOUS
<1> USE DEF dispatchVars, poolVars, counterVars
<1>c. "primary" \in Pools /\ "backup" \in Pools /\ N \in Nat /\ total \in Nat /\ sent \in Nat
  BY BrokerAssumption DEF Pools, IInv, TypeOK
<1>f. /\ IsFiniteSet(Started) /\ IsFiniteSet(Owing) /\ IsFiniteSet(Calls("backup"))
      /\ Cardinality(Started) \in Nat /\ Cardinality(Owing) \in Nat
  <2>1. IsFiniteSet(Dispatches) /\ Started \subseteq Dispatches /\ Owing \subseteq Dispatches
    BY BrokerAssumption DEF Started, Owing
  <2>2. Calls("backup") \subseteq CallIds
    BY DEF Calls
  <2>3. IsFiniteSet(Started) /\ IsFiniteSet(Owing) /\ IsFiniteSet(Calls("backup"))
    BY <2>1, <2>2, CallsFinite, FS_Subset
  <2> QED
    BY <2>3, FS_CardinalityType
<1>1. ASSUME NEW d \in Dispatches, AddCalls(d) PROVE CountInv'
  <2>1. /\ pc[d] = "adding" /\ pc' = [pc EXCEPT ![d] = "submitting"]
        /\ total' = total + N /\ UNCHANGED <<call, sent>>
    BY <1>1 DEF AddCalls, LockInv
  <2>2. Started' = Started \cup {d} /\ d \notin Started
    BY <2>1 DEF Started, IInv, TypeOK
  <2>3. Owing' = Owing /\ Calls("backup")' = Calls("backup")
    BY <2>1 DEF Owing, Calls, IInv, TypeOK
  <2>4. Cardinality(Started') = Cardinality(Started) + 1
    BY <1>f, <2>2, FS_AddElement
  <2>5. \A c \in Nat : N * (c + 1) = N * c + N
    BY <1>c
  <2>6. total' = N * Cardinality(Started')
    BY <1>f, <2>1, <2>4, <2>5 DEF CountInv
  <2> QED
    BY <2>1, <2>3, <2>6 DEF CountInv
<1>2. ASSUME NEW d \in Dispatches, SubmitBackup(d) PROVE CountInv'
  <2>1. PICK i \in Hedges(d) : Submit("backup", d, i)
    BY <1>2 DEF SubmitBackup
  <2>2. i \in Shards /\ call["backup"][<<d, i>>] = "unsent"
    BY DEF Hedges, Sent, IInv, TypeOK
  <2>3. /\ pc[d] = "hedging" /\ pc' = [pc EXCEPT ![d] = "counting"]
        /\ UNCHANGED <<total, sent>>
    BY <1>2 DEF SubmitBackup
  <2>4. Started' = Started
    BY <2>3 DEF Started, IInv, TypeOK
  <2>5. Owing' = Owing \cup {d} /\ d \notin Owing
    BY <2>3 DEF Owing, IInv, TypeOK
  <2>6. /\ <<d, i>> \in CallIds
        /\ \A x \in CallIds : call'["backup"][x] =
               IF x = <<d, i>> THEN "pending" ELSE call["backup"][x]
    BY <1>c, <2>1, <2>2, SubmitAdds DEF IInv
  <2>7. Calls("backup")' = Calls("backup") \cup {<<d, i>>} /\ <<d, i>> \notin Calls("backup")
    BY <2>2, <2>6 DEF Calls
  <2>8. Cardinality(Owing') = Cardinality(Owing) + 1
    BY <1>f, <2>5, FS_AddElement
  <2>9. Cardinality(Calls("backup")') = Cardinality(Calls("backup")) + 1
    BY <1>f, <2>7, FS_AddElement
  <2> HIDE DEF Calls, Owing, Started
  <2> QED
    BY <1>c, <1>f, <2>3, <2>4, <2>8, <2>9 DEF CountInv
<1>3. ASSUME NEW d \in Dispatches, TallyBackup(d) PROVE CountInv'
  <2>1. /\ pc[d] = "tallying" /\ sent' = sent + 1 /\ UNCHANGED <<call, total>>
        /\ \E to \in {"hedging", "resolving"} : pc' = [pc EXCEPT ![d] = to]
    BY <1>3 DEF TallyBackup, LockInv
  <2>2. Started' = Started /\ Calls("backup")' = Calls("backup")
    BY <2>1 DEF Started, Calls, IInv, TypeOK
  <2>3. Owing' = Owing \ {d} /\ d \in Owing
    BY <2>1 DEF Owing, IInv, TypeOK
  <2>4. Cardinality(Owing') = Cardinality(Owing) - 1
    BY <1>f, <2>3, FS_RemoveElement
  <2> QED
    BY <1>c, <1>f, <2>1, <2>2, <2>4 DEF CountInv
<1>4. ASSUME NEW d \in Dispatches, NEW to, pc' = [pc EXCEPT ![d] = to],
             to \in {"idle", "adding"} <=> pc[d] \in {"idle", "adding"},
             to \in {"counting", "tallying"} <=> pc[d] \in {"counting", "tallying"},
             \A x \in CallIds : call'["backup"][x] = call["backup"][x],
             UNCHANGED <<total, sent>>
      PROVE  CountInv'
  <2>1. Started' = Started
    BY <1>4 DEF Started, IInv, TypeOK
  <2>2. Owing' = Owing
    BY <1>4 DEF Owing, IInv, TypeOK
  <2>3. Calls("backup")' = Calls("backup")
    BY <1>4 DEF Calls
  <2> QED
    BY <1>4, <2>1, <2>2, <2>3 DEF CountInv
<1>5. ASSUME NEW d \in Dispatches, Begin(d) PROVE CountInv'
  BY <1>4, <1>5 DEF Begin
<1>6. ASSUME NEW d \in Dispatches, SubmitPrimary(d) PROVE CountInv'
  <2>1. PICK i \in Unsent(d) : Submit("primary", d, i)
    BY <1>6 DEF SubmitPrimary
  <2>2. i \in Shards
    BY DEF Unsent
  <2>3. \A x \in CallIds : call'["backup"][x] = call["backup"][x]
    <3>1. TypeOK /\ "primary" \in Pools
      BY <1>c DEF IInv
    <3>2. \A q \in Pools, x \in CallIds :
              call'[q][x] = IF q = "primary" /\ x = <<d, i>> THEN "pending" ELSE call[q][x]
      BY <2>1, <2>2, <3>1, SubmitAdds
    <3> QED
      BY <1>c, <3>2
  <2>4. \E to \in {"submitting", "waiting", "resolving"} : pc' = [pc EXCEPT ![d] = to]
    BY <1>6 DEF SubmitPrimary
  <2> QED
    BY <1>4, <1>6, <2>3, <2>4 DEF SubmitPrimary
<1>7. ASSUME NEW d \in Dispatches, StopWaiting(d) PROVE CountInv'
  <2>1. \E to \in {"hedging", "resolving"} : pc' = [pc EXCEPT ![d] = to]
    BY <1>7 DEF StopWaiting
  <2> QED
    BY <1>4, <1>7, <2>1 DEF StopWaiting
<1>8. ASSUME NEW d \in Dispatches, CountBackup(d) PROVE CountInv'
  BY <1>4, <1>8 DEF CountBackup
<1>9. ASSUME NEW d \in Dispatches, Resolve(d) PROVE CountInv'
  <2>1. \E to \in {"returned", "raised", "resolving"} : pc' = [pc EXCEPT ![d] = to]
    BY <1>9 DEF Resolve, TakeCall
  <2> QED
    BY <1>4, <1>9, <2>1 DEF Resolve
<1>10. ASSUME NEW p \in Pools, Pool(p) PROVE CountInv'
  <2>1. /\ UNCHANGED <<pc, total, sent>>
        /\ \A x \in CallIds : call'["backup"][x] = "unsent" <=> call["backup"][x] = "unsent"
    BY <1>10, <1>c, EndKeepsCalls
  <2>2. Started' = Started /\ Owing' = Owing /\ Calls("backup")' = Calls("backup")
    BY <2>1 DEF Started, Owing, Calls
  <2> QED
    BY <2>1, <2>2 DEF CountInv
<1>11. CASE CloseStart \/ Close \/ UNCHANGED vars
  <2>1. UNCHANGED <<pc, call, total, sent>>
    BY <1>11 DEF CloseStart, Close, CloseReplicas, CloseClients, vars
  <2> QED
    BY <2>1 DEF CountInv, Started, Owing, Calls
<1> QED
  BY <1>1, <1>2, <1>3, <1>5, <1>6, <1>7, <1>8, <1>9, <1>10, <1>11 DEF Next, Dispatch

\* Between dispatches total_shard_calls and backup_calls_sent are the numbers of
\* calls that were made, however many threads counted at once (broker.py:90-96).
THEOREM CountersAreExact == Spec => []CountersExact
<1> DEFINE Inv == hedged => LockInv /\ PrimaryInv /\ CountInv
<1>1. Init => Inv
  <2> SUFFICES ASSUME Init PROVE LockInv /\ PrimaryInv /\ CountInv
    OBVIOUS
  <2>1. LockInv /\ PrimaryInv
    BY DEF Init, LockInv, PrimaryInv, CallIds, Pools
  <2>2. Started = {} /\ Owing = {} /\ Calls("backup") = {}
    BY DEF Init, Started, Owing, Calls, Pools
  <2>3. total = 0 /\ sent = 0 /\ N * 0 = 0
    BY BrokerAssumption DEF Init
  <2> QED
    BY <2>1, <2>2, <2>3, FS_EmptySet DEF CountInv
<1>2. IInv /\ Inv /\ [Next]_vars => Inv'
  <2>1. [Next]_vars => UNCHANGED hedged
    BY DEF Next, Begin, Dispatch, AddCalls, SubmitPrimary, StopWaiting, SubmitBackup, CountBackup,
           TallyBackup, Resolve, Pool, EndCall, CloseStart, Close, CloseReplicas, CloseClients, vars
  <2> QED
    BY <2>1, NextLock, NextPrimary, NextCount
<1>3. IInv /\ Inv => CountersExact
  <2> SUFFICES ASSUME IInv, hedged, LockInv, PrimaryInv, CountInv,
                      \A d \in Dispatches : pc[d] = "idle" \/ Ended(d)
               PROVE  total = Cardinality(Calls("primary")) /\ sent = Cardinality(Calls("backup"))
    BY DEF CountersExact, Calls
  <2>1. Calls("primary") = Started \X Shards
    <3>1. \A d \in Dispatches, i \in Shards :
              call["primary"][<<d, i>>] # "unsent" <=> d \in Started
      BY DEF PrimaryInv, Started, Ended
    <3>2. Started \subseteq Dispatches
      BY DEF Started
    <3> QED
      BY <3>1, <3>2 DEF Calls, CallIds
  <2>2. IsFiniteSet(Started) /\ Owing = {}
    <3>1. IsFiniteSet(Dispatches) /\ Started \subseteq Dispatches
      BY BrokerAssumption DEF Started
    <3>2. Owing = {}
      BY DEF Owing, Ended
    <3> QED
      BY <3>1, <3>2, FS_Subset
  <2>3. Cardinality(Started) \in Nat /\ N \in Nat /\ sent \in Nat /\ Cardinality(Owing) = 0
    BY <2>2, FS_CardinalityType, FS_EmptySet, BrokerAssumption DEF IInv, TypeOK
  <2>4. Cardinality(Started \X Shards) = Cardinality(Started) * N
    BY <2>2, CallsFinite, FS_Product
  <2>5. Cardinality(Started) * N = N * Cardinality(Started)
    BY <2>3
  <2>6. total = Cardinality(Calls("primary"))
    BY <2>1, <2>4, <2>5 DEF CountInv
  <2>7. sent = Cardinality(Calls("backup"))
    BY <2>3 DEF CountInv
  <2> QED
    BY <2>6, <2>7
<1> HIDE DEF Inv
<1> QED
  BY <1>1, <1>2, <1>3, Inductive, PTL DEF Spec
=============================================================================
