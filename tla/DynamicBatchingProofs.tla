------------------------ MODULE DynamicBatchingProofs ------------------------
(***************************************************************************)
(* Proofs about DynamicBatching, for any number of warm-up calls and       *)
(* arrivals, any batch size, wait and queue depth that leave the pool more *)
(* threads than can be blocked.                                            *)
(***************************************************************************)
EXTENDS DynamicBatching, FiniteSetTheorems, SequenceTheorems, TLAPS

(* Sequences of requests *)

Once(s) == \A i, j \in DOMAIN s : s[i] = s[j] => i = j

LEMMA ElementsEmpty ==
    /\ Elements(<<>>) = {} /\ Once(<<>>) /\ <<>> \in Seq(Requests) /\ Len(<<>>) = 0
BY EmptySeq DEF Elements, Once

\* What is appended is an element more, at the end.
LEMMA ElementsAppend ==
    ASSUME NEW s \in Seq(Requests), NEW r \in Requests
    PROVE  /\ Append(s, r) \in Seq(Requests)
           /\ Len(Append(s, r)) = Len(s) + 1
           /\ Elements(Append(s, r)) = Elements(s) \cup {r}
           /\ Once(s) /\ r \notin Elements(s) => Once(Append(s, r))
<1>1. /\ Append(s, r) \in Seq(Requests) /\ Len(Append(s, r)) = Len(s) + 1
      /\ DOMAIN s = 1..Len(s) /\ Len(s) \in Nat
      /\ DOMAIN Append(s, r) = 1..(Len(s) + 1)
      /\ \A i \in 1..Len(s) : Append(s, r)[i] = s[i]
      /\ Append(s, r)[Len(s) + 1] = r
  BY AppendProperties, LenProperties
<1>2. Elements(Append(s, r)) = Elements(s) \cup {r}
  <2>1. ASSUME NEW x \in Elements(Append(s, r)) PROVE x \in Elements(s) \cup {r}
    BY <1>1, <2>1 DEF Elements
  <2>2. ASSUME NEW x \in Elements(s) PROVE x \in Elements(Append(s, r))
    BY <1>1, <2>2 DEF Elements
  <2>3. r \in Elements(Append(s, r))
    BY <1>1 DEF Elements
  <2> QED
    BY <2>1, <2>2, <2>3
<1>3. ASSUME Once(s), r \notin Elements(s) PROVE Once(Append(s, r))
  <2> SUFFICES ASSUME NEW i \in 1..(Len(s) + 1), NEW j \in 1..(Len(s) + 1),
                      Append(s, r)[i] = Append(s, r)[j]
               PROVE  i = j
    BY <1>1 DEF Once
  <2>1. \A k \in 1..Len(s) : s[k] # r
    BY <1>1, <1>3 DEF Elements
  <2>2. CASE i \in 1..Len(s) /\ j \in 1..Len(s)
    BY <1>1, <1>3, <2>2 DEF Once
  <2>3. CASE i = Len(s) + 1 /\ j \in 1..Len(s)
    BY <1>1, <2>1, <2>3
  <2>4. CASE j = Len(s) + 1 /\ i \in 1..Len(s)
    BY <1>1, <2>1, <2>4
  <2> QED
    BY <1>1, <2>2, <2>3, <2>4
<1> QED
  BY <1>1, <1>2, <1>3

\* What flush() hands out and what it leaves behind: together they are what
\* was there, each request in one of them.
Rest == SubSeq(items, MaxBatchSize + 1, Len(items))

LEMMA TakenAndRest ==
    ASSUME items \in Seq(Requests)
    PROVE  /\ Taken \in Seq(Requests) /\ Rest \in Seq(Requests)
           /\ Len(Taken) <= MaxBatchSize /\ Len(Rest) <= Len(items)
           /\ items # <<>> => Taken # <<>>
           /\ Elements(items) = Elements(Taken) \cup Elements(Rest)
           /\ Once(items) => /\ Once(Taken) /\ Once(Rest)
                             /\ Elements(Taken) \cap Elements(Rest) = {}
<1> DEFINE b == MaxBatchSize
           n == Len(items)
<1>1. b \in Nat \ {0} /\ n \in Nat /\ DOMAIN items = 1..n /\ \A i \in 1..n : items[i] \in Requests
  BY BatchingAssumption, LenProperties, ElementOfSeq
<1>2. CASE n <= b
  <2>1. Taken = items
    BY <1>2 DEF Taken
  <2>2. Rest = <<>>
    BY <1>1, <1>2, SubSeqEmpty DEF Rest
  <2> QED
    BY <1>1, <1>2, <2>1, <2>2, ElementsEmpty
<1>3. CASE n > b
  <2>1. Taken = SubSeq(items, 1, b)
    BY <1>1, <1>3 DEF Taken
  <2>2. /\ Taken \in Seq(Requests) /\ Len(Taken) = b /\ DOMAIN Taken = 1..b
        /\ \A i \in 1..b : Taken[i] = items[i]
    <3>1. \A i \in 1..b : items[i] \in Requests
      BY <1>1, <1>3
    <3>2. /\ SubSeq(items, 1, b) \in Seq(Requests)
          /\ Len(SubSeq(items, 1, b)) = b
          /\ \A i \in 1..b : SubSeq(items, 1, b)[i] = items[i]
      BY <1>1, <3>1, SubSeqProperties
    <3> QED
      BY <2>1, <3>2, LenProperties
  <2>3. /\ Rest \in Seq(Requests) /\ Len(Rest) = n - b /\ DOMAIN Rest = 1..(n - b)
        /\ \A i \in 1..(n - b) : Rest[i] = items[b + i]
    <3>1. \A i \in (b + 1)..n : items[i] \in Requests
      BY <1>1, <1>3
    <3>2. /\ SubSeq(items, b + 1, n) \in Seq(Requests)
          /\ Len(SubSeq(items, b + 1, n)) = n - b
          /\ \A i \in 1..(n - b) : SubSeq(items, b + 1, n)[i] = items[b + i]
      <4> HIDE DEF b, n
      <4>1. b + 1 \in Int /\ n \in Int /\ b + 1 <= n + 1
        BY <1>1, <1>3
      <4>2. /\ SubSeq(items, b + 1, n) \in Seq(Requests)
            /\ Len(SubSeq(items, b + 1, n)) = n - (b + 1) + 1
            /\ \A i \in 1..(n - (b + 1) + 1) :
                  SubSeq(items, b + 1, n)[i] = items[(b + 1) + i - 1]
        BY <3>1, <4>1, SubSeqProperties
      <4>3. n - (b + 1) + 1 = n - b
        BY <1>1
      <4>4. \A i \in 1..(n - b) : (b + 1) + i - 1 = b + i
        BY <1>1
      <4> QED
        BY <4>2, <4>3, <4>4
    <3> QED
      BY <3>2, LenProperties DEF Rest
  <2>4. ASSUME NEW x \in Elements(items) PROVE x \in Elements(Taken) \cup Elements(Rest)
    <3>1. PICK i \in 1..n : items[i] = x
      BY <1>1 DEF Elements
    <3>2. CASE i <= b
      BY <1>1, <2>2, <3>1, <3>2 DEF Elements
    <3>3. CASE i > b
      <4>1. i - b \in 1..(n - b) /\ Rest[i - b] = x
        BY <1>1, <2>3, <3>1, <3>3
      <4> QED
        BY <2>3, <4>1 DEF Elements
    <3> QED
      BY <1>1, <3>2, <3>3
  <2>5. Elements(Taken) \subseteq Elements(items)
    BY <1>1, <1>3, <2>2 DEF Elements
  <2>6. Elements(Rest) \subseteq Elements(items)
    <3> SUFFICES ASSUME NEW j \in 1..(n - b) PROVE Rest[j] \in Elements(items)
      BY <2>3 DEF Elements
    <3>1. b + j \in 1..n /\ Rest[j] = items[b + j]
      BY <1>1, <1>3, <2>3
    <3> QED
      BY <1>1, <3>1 DEF Elements
  <2>7. ASSUME Once(items) PROVE Once(Taken)
    BY <1>1, <1>3, <2>2, <2>7 DEF Once
  <2>8. ASSUME Once(items) PROVE Once(Rest)
    <3> SUFFICES ASSUME NEW i \in 1..(n - b), NEW j \in 1..(n - b), Rest[i] = Rest[j]
                 PROVE  i = j
      BY <2>3 DEF Once
    <3>1. b + i \in 1..n /\ b + j \in 1..n /\ items[b + i] = items[b + j]
      BY <1>1, <1>3, <2>3
    <3>2. b + i = b + j
      BY <1>1, <2>8, <3>1 DEF Once
    <3> QED
      BY <1>1, <3>2
  <2>9. ASSUME Once(items), NEW i \in 1..b, NEW j \in 1..(n - b), Taken[i] = Rest[j]
        PROVE  FALSE
    <3>1. i \in 1..n /\ b + j \in 1..n /\ items[i] = items[b + j]
      BY <1>1, <1>3, <2>2, <2>3, <2>9
    <3>2. i = b + j
      BY <1>1, <2>9, <3>1 DEF Once
    <3> QED
      BY <1>1, <3>2
  <2>10. Once(items) => Elements(Taken) \cap Elements(Rest) = {}
    BY <2>2, <2>3, <2>9 DEF Elements
  <2>11. Len(Taken) <= b /\ Len(Rest) <= n /\ Taken # <<>>
    BY <1>1, <1>3, <2>2, <2>3, ElementsEmpty
  <2> QED
    BY <2>2, <2>3, <2>4, <2>5, <2>6, <2>7, <2>8, <2>10, <2>11
<1> QED
  BY <1>1, <1>2, <1>3

\* A sequence has no more elements than places.
LEMMA ElementsBound ==
    ASSUME NEW s \in Seq(Requests)
    PROVE  IsFiniteSet(Elements(s)) /\ Cardinality(Elements(s)) <= Len(s)
<1>1. Len(s) \in Nat /\ DOMAIN s = 1..Len(s)
  BY LenProperties
<1>2. IsFiniteSet(1..Len(s)) /\ Cardinality(1..Len(s)) = Len(s)
  BY <1>1, FS_Interval
<1> DEFINE f == [i \in 1..Len(s) |-> s[i]]
<1>3. f \in Surjection(1..Len(s), Elements(s))
  BY <1>1 DEF Surjection, Elements
<1> HIDE DEF f
<1> QED
  BY <1>2, <1>3, FS_Surjection

\* A sequence without elements is empty, and elements are requests.
LEMMA ElementsOfSeq ==
    ASSUME NEW s \in Seq(Requests)
    PROVE  Elements(s) \subseteq Requests /\ (Elements(s) = {} => s = <<>>)
<1>1. Len(s) \in Nat /\ DOMAIN s = 1..Len(s) /\ \A i \in 1..Len(s) : s[i] \in Requests
  BY LenProperties, ElementOfSeq
<1>2. Elements(s) \subseteq Requests
  BY <1>1 DEF Elements
<1>3. ASSUME Elements(s) = {} PROVE s = <<>>
  <2>1. DOMAIN s = {}
    BY <1>3 DEF Elements
  <2>2. Len(s) = 0
    BY <1>1, <2>1
  <2> QED
    BY <2>2, EmptySeq, SeqEqual, <1>1
<1> QED
  BY <1>2, <1>3
-----------------------------------------------------------------------------
(* The inductive invariant *)

\* The flusher scores while it has a batch; batch and queue keep their limits.
BatchSound ==
    /\ flusher = "scoring" <=> batch # <<>>
    /\ Len(batch) <= MaxBatchSize
    /\ discipline = "shed" => Len(items) <= MaxQueueDepth

\* Requests are made in order, and after a warm-up call nothing before it has
\* succeeded.
IssueOrder ==
    /\ \A r \in Requests : pc[r] = "none" <=> r > issued
    /\ \A q, r \in Requests : q <= Warmups /\ q < r /\ pc[r] # "none" => pc[q] = "ok"

\* Nobody is in dispatch() any more when stop is set.
StopQuiet ==
    Stop => /\ \A r \in Requests : pc[r] \in {"none", "ok", "shed", "failed"}
            /\ WarmupFailed \/ \A r \in Requests : Ended(r)

\* Events are set for requests that have been enqueued.
Woken == \A r \in scored \cup released : pc[r] \in {"waiting", "ok", "failed"}

\* What each outcome means.
Accounted ==
    /\ ~failure => released = {}
    /\ flusher = "releasing" => failure
    /\ \A r \in Requests : /\ pc[r] = "failed" => failure
                           /\ pc[r] = "ok" => r \in scored
                           /\ pc[r] = "shed" => discipline = "shed"
    /\ main = "returned" => ~failure /\ ~WarmupFailed
    /\ shed = Cardinality({r \in Requests : pc[r] = "shed"})

IInv == /\ TypeOK
        /\ WaitersHeld /\ HeldOnce
        /\ BatchSound /\ IssueOrder /\ StopQuiet /\ Woken /\ Accounted

LEMMA HeldOnceIsOnce ==
    HeldOnce <=> Once(items) /\ Once(batch) /\ Elements(items) \cap Elements(batch) = {}
BY DEF HeldOnce, Once

LEMMA WarmupsAreRequests == 1..Warmups \subseteq Requests
BY BatchingAssumption DEF Requests

LEMMA RequestsFinite ==
    ASSUME NEW S, S \subseteq Requests
    PROVE  IsFiniteSet(S) /\ Cardinality(S) \in Nat
<1>1. Warmups + Arrivals \in Int /\ 1 \in Int
  BY BatchingAssumption
<1>2. IsFiniteSet(Requests)
  BY <1>1, FS_Interval DEF Requests
<1>3. IsFiniteSet(S)
  BY <1>2, FS_Subset
<1> QED
  BY <1>3, FS_CardinalityType

\* When stop is set nothing is queued and nothing is being scored.
LEMMA IdleWhenStopped ==
    ASSUME IInv, Stop
    PROVE  items = <<>> /\ batch = <<>> /\ flusher # "scoring"
<1>1. Blocked = {}
  BY DEF IInv, StopQuiet, Blocked
<1>2. Elements(items) = {} /\ Elements(batch) = {}
  BY <1>1 DEF IInv, WaitersHeld
<1> QED
  BY <1>2, ElementsOfSeq DEF IInv, TypeOK, BatchSound

\* What every step of a request within dispatch() keeps.
LEMMA MoveKeeps ==
    ASSUME IInv, NEW r \in Requests,
           NEW v \in {"entering", "waiting", "ok", "shed", "failed"},
           pc[r] \in {"submitted", "entering", "waiting"},
           pc' = [pc EXCEPT ![r] = v],
           UNCHANGED <<main, issued>>
    PROVE  /\ pc' \in [Requests -> {"none", "submitted", "entering", "waiting", "ok", "shed", "failed"}]
           /\ main = "running" /\ IssueOrder' /\ StopQuiet'
<1>1. pc \in [Requests -> {"none", "submitted", "entering", "waiting", "ok", "shed", "failed"}]
  BY DEF IInv, TypeOK
<1>2. main = "running"
  BY DEF IInv, StopQuiet, Stop, Running
<1>3. StopQuiet'
  BY <1>2 DEF StopQuiet, Stop, Running
<1>4. IssueOrder'
  <2>1. ASSUME NEW q \in Requests PROVE pc'[q] = "none" <=> q > issued'
    BY <1>1, <2>1 DEF IInv, IssueOrder
  <2>2. ASSUME NEW p \in Requests, NEW q \in Requests, p <= Warmups, p < q, pc'[q] # "none"
        PROVE  pc'[p] = "ok"
    <3>1. pc[q] # "none"
      BY <1>1, <2>2
    <3>2. pc[p] = "ok"
      BY <2>2, <3>1 DEF IInv, IssueOrder
    <3> QED
      BY <1>1, <3>2
  <2> QED
    BY <2>1, <2>2 DEF IssueOrder
<1> QED
  BY <1>1, <1>2, <1>3, <1>4

LEMMA InitInv == Init => IInv
<1> SUFFICES ASSUME Init PROVE IInv
  OBVIOUS
<1>1. TypeOK
  <2>1. 0 \in 0..(Warmups + Arrivals) /\ 0 \in 0..MaxWait
    BY BatchingAssumption
  <2>2. pc \in [Requests -> {"none", "submitted", "entering", "waiting", "ok", "shed", "failed"}]
    BY DEF Init
  <2> QED
    BY <2>1, <2>2, ElementsEmpty DEF Init, TypeOK
<1>2. WaitersHeld /\ HeldOnce
  BY ElementsEmpty DEF Init, WaitersHeld, Blocked, HeldOnce
<1>3. BatchSound
  BY ElementsEmpty, BatchingAssumption DEF Init, BatchSound
<1>4. IssueOrder
  BY DEF Init, IssueOrder, Requests
<1>5. StopQuiet /\ Woken
  BY DEF Init, StopQuiet, Woken, Stop, Running
<1>6. Accounted
  <2>1. {r \in Requests : pc[r] = "shed"} = {}
    BY DEF Init
  <2> QED
    BY <2>1, FS_EmptySet DEF Init, Accounted
<1> QED
  BY <1>1, <1>2, <1>3, <1>4, <1>5, <1>6 DEF IInv

LEMMA IssueStep == ASSUME IInv, Issue PROVE IInv'
<1> DEFINE n == issued + 1
<1>0. /\ pc \in [Requests -> {"none", "submitted", "entering", "waiting", "ok", "shed", "failed"}]
      /\ issued \in 0..(Warmups + Arrivals) /\ n \in Requests /\ pc[n] = "none"
      /\ pc' = [pc EXCEPT ![n] = "submitted"]
  BY BatchingAssumption DEF IInv, TypeOK, Issue, IssueOrder, Requests
<1>1. TypeOK'
  BY <1>0, BatchingAssumption DEF IInv, TypeOK, Issue, batcherVars, flusherVars, Requests
<1>2. Blocked' = Blocked
  BY <1>0 DEF Issue, flusherVars, Blocked
<1>3. WaitersHeld' /\ HeldOnce' /\ BatchSound'
  BY <1>2 DEF IInv, WaitersHeld, HeldOnce, BatchSound, Issue, batcherVars, flusherVars
<1>4. IssueOrder'
  <2>1. ASSUME NEW q \in Requests PROVE pc'[q] = "none" <=> q > issued'
    BY <1>0, <2>1 DEF IInv, IssueOrder, Issue, Requests
  <2>2. ASSUME NEW p \in Requests, NEW q \in Requests, p <= Warmups, p < q, pc'[q] # "none"
        PROVE  pc'[p] = "ok"
    <3>1. CASE q = n
      <4>1. pc[p] = "ok"
        BY <1>0, <2>2, <3>1, BatchingAssumption DEF Issue, WarmedUp, Requests
      <4> QED
        BY <1>0, <4>1
    <3>2. CASE q # n
      <4>1. pc[q] # "none"
        BY <1>0, <2>2, <3>2
      <4>2. pc[p] = "ok"
        BY <2>2, <4>1 DEF IInv, IssueOrder
      <4> QED
        BY <1>0, <4>2
    <3> QED
      BY <3>1, <3>2
  <2> QED
    BY <2>1, <2>2 DEF IssueOrder
<1>5. StopQuiet'
  BY DEF Issue, StopQuiet, Stop, Running
<1>6. Woken'
  BY <1>0 DEF IInv, Woken, Issue, flusherVars
<1>7. Accounted'
  <2>1. {r \in Requests : pc'[r] = "shed"} = {r \in Requests : pc[r] = "shed"}
    BY <1>0
  <2>2. main' = "running"
    BY DEF Issue, Running
  <2> QED
    BY <1>0, <2>1, <2>2 DEF IInv, Accounted, Issue, flusherVars
<1> QED
  BY <1>1, <1>3, <1>4, <1>5, <1>6, <1>7 DEF IInv

LEMMA SetStopStep == ASSUME IInv, SetStop PROVE IInv'
<1>1. TypeOK' /\ WaitersHeld' /\ HeldOnce' /\ BatchSound' /\ IssueOrder' /\ Woken'
  BY DEF IInv, SetStop, batcherVars, flusherVars, TypeOK, WaitersHeld, Blocked, HeldOnce,
         BatchSound, IssueOrder, Woken
<1>2. StopQuiet'
  <2>1. pc \in [Requests -> {"none", "submitted", "entering", "waiting", "ok", "shed", "failed"}]
    BY DEF IInv, TypeOK
  <2>2. CASE WarmupFailed
    <3>1. PICK w \in 1..Warmups : pc[w] \in {"shed", "failed"}
      BY <2>2 DEF WarmupFailed
    <3>2. w \in Requests /\ w <= Warmups /\ w \in Int
      BY <3>1, WarmupsAreRequests
    <3>3. ASSUME NEW r \in Requests PROVE pc[r] \in {"none", "ok", "shed", "failed"}
      <4>1. CASE w < r
        BY <3>1, <3>2, <4>1 DEF IInv, IssueOrder
      <4>2. CASE r < w
        <5>1. r <= Warmups
          BY <3>2, <4>2, BatchingAssumption DEF Requests
        <5>2. pc[w] # "none"
          BY <3>1
        <5> QED
          BY <3>2, <4>2, <5>1, <5>2 DEF IInv, IssueOrder
      <4>3. CASE r = w
        BY <3>1, <4>3
      <4> QED
        BY <3>2, <4>1, <4>2, <4>3 DEF Requests
    <3> QED
      BY <2>2, <3>3 DEF StopQuiet, SetStop, WarmupFailed
  <2>3. CASE \A r \in Requests : Ended(r)
    BY <2>3 DEF StopQuiet, SetStop, Ended
  <2> QED
    BY <2>2, <2>3 DEF SetStop
<1>3. Accounted'
  BY DEF IInv, SetStop, Accounted, batcherVars, flusherVars
<1> QED
  BY <1>1, <1>2, <1>3 DEF IInv

LEMMA JoinStep == ASSUME IInv, Join PROVE IInv'
<1>1. TypeOK' /\ WaitersHeld' /\ HeldOnce' /\ BatchSound' /\ IssueOrder' /\ Woken'
  BY DEF IInv, Join, batcherVars, flusherVars, TypeOK, WaitersHeld, Blocked, HeldOnce,
         BatchSound, IssueOrder, Woken
<1>2. StopQuiet'
  BY DEF IInv, Join, StopQuiet, Stop, Running, WarmupFailed, Ended
<1>3. Accounted'
  BY DEF IInv, Join, Accounted, WarmupFailed, batcherVars, flusherVars
<1> QED
  BY <1>1, <1>2, <1>3 DEF IInv

LEMMA BeginStep == ASSUME IInv, NEW r \in Requests, Begin(r) PROVE IInv'
<1> DEFINE v == IF failure THEN "failed" ELSE "entering"
<1>1. /\ pc \in [Requests -> {"none", "submitted", "entering", "waiting", "ok", "shed", "failed"}]
      /\ pc[r] = "submitted" /\ pc' = [pc EXCEPT ![r] = v]
      /\ v \in {"entering", "failed"} /\ (v = "failed" => failure)
  BY DEF IInv, TypeOK, Begin
<1> HIDE DEF v
<1>2. /\ pc' \in [Requests -> {"none", "submitted", "entering", "waiting", "ok", "shed", "failed"}]
      /\ main = "running" /\ IssueOrder' /\ StopQuiet'
  BY <1>1, MoveKeeps DEF Begin, mainVars
<1>3. TypeOK'
  BY <1>2 DEF IInv, TypeOK, Begin, mainVars, batcherVars, flusherVars
<1>4. Blocked' = Blocked
  BY <1>1 DEF Begin, flusherVars, Blocked
<1>5. WaitersHeld' /\ HeldOnce' /\ BatchSound'
  BY <1>4 DEF IInv, WaitersHeld, HeldOnce, BatchSound, Begin, batcherVars, flusherVars
<1>6. Woken'
  BY <1>1 DEF IInv, Woken, Begin, flusherVars
<1>7. Accounted'
  <2>1. {q \in Requests : pc'[q] = "shed"} = {q \in Requests : pc[q] = "shed"}
    BY <1>1
  <2>2. main' = "running"
    BY <1>2 DEF Begin, mainVars
  <2> QED
    BY <1>1, <2>1, <2>2 DEF IInv, Accounted, Begin, flusherVars
<1> QED
  BY <1>2, <1>3, <1>5, <1>6, <1>7 DEF IInv

LEMMA ShedStep == ASSUME IInv, NEW r \in Requests, Shed(r) PROVE IInv'
<1>1. /\ pc \in [Requests -> {"none", "submitted", "entering", "waiting", "ok", "shed", "failed"}]
      /\ pc[r] = "entering" /\ pc' = [pc EXCEPT ![r] = "shed"]
      /\ discipline = "shed" /\ shed \in Nat /\ shed' = shed + 1
  BY DEF IInv, TypeOK, Shed, Full
<1>2. /\ pc' \in [Requests -> {"none", "submitted", "entering", "waiting", "ok", "shed", "failed"}]
      /\ main = "running" /\ IssueOrder' /\ StopQuiet'
  BY <1>1, MoveKeeps DEF Shed, mainVars
<1>3. TypeOK'
  BY <1>1, <1>2 DEF IInv, TypeOK, Shed, mainVars, batcherVars, flusherVars
<1>4. Blocked' = Blocked
  BY <1>1 DEF Shed, flusherVars, Blocked
<1>5. WaitersHeld' /\ HeldOnce' /\ BatchSound'
  BY <1>4 DEF IInv, WaitersHeld, HeldOnce, BatchSound, Shed, batcherVars, flusherVars
<1>6. Woken'
  BY <1>1 DEF IInv, Woken, Shed, flusherVars
<1>7. Accounted'
  <2> DEFINE S == {q \in Requests : pc[q] = "shed"}
  <2>1. {q \in Requests : pc'[q] = "shed"} = S \cup {r} /\ r \notin S
    BY <1>1
  <2>2. IsFiniteSet(S)
    BY RequestsFinite
  <2>3. Cardinality(S \cup {r}) = Cardinality(S) + 1
    BY <2>1, <2>2, FS_AddElement
  <2>4. shed' = Cardinality({q \in Requests : pc'[q] = "shed"})
    BY <1>1, <2>1, <2>3 DEF IInv, Accounted
  <2>5. main' = "running"
    BY <1>2 DEF Shed, mainVars
  <2> HIDE DEF S
  <2> QED
    BY <1>1, <2>4, <2>5 DEF IInv, Accounted, Shed, flusherVars
<1> QED
  BY <1>2, <1>3, <1>5, <1>6, <1>7 DEF IInv

LEMMA EnqueueStep == ASSUME IInv, NEW r \in Requests, Enqueue(r) PROVE IInv'
<1>1. /\ pc \in [Requests -> {"none", "submitted", "entering", "waiting", "ok", "shed", "failed"}]
      /\ pc[r] = "entering" /\ pc' = [pc EXCEPT ![r] = "waiting"]
      /\ items \in Seq(Requests) /\ items' = Append(items, r)
  BY DEF IInv, TypeOK, Enqueue, Add
<1>2. /\ pc' \in [Requests -> {"none", "submitted", "entering", "waiting", "ok", "shed", "failed"}]
      /\ main = "running" /\ IssueOrder' /\ StopQuiet'
  BY <1>1, MoveKeeps DEF Enqueue, mainVars
<1>3. /\ items' \in Seq(Requests) /\ Len(items') = Len(items) + 1
      /\ Elements(items') = Elements(items) \cup {r}
      /\ Once(items) /\ r \notin Elements(items) => Once(items')
  BY <1>1, ElementsAppend
<1>4. TypeOK'
  <2>1. waited' \in 0..MaxWait
    BY BatchingAssumption DEF IInv, TypeOK, Enqueue, Add
  <2> QED
    BY <1>2, <1>3, <2>1 DEF IInv, TypeOK, Enqueue, mainVars, flusherVars
<1>5. r \notin scored \cup released
  BY <1>1 DEF IInv, Woken
<1>6. Blocked' = Blocked \cup {r} /\ r \notin Blocked
  BY <1>1, <1>5 DEF Enqueue, flusherVars, Blocked
<1>7. WaitersHeld'
  <2>1. Elements(batch') = Elements(batch)
    BY DEF Enqueue, flusherVars
  <2> QED
    BY <1>3, <1>6, <2>1 DEF IInv, WaitersHeld
<1>8. HeldOnce'
  <2>1. r \notin Elements(items) /\ r \notin Elements(batch)
    BY <1>6 DEF IInv, WaitersHeld
  <2>2. Once(items) /\ Once(batch) /\ Elements(items) \cap Elements(batch) = {}
    BY HeldOnceIsOnce DEF IInv
  <2>3. batch' = batch
    BY DEF Enqueue, flusherVars
  <2>4. Once(items') /\ Once(batch') /\ Elements(items') \cap Elements(batch') = {}
    BY <1>3, <2>1, <2>2, <2>3
  <2> QED
    BY <2>4 DEF HeldOnce, Once
<1>9. BatchSound'
  <2>1. discipline = "shed" => Len(items') <= MaxQueueDepth
    <3> SUFFICES ASSUME discipline = "shed" PROVE Len(items') <= MaxQueueDepth
      OBVIOUS
    <3>1. Len(items) \in Nat /\ MaxQueueDepth \in Nat /\ ~(Len(items) >= MaxQueueDepth)
      BY <1>1, LenProperties, BatchingAssumption DEF Enqueue, Full
    <3> QED
      BY <1>3, <3>1
  <2> QED
    BY <2>1 DEF IInv, BatchSound, Enqueue, flusherVars
<1>10. Woken'
  BY <1>1 DEF IInv, Woken, Enqueue, flusherVars
<1>11. Accounted'
  <2>1. {q \in Requests : pc'[q] = "shed"} = {q \in Requests : pc[q] = "shed"}
    BY <1>1
  <2>2. main' = "running"
    BY <1>2 DEF Enqueue, mainVars
  <2> QED
    BY <1>1, <2>1, <2>2 DEF IInv, Accounted, Enqueue, flusherVars
<1> QED
  BY <1>2, <1>4, <1>7, <1>8, <1>9, <1>10, <1>11 DEF IInv

LEMMA ReturnStep == ASSUME IInv, NEW r \in Requests, Return(r) PROVE IInv'
<1> DEFINE v == IF failure THEN "failed" ELSE "ok"
<1>1. /\ pc \in [Requests -> {"none", "submitted", "entering", "waiting", "ok", "shed", "failed"}]
      /\ pc[r] = "waiting" /\ pc' = [pc EXCEPT ![r] = v]
      /\ v \in {"ok", "failed"} /\ (v = "failed" => failure) /\ (v = "ok" => ~failure)
      /\ r \in scored \cup released
  BY DEF IInv, TypeOK, Return
<1> HIDE DEF v
<1>2. /\ pc' \in [Requests -> {"none", "submitted", "entering", "waiting", "ok", "shed", "failed"}]
      /\ main = "running" /\ IssueOrder' /\ StopQuiet'
  BY <1>1, MoveKeeps DEF Return, mainVars
<1>3. TypeOK'
  BY <1>2 DEF IInv, TypeOK, Return, mainVars, batcherVars, flusherVars
<1>4. Blocked' = Blocked
  BY <1>1 DEF Return, flusherVars, Blocked
<1>5. WaitersHeld' /\ HeldOnce' /\ BatchSound'
  BY <1>4 DEF IInv, WaitersHeld, HeldOnce, BatchSound, Return, batcherVars, flusherVars
<1>6. Woken'
  BY <1>1 DEF IInv, Woken, Return, flusherVars
<1>7. Accounted'
  <2>1. {q \in Requests : pc'[q] = "shed"} = {q \in Requests : pc[q] = "shed"}
    BY <1>1
  <2>2. main' = "running"
    BY <1>2 DEF Return, mainVars
  <2>3. v = "ok" => r \in scored
    BY <1>1 DEF IInv, Accounted
  <2> QED
    BY <1>1, <2>1, <2>2, <2>3 DEF IInv, Accounted, Return, flusherVars
<1> QED
  BY <1>2, <1>3, <1>5, <1>6, <1>7 DEF IInv

LEMMA FlushStep == ASSUME IInv, Flush PROVE IInv'
<1>1. /\ items \in Seq(Requests) /\ items # <<>> /\ batch = <<>> /\ flusher = "polling"
      /\ items' = Rest /\ batch' = Taken /\ flusher' = "scoring"
  BY DEF IInv, TypeOK, BatchSound, Flush, ShouldFlush, FlushItems, Rest
<1>2. /\ Taken \in Seq(Requests) /\ Rest \in Seq(Requests)
      /\ Len(Taken) <= MaxBatchSize /\ Len(Rest) <= Len(items) /\ Taken # <<>>
      /\ Elements(items) = Elements(Taken) \cup Elements(Rest)
      /\ Once(items) => /\ Once(Taken) /\ Once(Rest)
                        /\ Elements(Taken) \cap Elements(Rest) = {}
  BY <1>1, TakenAndRest
<1>3. TypeOK'
  <2>1. 0 \in 0..MaxWait
    BY BatchingAssumption
  <2> QED
    BY <1>1, <1>2, <2>1 DEF IInv, TypeOK, Flush, FlushItems, mainVars
<1>4. WaitersHeld'
  <2>1. Blocked' = Blocked
    BY DEF Flush, Blocked
  <2>2. Elements(batch) = {}
    BY <1>1, ElementsEmpty
  <2>3. Blocked = Elements(items) \cup Elements(batch)
    BY DEF IInv, WaitersHeld
  <2>4. Blocked' = Elements(items') \cup Elements(batch')
    BY <1>1, <1>2, <2>1, <2>2, <2>3
  <2> QED
    BY <2>4 DEF WaitersHeld
<1>5. HeldOnce'
  <2>1. Once(items)
    BY HeldOnceIsOnce DEF IInv
  <2>2. Once(items') /\ Once(batch') /\ Elements(items') \cap Elements(batch') = {}
    BY <1>1, <1>2, <2>1
  <2> QED
    BY <2>2 DEF HeldOnce, Once
<1>6. BatchSound'
  <2>1. Len(items') \in Nat /\ Len(items) \in Nat /\ MaxQueueDepth \in Nat
    BY <1>1, <1>2, LenProperties, BatchingAssumption
  <2> QED
    BY <1>1, <1>2, <2>1 DEF IInv, BatchSound, Flush
<1>7. IssueOrder' /\ StopQuiet' /\ Woken' /\ Accounted'
  BY DEF IInv, Flush, mainVars, IssueOrder, StopQuiet, Stop, Running, WarmupFailed, Ended, Woken,
         Accounted
<1> QED
  BY <1>3, <1>4, <1>5, <1>6, <1>7 DEF IInv

LEMMA ScoreStep == ASSUME IInv, Score PROVE IInv'
<1>1. /\ batch \in Seq(Requests) /\ batch' = <<>> /\ items' = items
      /\ flusher = "scoring" /\ flusher' = "polling"
      /\ scored' = scored \cup Elements(batch) /\ released' = released
  BY DEF IInv, TypeOK, Score, batcherVars
<1>2. Elements(batch) \subseteq Blocked
  BY DEF IInv, WaitersHeld
<1>3. TypeOK'
  BY <1>1, <1>2, ElementsEmpty DEF IInv, TypeOK, Score, mainVars, batcherVars, Blocked
<1>4. WaitersHeld'
  <2>1. Blocked' = Blocked \ Elements(batch)
    BY <1>1 DEF Score, Blocked
  <2>2. Elements(items) \cap Elements(batch) = {}
    BY DEF IInv, HeldOnce
  <2>3. Elements(items') = Elements(items) /\ Elements(batch') = {}
    BY <1>1, ElementsEmpty
  <2>4. Blocked' = Elements(items') \cup Elements(batch')
    BY <2>1, <2>2, <2>3 DEF IInv, WaitersHeld
  <2> QED
    BY <2>4 DEF WaitersHeld
<1>5. HeldOnce'
  <2>1. Once(items) /\ Once(<<>>) /\ Elements(<<>>) = {}
    BY HeldOnceIsOnce, ElementsEmpty DEF IInv
  <2>2. Once(items') /\ Once(batch') /\ Elements(items') \cap Elements(batch') = {}
    BY <1>1, <2>1
  <2> QED
    BY <2>2 DEF HeldOnce, Once
<1>6. BatchSound'
  BY <1>1, ElementsEmpty, BatchingAssumption DEF IInv, BatchSound, Score
<1>7. Woken'
  BY <1>1, <1>2 DEF IInv, Woken, Score, Blocked
<1>8. IssueOrder' /\ StopQuiet' /\ Accounted'
  BY <1>1 DEF IInv, Score, mainVars, IssueOrder, StopQuiet, Stop, Running, WarmupFailed, Ended, Accounted
<1> QED
  BY <1>3, <1>4, <1>5, <1>6, <1>7, <1>8 DEF IInv

LEMMA ScoreFailsStep == ASSUME IInv, ScoreFails PROVE IInv'
<1>1. /\ batch \in Seq(Requests) /\ batch' = <<>> /\ items' = items
      /\ flusher = "scoring" /\ flusher' = "releasing" /\ failure' = TRUE
      /\ released' = released \cup Elements(batch) /\ scored' = scored
  BY DEF IInv, TypeOK, ScoreFails, batcherVars
<1>2. Elements(batch) \subseteq Blocked
  BY DEF IInv, WaitersHeld
<1>3. TypeOK'
  BY <1>1, <1>2, ElementsEmpty DEF IInv, TypeOK, ScoreFails, mainVars, batcherVars, Blocked
<1>4. WaitersHeld'
  <2>1. Blocked' = Blocked \ Elements(batch)
    BY <1>1 DEF ScoreFails, Blocked
  <2>2. Elements(items) \cap Elements(batch) = {}
    BY DEF IInv, HeldOnce
  <2>3. Elements(items') = Elements(items) /\ Elements(batch') = {}
    BY <1>1, ElementsEmpty
  <2>4. Blocked' = Elements(items') \cup Elements(batch')
    BY <2>1, <2>2, <2>3 DEF IInv, WaitersHeld
  <2> QED
    BY <2>4 DEF WaitersHeld
<1>5. HeldOnce'
  <2>1. Once(items) /\ Once(<<>>) /\ Elements(<<>>) = {}
    BY HeldOnceIsOnce, ElementsEmpty DEF IInv
  <2>2. Once(items') /\ Once(batch') /\ Elements(items') \cap Elements(batch') = {}
    BY <1>1, <2>1
  <2> QED
    BY <2>2 DEF HeldOnce, Once
<1>6. BatchSound'
  BY <1>1, ElementsEmpty, BatchingAssumption DEF IInv, BatchSound, ScoreFails
<1>7. Woken'
  BY <1>1, <1>2 DEF IInv, Woken, ScoreFails, Blocked
<1>8. main = "running"
  BY <1>1, IdleWhenStopped DEF Stop, Running
<1>9. IssueOrder' /\ StopQuiet' /\ Accounted'
  BY <1>1, <1>8 DEF IInv, ScoreFails, mainVars, IssueOrder, StopQuiet, Stop, Running, Accounted
<1> QED
  BY <1>3, <1>4, <1>5, <1>6, <1>7, <1>9 DEF IInv

LEMMA ReleaseOrphansStep == ASSUME IInv, ReleaseOrphans PROVE IInv'
<1>1. /\ items \in Seq(Requests) /\ items # <<>> /\ items' = Rest /\ batch' = batch
      /\ flusher = "releasing" /\ flusher' = "releasing" /\ failure
      /\ released' = released \cup Elements(Taken) /\ scored' = scored /\ pc' = pc
  BY DEF IInv, TypeOK, Accounted, ReleaseOrphans, FlushItems, Rest
<1>2. /\ Taken \in Seq(Requests) /\ Rest \in Seq(Requests)
      /\ Len(Rest) <= Len(items)
      /\ Elements(items) = Elements(Taken) \cup Elements(Rest)
      /\ Once(items) => /\ Once(Taken) /\ Once(Rest)
                        /\ Elements(Taken) \cap Elements(Rest) = {}
  BY <1>1, TakenAndRest
<1>3. batch = <<>> /\ Elements(batch) = {}
  BY <1>1, ElementsEmpty DEF IInv, TypeOK, BatchSound
<1>4. Blocked = Elements(Taken) \cup Elements(Rest)
  BY <1>2, <1>3 DEF IInv, WaitersHeld
<1>5. Once(items) /\ Once(Rest) /\ Elements(Taken) \cap Elements(Rest) = {}
  BY <1>2, HeldOnceIsOnce DEF IInv
<1>6. TypeOK'
  <2>1. 0 \in 0..MaxWait
    BY BatchingAssumption
  <2>2. released' \subseteq Requests
    BY <1>1, <1>4 DEF IInv, TypeOK, Blocked
  <2> QED
    BY <1>1, <1>2, <2>1, <2>2 DEF IInv, TypeOK, ReleaseOrphans, FlushItems, mainVars
<1>7. WaitersHeld'
  <2>1. Blocked' = Blocked \ Elements(Taken)
    BY <1>1 DEF Blocked
  <2>2. Blocked' = Elements(items') \cup Elements(batch')
    BY <1>1, <1>3, <1>4, <1>5, <2>1
  <2> QED
    BY <2>2 DEF WaitersHeld
<1>8. HeldOnce'
  <2>1. Once(items') /\ Once(batch') /\ Elements(items') \cap Elements(batch') = {}
    BY <1>1, <1>3, <1>5, ElementsEmpty
  <2> QED
    BY <2>1 DEF HeldOnce, Once
<1>9. BatchSound'
  <2>1. Len(items') \in Nat /\ Len(items) \in Nat /\ MaxQueueDepth \in Nat
    BY <1>1, <1>2, LenProperties, BatchingAssumption
  <2> QED
    BY <1>1, <1>2, <2>1 DEF IInv, BatchSound, ReleaseOrphans
<1>10. Woken'
  BY <1>1, <1>4 DEF IInv, Woken, Blocked
<1>11. IssueOrder' /\ StopQuiet' /\ Accounted'
  BY <1>1 DEF IInv, ReleaseOrphans, mainVars, IssueOrder, StopQuiet, Stop, Running, WarmupFailed,
              Ended, Accounted
<1> QED
  BY <1>6, <1>7, <1>8, <1>9, <1>10, <1>11 DEF IInv

LEMMA LeaveStep == ASSUME IInv, Leave PROVE IInv'
<1>1. TypeOK' /\ WaitersHeld' /\ HeldOnce' /\ IssueOrder' /\ Woken' /\ StopQuiet' /\ Accounted'
  BY DEF IInv, Leave, mainVars, batcherVars, TypeOK, WaitersHeld, Blocked, HeldOnce, IssueOrder,
         StopQuiet, Stop, Running, WarmupFailed, Ended, Woken, Accounted
<1>2. BatchSound'
  BY IdleWhenStopped DEF IInv, Leave, batcherVars, BatchSound
<1> QED
  BY <1>1, <1>2 DEF IInv

LEMMA TickStep == ASSUME IInv, Tick PROVE IInv'
<1>1. waited' \in 0..MaxWait
  BY BatchingAssumption DEF IInv, TypeOK, Tick
<1> QED
  BY <1>1 DEF IInv, Tick, mainVars, flusherVars, TypeOK, WaitersHeld, Blocked, HeldOnce, BatchSound,
              IssueOrder, StopQuiet, Stop, Running, WarmupFailed, Ended, Woken, Accounted

LEMMA StutterStep == ASSUME IInv, UNCHANGED vars PROVE IInv'
BY DEF IInv, vars, mainVars, batcherVars, flusherVars, TypeOK, WaitersHeld, Blocked, HeldOnce,
       BatchSound, IssueOrder, StopQuiet, Stop, Running, WarmupFailed, Ended, Woken, Accounted

LEMMA Inductive == IInv /\ [Next]_vars => IInv'
<1> SUFFICES ASSUME IInv, [Next]_vars PROVE IInv'
  OBVIOUS
<1>1. CASE MainStep
  BY <1>1, IssueStep, SetStopStep, JoinStep DEF MainStep
<1>2. ASSUME NEW r \in Requests, RequestStep(r) PROVE IInv'
  BY <1>2, BeginStep, ShedStep, EnqueueStep, ReturnStep DEF RequestStep
<1>3. CASE FlusherStep
  BY <1>3, FlushStep, ScoreStep, ScoreFailsStep, ReleaseOrphansStep, LeaveStep DEF FlusherStep
<1>4. CASE Tick
  BY <1>4, TickStep
<1>5. CASE UNCHANGED vars
  BY <1>5, StutterStep
<1> QED
  BY <1>1, <1>2, <1>3, <1>4, <1>5 DEF Next

LEMMA Always == Spec => []IInv
BY InitInv, Inductive, PTL DEF Spec
-----------------------------------------------------------------------------
(* Theorems *)

\* Every variable keeps its type: the queue and the batch hold requests, and
\* no request is in a state dispatch() does not know.
THEOREM TypeCorrect == Spec => []TypeOK
<1>1. IInv => TypeOK
  BY DEF IInv
<1> QED
  BY <1>1, Always, PTL

\* Whoever waits on an event is in the batcher or in the flusher's batch,
\* exactly once, and when stop is set nobody waits: however many arrivals,
\* threads and batches there are, and however scoring ends.
THEOREM NobodyForgottenHolds == Spec => []NobodyForgotten
<1>1. ASSUME IInv PROVE NobodyForgotten
  <2>1. Stop => flusher # "scoring" /\ items = <<>>
    BY <1>1, IdleWhenStopped
  <2> QED
    BY <1>1, <2>1 DEF IInv, NobodyForgotten, IdleAtStop
<1> QED
  BY <1>1, Always, PTL

\* What the run reports is what happened: a completed request was scored, and
\* when the run returns everyone has ended and the errors are the sheds.
THEOREM OutcomesTrueHolds == Spec => []OutcomesTrue
<1>1. ASSUME IInv PROVE OutcomesTrue
  <2>1. \A r \in Requests : pc[r] = "ok" => r \in scored
    BY <1>1 DEF IInv, Accounted
  <2>2. ASSUME main = "returned" PROVE \A r \in Requests : Ended(r)
    BY <1>1, <2>2 DEF IInv, StopQuiet, Stop, Running, Accounted
  <2>3. ASSUME main = "returned"
        PROVE  Cardinality({r \in Requests : pc[r] # "ok"}) =
                  IF discipline = "shed" THEN shed ELSE 0
    <3>1. {r \in Requests : pc[r] # "ok"} = {r \in Requests : pc[r] = "shed"}
      BY <1>1, <2>2, <2>3 DEF IInv, Accounted, Ended
    <3>2. CASE discipline = "shed"
      BY <1>1, <3>1, <3>2 DEF IInv, Accounted
    <3>3. CASE discipline # "shed"
      <4>1. {r \in Requests : pc[r] # "ok"} = {}
        BY <1>1, <3>1, <3>3 DEF IInv, Accounted
      <4> QED
        BY <3>3, <4>1, FS_EmptySet
    <3> QED
      BY <3>2, <3>3
  <2> QED
    BY <2>1, <2>2, <2>3 DEF OutcomesTrue
<1> QED
  BY <1>1, Always, PTL

\* Under the shed discipline a thread of the pool is always free to shed
\* with, whatever the arrivals: the cap is what refuses load, not the pool.
THEOREM PoolNeverBindsHolds == Spec => []PoolNeverBinds
<1>1. ASSUME IInv, discipline = "shed"
      PROVE  Len(items) <= MaxQueueDepth /\ Cardinality(Blocked) < Workers
  <2>1. /\ items \in Seq(Requests) /\ batch \in Seq(Requests)
        /\ Len(items) <= MaxQueueDepth /\ Len(batch) <= MaxBatchSize
        /\ Blocked = Elements(items) \cup Elements(batch)
    BY <1>1 DEF IInv, TypeOK, BatchSound, WaitersHeld
  <2>2. /\ IsFiniteSet(Elements(items)) /\ Cardinality(Elements(items)) <= Len(items)
        /\ IsFiniteSet(Elements(batch)) /\ Cardinality(Elements(batch)) <= Len(batch)
    BY <2>1, ElementsBound
  <2>3. /\ Cardinality(Elements(items)) \in Nat /\ Cardinality(Elements(batch)) \in Nat
        /\ Cardinality(Elements(items) \cap Elements(batch)) \in Nat
    BY <2>2, FS_CardinalityType, FS_Intersection
  <2>4. Cardinality(Blocked) = Cardinality(Elements(items)) + Cardinality(Elements(batch))
                                 - Cardinality(Elements(items) \cap Elements(batch))
    BY <2>1, <2>2, FS_Union
  <2>5. /\ Len(items) \in Nat /\ Len(batch) \in Nat
        /\ MaxQueueDepth \in Nat /\ MaxBatchSize \in Nat /\ MinWorkers \in Nat
        /\ MaxQueueDepth + MaxBatchSize < Workers
    BY <2>1, LenProperties, BatchingAssumption
  <2>6. Workers \in Nat
    BY <2>5 DEF Workers
  <2>7. Cardinality(Blocked) <= MaxQueueDepth + MaxBatchSize
    BY <2>1, <2>2, <2>3, <2>4, <2>5
  <2>8. Cardinality(Blocked) \in Int
    BY <2>3, <2>4
  <2> QED
    BY <2>1, <2>5, <2>6, <2>7, <2>8
<1>2. IInv => PoolNeverBinds
  BY <1>1 DEF PoolNeverBinds
<1> QED
  BY <1>2, Always, PTL
=============================================================================
