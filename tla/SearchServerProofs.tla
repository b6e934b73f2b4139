------------------------- MODULE SearchServerProofs -------------------------
(***************************************************************************)
(* Proofs about SearchServer, for any number of callers and workers, any   *)
(* queue depth and cache capacity, any set of requests.                    *)
(***************************************************************************)
EXTENDS SearchServer, FiniteSetTheorems, SequenceTheorems, TLAPS

(* The order of use: sequences that are moved to the front *)

\* A list with one element put in front is a list of the length asked for.
LEMMA PutFirstIsSeq ==
    ASSUME NEW S, NEW s \in Seq(S), NEW e \in S, NEW n \in Nat, n <= Len(s) + 1
    PROVE  /\ PutFirst(e, s, n) \in Seq(S)
           /\ Len(PutFirst(e, s, n)) = n
           /\ DOMAIN PutFirst(e, s, n) = 1..n
<1>1. PutFirst(e, s, n) \in [1..n -> S]
  BY ElementOfSeq DEF PutFirst
<1>2. PutFirst(e, s, n) \in Seq(S)
  BY <1>1, IsASeq
<1>3. DOMAIN PutFirst(e, s, n) = 1..n
  BY <1>1
<1> QED
  BY <1>2, <1>3, LenProperties

\* Promoting an element permutes a list.
LEMMA PromoteIsSeq ==
    ASSUME NEW S, NEW s \in Seq(S), NEW i \in DOMAIN s
    PROVE  /\ Promote(s, i) \in Seq(S)
           /\ Len(Promote(s, i)) = Len(s)
           /\ DOMAIN Promote(s, i) = DOMAIN s
           /\ 1 \in DOMAIN s
           /\ \A j \in DOMAIN s : \E l \in DOMAIN s : Promote(s, i)[j] = s[l]
<1>0. DOMAIN s = 1..Len(s) /\ Len(s) \in Nat
  BY LenProperties
<1>1. Promote(s, i) \in [1..Len(s) -> S]
  BY <1>0, ElementOfSeq DEF Promote
<1>2. Promote(s, i) \in Seq(S)
  BY <1>0, <1>1, IsASeq
<1>3. DOMAIN Promote(s, i) = 1..Len(s)
  BY <1>1
<1>4. \A j \in DOMAIN s : \E l \in DOMAIN s : Promote(s, i)[j] = s[l]
  BY <1>0 DEF Promote
<1> QED
  BY <1>0, <1>2, <1>3, <1>4, LenProperties
-----------------------------------------------------------------------------
(* The inductive invariant *)

\* A worker has a closure exactly while it runs one.
TaskMatchesPc == \A w \in Workers : workerPc[w] \in Running <=> task[w] # NoCall

\* A cached value is the answer to every request with its key.
CacheSound ==
    \A i \in DOMAIN cache, req \in Request :
        cache[i].key = CacheKey(req) => cache[i].value = Answer(req)

\* A worker about to set the promise has written the answer.
SignalSound ==
    \A w \in Workers : workerPc[w] = "signalling" =>
        response[task[w]] = Answer(request[task[w]])

\* A promise is set while its call has not returned.
PromiseWaits == \A c \in Calls : promised[c] => callPc[c] = "waiting"

\* What answers and their callers need.
CallInv ==
    /\ TypeOK /\ TaskMatchesPc /\ HeldOnce /\ PromiseWaits
    /\ CacheSound /\ SignalSound /\ AnswerFaithful

\* Two requests with one key have one answer, since normalize() only drops
\* what the analyzer drops.
LEMMA KeyTellsAnswers ==
    ASSUME NEW r \in Request, NEW t \in Request, CacheKey(r) = CacheKey(t)
    PROVE  Answer(r) = Answer(t)
  BY DEF CacheKey, Answer, Normalize

\* Keys and answers have their types.
LEMMA KeyAnswerType ==
    ASSUME NEW r \in Request
    PROVE  CacheKey(r) \in Key /\ Answer(r) \in Result
<1>1. r.text.words \in Seq(Words) /\ r.k \in Nat
  BY DEF Request, Text
<1>2. {r.text.words[i] : i \in DOMAIN r.text.words} \in SUBSET Words
  BY <1>1, ElementOfSeq, LenProperties
<1> QED
  BY <1>1, <1>2 DEF CacheKey, Answer, Normalize, Key, Result

\* The request of the call a worker runs is a request.
LEMMA RunningTask ==
    ASSUME TypeOK, TaskMatchesPc, NEW w \in Workers, workerPc[w] \in Running
    PROVE  task[w] \in Calls /\ request[task[w]] \in Request
  BY DEF TypeOK, TaskMatchesPc

\* get() keeps the cache well formed, within its capacity and sound.
LEMMA AfterGetSound ==
    ASSUME TypeOK, CacheSound, NEW i \in DOMAIN cache
    PROVE  /\ AfterGet(i) \in Seq(Entry) /\ Len(AfterGet(i)) <= CacheCapacity
           /\ \A j \in DOMAIN AfterGet(i), req \in Request :
                 AfterGet(i)[j].key = CacheKey(req) => AfterGet(i)[j].value = Answer(req)
<1>1. cache \in Seq(Entry) /\ Len(cache) <= CacheCapacity
  BY DEF TypeOK
<1>2. /\ AfterGet(i) \in Seq(Entry) /\ Len(AfterGet(i)) = Len(cache)
      /\ DOMAIN AfterGet(i) = DOMAIN cache
  BY <1>1, PromoteIsSeq DEF AfterGet
<1>3. \A j \in DOMAIN cache : \E l \in DOMAIN cache : AfterGet(i)[j] = cache[l]
  BY <1>1, LenProperties DEF AfterGet, Promote
<1> QED
  BY <1>1, <1>2, <1>3 DEF CacheSound

\* What put() does: overwritten, inserted or evicted, what is left is sound.
LEMMA AfterPutSound ==
    ASSUME TypeOK, CacheSound, NEW r \in Request
    PROVE  LET after == AfterPut(CacheKey(r), Answer(r))
           IN  /\ after \in Seq(Entry) /\ Len(after) <= CacheCapacity
               /\ \A j \in DOMAIN after, req \in Request :
                     after[j].key = CacheKey(req) => after[j].value = Answer(req)
<1> DEFINE key == CacheKey(r)
           e == [key |-> key, value |-> Answer(r)]
           after == AfterPut(key, Answer(r))
<1>1. cache \in Seq(Entry) /\ Len(cache) \in Nat /\ Len(cache) <= CacheCapacity /\ CacheCapacity \in Nat
  BY ServerAssumption, LenProperties DEF TypeOK
<1>2. e \in Entry
  BY KeyAnswerType DEF Entry
<1>3. \A req \in Request : e.key = CacheKey(req) => e.value = Answer(req)
  BY KeyTellsAnswers
<1>4. CASE CachedAt(key) # {}
  <2>1. PICK i \in DOMAIN cache : after = [Promote(cache, i) EXCEPT ![1] = e]
    BY <1>4 DEF AfterPut, CachedAt
  <2> DEFINE p == Promote(cache, i)
  <2>2. p \in Seq(Entry) /\ Len(p) = Len(cache) /\ DOMAIN p = DOMAIN cache /\ 1 \in DOMAIN cache
    BY <2>1, <1>1, PromoteIsSeq
  <2>3. after = [p EXCEPT ![1] = e]
    BY <2>1
  <2>4. after \in Seq(Entry) /\ Len(after) = Len(p)
    BY <2>2, <2>3, <1>2, ExceptSeq
  <2>5. DOMAIN after = DOMAIN cache
    BY <2>2, <2>3
  <2>6. \A j \in DOMAIN cache : after[j] = e \/ \E l \in DOMAIN cache : after[j] = cache[l]
    <3>1. \A j \in DOMAIN cache : \E l \in DOMAIN cache : p[j] = cache[l]
      BY <1>1, LenProperties DEF Promote
    <3>2. \A j \in DOMAIN cache : after[j] = e \/ after[j] = p[j]
      BY <2>2, <2>3
    <3> QED
      BY <3>1, <3>2
  <2> QED
    BY <2>2, <2>4, <2>5, <2>6, <1>1, <1>3 DEF CacheSound
<1>5. CASE CachedAt(key) = {}
  <2> DEFINE n == Fitting(Len(cache) + 1)
  <2>1. n \in Nat /\ n <= Len(cache) + 1 /\ n <= CacheCapacity
    BY <1>1 DEF Fitting
  <2>2. after = PutFirst(e, cache, n)
    BY <1>5 DEF AfterPut
  <2>3. after \in Seq(Entry) /\ Len(after) = n /\ DOMAIN after = 1..n
    BY <1>1, <1>2, <2>1, <2>2, PutFirstIsSeq
  <2>4. \A j \in 1..n : after[j] = e \/ \E l \in DOMAIN cache : after[j] = cache[l]
    BY <2>1, <2>2, <1>1, LenProperties DEF PutFirst
  <2> QED
    BY <2>1, <2>3, <2>4, <1>3 DEF CacheSound
<1> QED
  BY <1>4, <1>5

\* A key that is used keeps the order of use well formed.
LEMMA TouchType ==
    ASSUME recency \in Seq(Key), NEW key \in Key
    PROVE  Touch(key) \in Seq(Key)
<1>1. CASE \E i \in DOMAIN recency : recency[i] = key
  <2> DEFINE i == CHOOSE i \in DOMAIN recency : recency[i] = key
  <2>1. i \in DOMAIN recency
    BY <1>1
  <2> QED
    BY <1>1, <2>1, PromoteIsSeq DEF Touch
<1>2. CASE ~\E i \in DOMAIN recency : recency[i] = key
  <2>1. Len(recency) + 1 \in Nat
    BY LenProperties
  <2> QED
    BY <1>2, <2>1, PutFirstIsSeq DEF Touch
<1> QED
  BY <1>1, <1>2
-----------------------------------------------------------------------------
(* Calls are answered once, and rightly *)

\* The initial state.
LEMMA CallInit == Init => CallInv
<1> SUFFICES ASSUME Init PROVE CallInv
  OBVIOUS
<1> USE DEF Init
<1>1. TypeOK
  <2>1. /\ <<>> \in Seq(Calls) /\ Len(items) = 0
        /\ <<>> \in Seq(Entry) /\ Len(cache) = 0
        /\ <<>> \in Seq(Key) /\ <<>> \in Seq(Words)
    BY EmptySeq
  <2>2. NoRequest \in Request
    <3>1. [words |-> <<>>, style |-> "plain"] \in Text
      BY <2>1 DEF Text, Styles
    <3> QED
      BY <3>1 DEF NoRequest, Request
  <2>3. NoResult \in Result
    BY DEF NoResult, Result
  <2>4. 0 <= QueueDepth /\ 0 <= CacheCapacity
    BY ServerAssumption
  <2> QED
    BY <2>1, <2>2, <2>3, <2>4 DEF TypeOK
<1>2. TaskMatchesPc
  BY DEF TaskMatchesPc, Running
<1>3. HeldOnce
  BY DEF HeldOnce, OpenIsHeld, QueuedOnce, RunningOnce, Open
<1>4. PromiseWaits /\ CacheSound /\ SignalSound /\ AnswerFaithful
  BY DEF PromiseWaits, CacheSound, SignalSound, AnswerFaithful
<1> QED
  BY <1>1, <1>2, <1>3, <1>4 DEF CallInv

\* notify_one and notify_all move blocked workers to pop(), nobody else.
LEMMA NotifyMoves ==
    ASSUME TypeOK, TaskMatchesPc, NotifyOne \/ NotifyAll \/ UNCHANGED workerPc
    PROVE  /\ workerPc' \in [Workers -> {"popping", "blocked", "gone"} \cup Running]
           /\ \A w \in Workers :
                 workerPc'[w] = workerPc[w] \/ (workerPc[w] = "blocked" /\ workerPc'[w] = "popping")
<1> USE DEF TypeOK, Blocked
<1>1. CASE NotifyOne
  BY <1>1 DEF NotifyOne
<1>2. CASE NotifyAll
  BY <1>2 DEF NotifyAll
<1>3. CASE UNCHANGED workerPc
  BY <1>3
<1> QED
  BY <1>1, <1>2, <1>3

\* A call that is accepted waits in the queue and nowhere else.
LEMMA CallStep ==
    ASSUME CallInv, NEW c \in Calls, NEW req \in Requests, Call(c, req)
    PROVE  CallInv'
<1> USE DEF CallInv
<1> USE DEF Call
<1>0. /\ items \in Seq(Calls) /\ Len(items) \in Nat /\ DOMAIN items = 1..Len(items)
      /\ Len(items) < QueueDepth /\ QueueDepth \in Nat
  BY LenProperties, ServerAssumption DEF TypeOK, Full
<1>1. /\ items' \in Seq(Calls) /\ Len(items') = Len(items) + 1
      /\ DOMAIN items' = 1..(Len(items) + 1)
      /\ \A i \in 1..Len(items) : items'[i] = items[i]
      /\ items'[Len(items) + 1] = c
  BY <1>0, AppendProperties, LenProperties
<1>2. /\ workerPc' \in [Workers -> {"popping", "blocked", "gone"} \cup Running]
      /\ \A w \in Workers :
            workerPc'[w] = workerPc[w] \/ (workerPc[w] = "blocked" /\ workerPc'[w] = "popping")
  BY NotifyMoves
<1>3. TypeOK'
  BY <1>0, <1>1, <1>2, ServerAssumption DEF TypeOK, poolVars, cacheVars
<1>4. TaskMatchesPc'
  BY <1>2 DEF TaskMatchesPc, Running
<1>5. ~Open(c) /\ ~promised[c] /\ \A d \in Calls : Open(d)' <=> Open(d) \/ d = c
  <2>1. ~promised[c]
    BY DEF PromiseWaits
  <2> QED
    BY <2>1 DEF TypeOK, Open
<1>6. HeldOnce'
  <2>1. \A i \in DOMAIN items : items[i] # c
    BY <1>5 DEF HeldOnce, QueuedOnce
  <2>2. \A w \in Workers : task[w] # c
    BY <1>5, ServerAssumption DEF HeldOnce, RunningOnce
  <2>3. UNCHANGED task
    OBVIOUS
  <2>4. QueuedOnce'
    <3>1. \A i \in DOMAIN items' : Open(items[i])'
      <4>1. SUFFICES ASSUME NEW i \in DOMAIN items' PROVE Open(items[i])'
        OBVIOUS
      <4>2. CASE i \in DOMAIN items
        BY <4>2, <1>0, <1>1, <1>5, ElementOfSeq DEF HeldOnce, QueuedOnce
      <4>3. CASE i = Len(items) + 1
        BY <4>3, <1>1, <1>5
      <4> QED
        BY <4>2, <4>3, <1>0, <1>1
    <3>2. \A i, j \in DOMAIN items' : items'[i] = items'[j] => i = j
      BY <1>0, <1>1, <2>1 DEF HeldOnce, QueuedOnce
    <3> QED
      BY <3>1, <3>2 DEF QueuedOnce
  <2>5. OpenIsHeld'
    BY <1>0, <1>1, <1>5, <2>3 DEF HeldOnce, OpenIsHeld
  <2>6. RunningOnce'
    BY <1>0, <1>1, <1>5, <2>2, <2>3 DEF HeldOnce, RunningOnce, TypeOK
  <2> QED
    BY <2>4, <2>5, <2>6 DEF HeldOnce
<1>7. CacheSound' /\ AnswerFaithful' /\ PromiseWaits'
  BY <1>5 DEF CacheSound, AnswerFaithful, PromiseWaits, cacheVars, TypeOK
<1>8. SignalSound'
  <2>1. \A w \in Workers : task[w] # c
    BY <1>5, ServerAssumption DEF HeldOnce, RunningOnce
  <2> QED
    BY <2>1, <1>2 DEF SignalSound, TypeOK
<1> QED
  BY <1>3, <1>4, <1>6, <1>7, <1>8

\* The call a worker runs is open, so no promise of it has been set, and it is
\* not queued.
LEMMA RunningIsOpen ==
    ASSUME CallInv, NEW w \in Workers, workerPc[w] \in Running
    PROVE  /\ task[w] \in Calls /\ request[task[w]] \in Request
           /\ task[w] # NoCall /\ Open(task[w]) /\ ~promised[task[w]]
           /\ \A i \in DOMAIN items : items[i] # task[w]
           /\ \A v \in Workers : task[v] = task[w] => v = w
  BY RunningTask, ServerAssumption
     DEF CallInv, HeldOnce, RunningOnce, TaskMatchesPc, Open, TypeOK

\* A call that returned is open no longer, and nobody holds it.
LEMMA ReturnStep ==
    ASSUME CallInv, NEW c \in Calls, Return(c)
    PROVE  CallInv'
<1> USE DEF CallInv, Return, poolVars, cacheVars
<1>1. NoRequest \in Request /\ NoResult \in Result
  <2>1. <<>> \in Seq(Words)
    BY EmptySeq
  <2>2. [words |-> <<>>, style |-> "plain"] \in Text
    BY <2>1 DEF Text, Styles
  <2> QED
    BY <2>2 DEF NoRequest, NoResult, Request, Result
<1>2. TypeOK'
  BY <1>1 DEF TypeOK
<1>3. TaskMatchesPc' /\ CacheSound' /\ PromiseWaits'
  BY DEF TaskMatchesPc, CacheSound, PromiseWaits, TypeOK
<1>4. ~Open(c) /\ \A d \in Calls : Open(d)' <=> Open(d)
  BY DEF TypeOK, Open
<1>5. HeldOnce'
  <2>1. OpenIsHeld'
    BY <1>4 DEF HeldOnce, OpenIsHeld
  <2>2. QueuedOnce'
    <3>1. \A i \in DOMAIN items : items[i] \in Calls
      BY ElementOfSeq, LenProperties DEF TypeOK
    <3> QED
      BY <3>1, <1>4 DEF HeldOnce, QueuedOnce
  <2>3. RunningOnce'
    BY <1>4 DEF HeldOnce, RunningOnce, TypeOK
  <2> QED
    BY <2>1, <2>2, <2>3 DEF HeldOnce
<1>6. AnswerFaithful'
  BY DEF AnswerFaithful, TypeOK
<1>7. SignalSound'
  <2>1. \A w \in Workers : workerPc[w] = "signalling" => task[w] # c
    BY <1>4, RunningIsOpen DEF Running
  <2> QED
    BY <2>1 DEF SignalSound, TypeOK
<1> QED
  BY <1>2, <1>3, <1>5, <1>6, <1>7

\* Shutting down, and waking up for no reason, change no call.
LEMMA WakeStep ==
    ASSUME CallInv, Shutdown \/ \E w \in Workers : SpuriousWakeup(w)
    PROVE  CallInv'
<1> USE DEF CallInv
<1>1. /\ UNCHANGED <<items, task, cacheVars, callVars>>
      /\ stopping' \in BOOLEAN
      /\ workerPc' \in [Workers -> {"popping", "blocked", "gone"} \cup Running]
      /\ \A w \in Workers :
            workerPc'[w] = workerPc[w] \/ (workerPc[w] = "blocked" /\ workerPc'[w] = "popping")
  <2>1. CASE Shutdown
    BY <2>1, NotifyMoves DEF Shutdown
  <2>2. CASE \E w \in Workers : SpuriousWakeup(w)
    BY <2>2 DEF SpuriousWakeup, TypeOK
  <2> QED
    BY <2>1, <2>2
<1> USE <1>1 DEF cacheVars, callVars
<1>2. TypeOK'
  BY DEF TypeOK
<1>3. TaskMatchesPc'
  BY DEF TaskMatchesPc, Running
<1>4. HeldOnce'
  BY DEF HeldOnce, OpenIsHeld, QueuedOnce, RunningOnce, Open
<1>5. CacheSound' /\ AnswerFaithful' /\ PromiseWaits'
  BY DEF CacheSound, AnswerFaithful, PromiseWaits
<1>6. SignalSound'
  BY DEF SignalSound
<1> QED
  BY <1>2, <1>3, <1>4, <1>5, <1>6

\* A call that is popped moves from the queue to one worker.
LEMMA PopStep ==
    ASSUME CallInv, NEW w \in Workers, Pop(w)
    PROVE  CallInv'
<1> USE DEF CallInv, Pop
<1>0. items \in Seq(Calls) /\ DOMAIN items = 1..Len(items) /\ Len(items) \in Nat
  BY LenProperties DEF TypeOK
<1>1. CASE items # <<>>
  <2> DEFINE c == Head(items)
  <2>1. /\ task' = [task EXCEPT ![w] = c] /\ items' = Tail(items)
        /\ workerPc' = [workerPc EXCEPT ![w] = "looking"]
        /\ UNCHANGED <<stopping, cacheVars, callVars>>
    BY <1>1 DEF Take
  <2>2. /\ c \in Calls /\ c = items[1] /\ 1 \in DOMAIN items
        /\ Tail(items) \in Seq(Calls) /\ Len(Tail(items)) = Len(items) - 1
        /\ DOMAIN Tail(items) = 1..(Len(items) - 1)
        /\ \A i \in 1..(Len(items) - 1) : Tail(items)[i] = items[i + 1]
    BY <1>0, <1>1, HeadTailProperties, LenProperties, EmptySeq, ElementOfSeq
  <2> HIDE DEF c
  <2> USE DEF cacheVars, callVars
  <2>3. TypeOK'
    BY <1>0, <2>1, <2>2, ServerAssumption DEF TypeOK, Running
  <2>4. TaskMatchesPc'
    BY <2>1, <2>2, ServerAssumption DEF TaskMatchesPc, Running, TypeOK
  <2>5. task[w] = NoCall /\ \A v \in Workers : task[v] # c
    <3>1. task[w] = NoCall
      BY DEF TaskMatchesPc, Running
    <3> QED
      BY <3>1, <2>2, ServerAssumption DEF HeldOnce, RunningOnce
  <2>6. Open(c) /\ \A d \in Calls : Open(d)' <=> Open(d)
    BY <2>1, <2>2 DEF HeldOnce, QueuedOnce, Open
  <2>7. HeldOnce'
    <3>1. OpenIsHeld'
      <4>1. SUFFICES ASSUME NEW d \in Calls, Open(d)
                     PROVE  (\E i \in DOMAIN items' : items'[i] = d) \/ (\E v \in Workers : task'[v] = d)
        BY <2>6 DEF OpenIsHeld
      <4>2. CASE \E v \in Workers : task[v] = d
        BY <4>2, <2>1, <2>5, ServerAssumption DEF TypeOK
      <4>3. CASE d = c
        BY <4>3, <2>1 DEF TypeOK
      <4>4. ASSUME NEW i \in DOMAIN items, items[i] = d, d # c
            PROVE  \E j \in DOMAIN items' : items'[j] = d
        <5>1. i # 1 /\ i - 1 \in 1..(Len(items) - 1)
          BY <4>4, <2>2, <1>0
        <5>2. items'[i - 1] = d
          BY <4>4, <5>1, <2>1, <2>2, <1>0
        <5> QED
          BY <5>1, <5>2, <2>1, <2>2
      <4> QED
        BY <4>1, <4>2, <4>3, <4>4 DEF HeldOnce, OpenIsHeld
    <3>2. QueuedOnce'
      BY <1>0, <2>1, <2>2, <2>6, ElementOfSeq DEF HeldOnce, QueuedOnce, Open
    <3>3. RunningOnce'
      <4>1. \A i \in DOMAIN items' : items'[i] # c /\ \E j \in DOMAIN items : items'[i] = items[j]
        BY <1>0, <2>1, <2>2 DEF HeldOnce, QueuedOnce
      <4> QED
        BY <4>1, <2>1, <2>2, <2>5, <2>6 DEF HeldOnce, RunningOnce, TypeOK
    <3> QED
      BY <3>1, <3>2, <3>3 DEF HeldOnce
  <2>8. CacheSound' /\ AnswerFaithful' /\ PromiseWaits'
    BY <2>1 DEF CacheSound, AnswerFaithful, PromiseWaits
  <2>9. SignalSound'
    BY <2>1, <2>5 DEF SignalSound, TypeOK
  <2> QED
    BY <2>3, <2>4, <2>7, <2>8, <2>9
<1>2. CASE items = <<>>
  <2>1. /\ UNCHANGED <<items, task, stopping, cacheVars, callVars>>
        /\ \E pc \in {"gone", "blocked"} : workerPc' = [workerPc EXCEPT ![w] = pc]
    BY <1>2 DEF Take
  <2> USE <2>1 DEF cacheVars, callVars
  <2>2. TypeOK'
    BY DEF TypeOK
  <2>3. TaskMatchesPc'
    BY DEF TaskMatchesPc, Running, TypeOK
  <2>4. HeldOnce'
    BY DEF HeldOnce, OpenIsHeld, QueuedOnce, RunningOnce, Open
  <2>5. CacheSound' /\ AnswerFaithful' /\ PromiseWaits'
    BY DEF CacheSound, AnswerFaithful, PromiseWaits
  <2>6. SignalSound'
    BY DEF SignalSound, TypeOK
  <2> QED
    BY <2>2, <2>3, <2>4, <2>5, <2>6
<1> QED
  BY <1>1, <1>2

\* A worker that moves on with its call, and writes its response, disturbs no
\* other call.
LEMMA AdvanceStep ==
    ASSUME CallInv, NEW w \in Workers, workerPc[w] \in Running,
           NEW pc \in Running, NEW result \in Result,
           workerPc' = [workerPc EXCEPT ![w] = pc],
           response' = [response EXCEPT ![task[w]] = result],
           pc = "signalling" => result = Answer(request[task[w]]),
           UNCHANGED <<items, stopping, task, callPc, request, promised>>,
           cache' \in Seq(Entry) /\ Len(cache') <= CacheCapacity,
           recency' \in Seq(Key), CacheSound'
    PROVE  CallInv'
<1> USE DEF CallInv
<1>0. /\ task[w] \in Calls /\ ~promised[task[w]]
      /\ \A v \in Workers : task[v] = task[w] => v = w
  BY RunningIsOpen
<1>1. TypeOK'
  BY <1>0 DEF TypeOK
<1>2. TaskMatchesPc'
  BY DEF TaskMatchesPc, TypeOK, Running
<1>3. HeldOnce' /\ PromiseWaits'
  BY DEF HeldOnce, OpenIsHeld, QueuedOnce, RunningOnce, Open, PromiseWaits
<1>4. AnswerFaithful'
  BY <1>0 DEF AnswerFaithful, TypeOK
<1>5. SignalSound'
  BY <1>0 DEF SignalSound, TypeOK
<1> QED
  BY <1>1, <1>2, <1>3, <1>4, <1>5

\* A hit answers like the index; a miss changes nothing but the worker.
LEMMA LookStep ==
    ASSUME CallInv, NEW w \in Workers, Look(w)
    PROVE  CallInv'
<1> DEFINE c == task[w]
           key == CacheKey(request[c])
<1>0. workerPc[w] = "looking" /\ workerPc[w] \in Running
  BY DEF Look, Running
<1>1. c \in Calls /\ request[c] \in Request
  BY <1>0, RunningIsOpen
<1>2. UNCHANGED <<items, stopping, task, callPc, request, promised>>
  BY DEF Look
<1>3. CASE CachedAt(key) # {}
  <2>1. PICK i \in CachedAt(key) :
            /\ response' = [response EXCEPT ![c] = cache[i].value]
            /\ cache' = AfterGet(i)
            /\ recency' = Touch(key)
            /\ workerPc' = [workerPc EXCEPT ![w] = "signalling"]
    BY <1>3 DEF Look
  <2>2. i \in DOMAIN cache /\ cache[i].key = key
    BY DEF CachedAt
  <2>3. cache[i] \in Entry
    BY <2>2, ElementOfSeq, LenProperties DEF CallInv, TypeOK
  <2>4. cache[i].value \in Result /\ cache[i].value = Answer(request[c])
    BY <2>2, <2>3, <1>1 DEF CallInv, CacheSound, Entry
  <2>5. cache' \in Seq(Entry) /\ Len(cache') <= CacheCapacity /\ CacheSound'
    BY <2>1, <2>2, AfterGetSound DEF CallInv, CacheSound
  <2>6. recency' \in Seq(Key)
    BY <2>1, <1>1, TouchType, KeyAnswerType DEF CallInv, TypeOK
  <2>7. "signalling" \in Running
    BY DEF Running
  <2> QED
    BY <1>0, <1>2, <2>1, <2>4, <2>5, <2>6, <2>7, AdvanceStep
<1>4. CASE CachedAt(key) = {}
  <2>1. /\ workerPc' = [workerPc EXCEPT ![w] = "searching"]
        /\ UNCHANGED <<response, cache, recency>>
    BY <1>4 DEF Look, cacheVars
  <2>2. "searching" \in Running /\ response[c] \in Result
    BY <1>1 DEF Running, CallInv, TypeOK
  <2>3. response' = [response EXCEPT ![c] = response[c]]
    BY <2>1, <1>1 DEF CallInv, TypeOK
  <2>4. cache' \in Seq(Entry) /\ Len(cache') <= CacheCapacity /\ recency' \in Seq(Key)
    BY <2>1 DEF CallInv, TypeOK
  <2>5. CacheSound'
    BY <2>1 DEF CallInv, CacheSound
  <2> QED
    BY <1>0, <1>2, <2>1, <2>2, <2>3, <2>4, <2>5, AdvanceStep
<1> QED
  BY <1>3, <1>4

\* A search writes the answer, to the response and to the cache.
LEMMA SearchAndStoreStep ==
    ASSUME CallInv, NEW w \in Workers, SearchAndStore(w)
    PROVE  CallInv'
<1> DEFINE r == request[task[w]]
<1>0. workerPc[w] \in Running /\ "signalling" \in Running
  BY DEF SearchAndStore, Running
<1>1. task[w] \in Calls /\ r \in Request
  BY <1>0, RunningIsOpen
<1>2. /\ response' = [response EXCEPT ![task[w]] = Answer(r)]
      /\ cache' = AfterPut(CacheKey(r), Answer(r))
      /\ recency' = Touch(CacheKey(r))
      /\ workerPc' = [workerPc EXCEPT ![w] = "signalling"]
      /\ UNCHANGED <<items, stopping, task, callPc, request, promised>>
  BY DEF SearchAndStore
<1>3. cache' \in Seq(Entry) /\ Len(cache') <= CacheCapacity /\ CacheSound'
  BY <1>1, <1>2, AfterPutSound DEF CallInv, CacheSound
<1>4. recency' \in Seq(Key) /\ Answer(r) \in Result
  BY <1>1, <1>2, TouchType, KeyAnswerType DEF CallInv, TypeOK
<1> QED
  BY <1>0, <1>1, <1>2, <1>3, <1>4, AdvanceStep

\* The promise is set once, by the worker that leaves the call.
LEMMA SignalStep ==
    ASSUME CallInv, NEW w \in Workers, Signal(w)
    PROVE  CallInv'
<1> USE DEF CallInv
<1>0. workerPc[w] \in Running
  BY DEF Signal, Running
<1> DEFINE c == task[w]
<1>1. /\ c \in Calls /\ c # NoCall /\ Open(c)
      /\ \A i \in DOMAIN items : items[i] # c
      /\ \A v \in Workers : task[v] = c => v = w
  BY <1>0, RunningIsOpen
<1>2. /\ promised' = [promised EXCEPT ![c] = TRUE]
      /\ task' = [task EXCEPT ![w] = NoCall]
      /\ workerPc' = [workerPc EXCEPT ![w] = "popping"]
      /\ UNCHANGED <<items, stopping, cache, recency, callPc, request, response>>
      /\ workerPc[w] = "signalling"
  BY DEF Signal, cacheVars
<1>3. response[c] = Answer(request[c])
  BY <1>2 DEF SignalSound
<1> HIDE DEF c
<1>4. TypeOK'
  BY <1>1, <1>2 DEF TypeOK
<1>5. TaskMatchesPc'
  BY <1>2 DEF TaskMatchesPc, TypeOK, Running
<1>6. \A d \in Calls : Open(d)' <=> Open(d) /\ d # c
  BY <1>1, <1>2 DEF Open, TypeOK
<1>7. HeldOnce'
  <2>1. OpenIsHeld'
    <3>1. SUFFICES ASSUME NEW d \in Calls, Open(d), d # c
                   PROVE  \/ \E i \in DOMAIN items : items[i] = d
                          \/ \E v \in Workers : task'[v] = d
      BY <1>2, <1>6 DEF OpenIsHeld
    <3>2. \A v \in Workers : task[v] = d => task'[v] = d
      BY <1>2, <3>1 DEF TypeOK, c
    <3> QED
      BY <3>1, <3>2 DEF HeldOnce, OpenIsHeld
  <2>2. QueuedOnce'
    <3>1. \A i \in DOMAIN items : items[i] \in Calls
      BY ElementOfSeq, LenProperties DEF TypeOK
    <3> QED
      BY <3>1, <1>1, <1>2, <1>6 DEF HeldOnce, QueuedOnce
  <2>3. RunningOnce'
    BY <1>1, <1>2, <1>6, ServerAssumption DEF HeldOnce, RunningOnce, TypeOK
  <2> QED
    BY <2>1, <2>2, <2>3 DEF HeldOnce
<1>8. CacheSound' /\ PromiseWaits'
  BY <1>1, <1>2 DEF CacheSound, PromiseWaits, TypeOK, Open
<1>9. AnswerFaithful'
  BY <1>2, <1>3 DEF AnswerFaithful, TypeOK
<1>10. SignalSound'
  BY <1>2 DEF SignalSound, TypeOK
<1> QED
  BY <1>4, <1>5, <1>7, <1>8, <1>9, <1>10

\* CallInv is inductive.
LEMMA CallInvStep == CallInv /\ [Next]_vars => CallInv'
<1> SUFFICES ASSUME CallInv, [Next]_vars PROVE CallInv'
  OBVIOUS
<1>1. ASSUME NEW c \in Calls, NEW req \in Requests, Call(c, req) PROVE CallInv'
  BY <1>1, CallStep
<1>2. ASSUME NEW c \in Calls, Return(c) PROVE CallInv'
  BY <1>2, ReturnStep
<1>3. ASSUME NEW w \in Workers, Worker(w) PROVE CallInv'
  BY <1>3, PopStep, LookStep, SearchAndStoreStep, SignalStep DEF Worker
<1>4. CASE Shutdown \/ \E w \in Workers : SpuriousWakeup(w)
  BY <1>4, WakeStep
<1>5. CASE UNCHANGED vars
  BY <1>5 DEF vars, poolVars, cacheVars, callVars, CallInv, TypeOK, TaskMatchesPc, HeldOnce,
     OpenIsHeld, QueuedOnce, RunningOnce, Open, PromiseWaits, CacheSound, SignalSound, AnswerFaithful
<1> QED
  BY <1>1, <1>2, <1>3, <1>4, <1>5 DEF Next

\* Every state satisfies CallInv.
LEMMA CallInvAlways == Spec => []CallInv
  BY CallInit, CallInvStep, PTL DEF Spec

\* The state is well formed: the queue and the cache never exceed their
\* capacities (bounded_queue.h:23, lru_cache.h:38-43).
THEOREM TypeCorrect == Spec => []TypeOK
  BY CallInvAlways, PTL DEF CallInv

\* However many callers and workers interleave, an accepted call that waits is
\* queued or run exactly once and nobody touches a call that returned.
THEOREM AcceptedHeldOnce == Spec => []HeldOnce
  BY CallInvAlways, PTL DEF CallInv

\* Cached or not, a call returns what the index answers to its own request.
THEOREM AnswersFaithful == Spec => []AnswerFaithful
  BY CallInvAlways, PTL DEF CallInv
-----------------------------------------------------------------------------
(* No worker sleeps beside a queued call *)

Popping == {w \in Workers : workerPc[w] = "popping"}

\* Popping is finite, and its cardinality counts what joins and leaves.
LEMMA PoppingCounts ==
    /\ IsFiniteSet(Popping) /\ Cardinality(Popping) \in Nat
    /\ \A w \in Workers : w \notin Popping =>
           Cardinality(Popping \cup {w}) = Cardinality(Popping) + 1
    /\ \A w \in Popping : Cardinality(Popping \ {w}) = Cardinality(Popping) - 1
    /\ \A T \in SUBSET Workers : Popping \subseteq T =>
           Cardinality(Popping) <= Cardinality(T) /\ Cardinality(T) \in Nat
<1>1. Popping \subseteq Workers
  BY DEF Popping
<1>2. IsFiniteSet(Workers)
  BY ServerAssumption
<1>3. \A T \in SUBSET Workers : IsFiniteSet(T) /\ Cardinality(T) \in Nat
  BY <1>2, FS_Subset, FS_CardinalityType
<1> QED
  BY <1>1, <1>3, FS_AddElement, FS_RemoveElement, FS_Subset

\* An accepted call wakes a worker for itself, or none sleeps.
LEMMA WorkConservingStep ==
    ASSUME TypeOK, WorkConserving, [Next]_vars
    PROVE  WorkConserving'
<1> USE DEF TypeOK
<1>0. items \in Seq(Calls) /\ Len(items) \in Nat
  BY LenProperties
<1>a. WorkConserving <=> (Blocked # {} => Len(items) <= Cardinality(Popping))
  BY DEF WorkConserving, Popping
<1>b. WorkConserving' <=> (Blocked' # {} => Len(items') <= Cardinality(Popping'))
  BY DEF WorkConserving, Popping
<1>1. ASSUME NEW c \in Calls, NEW req \in Requests, Call(c, req) PROVE WorkConserving'
  <2>1. Len(items') = Len(items) + 1
    BY <1>0, <1>1, AppendProperties DEF Call
  <2>2. CASE Blocked = {}
    BY <1>1, <1>b, <2>2 DEF Call, NotifyOne, Blocked
  <2>3. CASE Blocked # {}
    <3>1. PICK w \in Blocked : workerPc' = [workerPc EXCEPT ![w] = "popping"]
      BY <1>1, <2>3 DEF Call, NotifyOne
    <3>2. w \in Workers /\ w \notin Popping /\ Popping' = Popping \cup {w}
      BY <3>1 DEF Blocked, Popping
    <3>3. Cardinality(Popping') = Cardinality(Popping) + 1
      BY <3>2, PoppingCounts
    <3> QED
      BY <1>0, <1>a, <1>b, <2>1, <2>3, <3>3, PoppingCounts
  <2> QED
    BY <2>2, <2>3
<1>2. ASSUME NEW w \in Workers, Pop(w) PROVE WorkConserving'
  <2>1. CASE items # <<>>
    <3>1. workerPc' = [workerPc EXCEPT ![w] = "looking"] /\ items' = Tail(items)
      BY <1>2, <2>1 DEF Pop, Take
    <3>2. Len(items') = Len(items) - 1
      BY <1>0, <2>1, <3>1, HeadTailProperties
    <3>3. w \in Popping /\ Popping' = Popping \ {w} /\ Blocked' = Blocked
      BY <1>2, <3>1 DEF Pop, Popping, Blocked
    <3>4. Cardinality(Popping') = Cardinality(Popping) - 1
      BY <3>3, PoppingCounts
    <3> QED
      BY <1>0, <1>a, <1>b, <3>2, <3>3, <3>4, PoppingCounts
  <2>2. CASE items = <<>>
    <3>1. Len(items') = 0
      BY <1>2, <2>2, EmptySeq DEF Pop
    <3>2. Popping' \in SUBSET Workers
      BY DEF Popping
    <3>3. Cardinality(Popping') \in Nat
      BY <3>2, ServerAssumption, FS_Subset, FS_CardinalityType
    <3> QED
      BY <1>b, <3>1, <3>3
  <2> QED
    BY <2>1, <2>2
<1>3. CASE Shutdown
  BY <1>3, <1>b DEF Shutdown, NotifyAll, Blocked
<1>4. ASSUME UNCHANGED items, Popping \subseteq Popping', Blocked' \subseteq Blocked
      PROVE  WorkConserving'
  <2>1. Popping' \in SUBSET Workers
    BY DEF Popping
  <2>2. Cardinality(Popping) <= Cardinality(Popping') /\ Cardinality(Popping') \in Nat
    BY <1>4, <2>1, PoppingCounts
  <2> QED
    BY <1>0, <1>4, <1>a, <1>b, <2>2, PoppingCounts
<1>5. ASSUME NEW w \in Workers, SpuriousWakeup(w) \/ Signal(w) \/ Look(w) \/ SearchAndStore(w)
      PROVE  WorkConserving'
  <2>1. UNCHANGED items /\ Popping \subseteq Popping' /\ Blocked' \subseteq Blocked
    BY <1>5 DEF SpuriousWakeup, Signal, Look, SearchAndStore, Popping, Blocked
  <2> QED
    BY <1>4, <2>1
<1>6. ASSUME UNCHANGED <<items, workerPc>> PROVE WorkConserving'
  BY <1>6, <1>4 DEF Popping, Blocked
<1>7. ASSUME NEW c \in Calls, Return(c) PROVE WorkConserving'
  BY <1>6, <1>7 DEF Return, poolVars
<1>8. CASE UNCHANGED vars
  BY <1>6, <1>8 DEF vars, poolVars
<1> QED
  BY <1>1, <1>2, <1>3, <1>5, <1>7, <1>8 DEF Next, Worker

\* No wake-up is lost: whatever the workers, the callers and the condition
\* variable do, there is no sleeping worker beside a call nobody is coming for.
THEOREM NoSleepingWorker == Spec => []WorkConserving
<1>1. Init => WorkConserving
  BY DEF Init, WorkConserving, Blocked
<1>2. TypeOK /\ WorkConserving /\ [Next]_vars => WorkConserving'
  BY WorkConservingStep
<1> QED
  BY <1>1, <1>2, TypeCorrect, PTL DEF Spec
-----------------------------------------------------------------------------
(* The cache is the front of the order of use *)

\* Each key occurs once in the order of use.
UsedOnce == \A i, j \in DOMAIN recency : recency[i] = recency[j] => i = j

\* What get() and put() keep.
OrderInv == UsedOnce /\ LruOrder

\* As many as there are fit, up to the capacity.
LEMMA FittingIsMin ==
    ASSUME NEW n \in Nat
    PROVE  IF n < CacheCapacity THEN Fitting(n) = n ELSE Fitting(n) = CacheCapacity
  BY DEF Fitting

\* Using a key that was used moves it to the front.
LEMMA TouchUsed ==
    ASSUME UsedOnce, NEW i \in DOMAIN recency
    PROVE  Touch(recency[i]) = Promote(recency, i)
<1>1. PICK j \in DOMAIN recency :
          /\ recency[j] = recency[i]
          /\ Touch(recency[i]) = Promote(recency, j)
  BY DEF Touch
<1> QED
  BY <1>1 DEF UsedOnce

\* A key stays once in the order of use.
LEMMA TouchOnce ==
    ASSUME TypeOK, UsedOnce, NEW key \in Key, recency' = Touch(key)
    PROVE  UsedOnce'
<1>0. recency \in Seq(Key) /\ DOMAIN recency = 1..Len(recency) /\ Len(recency) \in Nat
  BY LenProperties DEF TypeOK
<1>1. CASE \E i \in DOMAIN recency : recency[i] = key
  <2>1. PICK i \in DOMAIN recency : recency[i] = key
    BY <1>1
  <2>2. recency' = Promote(recency, i) /\ DOMAIN recency' = DOMAIN recency
    BY <1>0, <2>1, TouchUsed, PromoteIsSeq
  <2> QED
    BY <1>0, <2>2 DEF UsedOnce, Promote
<1>2. CASE ~\E i \in DOMAIN recency : recency[i] = key
  <2>1. recency' = PutFirst(key, recency, Len(recency) + 1)
    BY <1>2 DEF Touch
  <2>2. DOMAIN recency' = 1..(Len(recency) + 1)
    BY <1>0, <2>1, PutFirstIsSeq
  <2> QED
    BY <1>0, <1>2, <2>1, <2>2 DEF UsedOnce, PutFirst
<1> QED
  BY <1>1, <1>2

\* get() keeps the cache at the front of the order of use.
LEMMA GetKeepsOrder ==
    ASSUME TypeOK, OrderInv, NEW key \in Key, NEW i \in CachedAt(key),
           cache' = AfterGet(i), recency' = Touch(key)
    PROVE  LruOrder'
<1>0. /\ cache \in Seq(Entry) /\ DOMAIN cache = 1..Len(cache) /\ Len(cache) \in Nat
      /\ recency \in Seq(Key) /\ DOMAIN recency = 1..Len(recency) /\ Len(recency) \in Nat
      /\ CacheCapacity \in Nat
  BY LenProperties, ServerAssumption DEF TypeOK
<1>1. Len(cache) = Fitting(Len(recency)) /\ Len(cache) <= Len(recency)
  BY <1>0 DEF OrderInv, LruOrder, Fitting
<1>2. i \in DOMAIN cache /\ i \in DOMAIN recency /\ recency[i] = key
  BY <1>0, <1>1 DEF CachedAt, OrderInv, LruOrder
<1>3. cache' = Promote(cache, i) /\ recency' = Promote(recency, i)
  BY <1>2, TouchUsed DEF AfterGet, OrderInv
<1>4. /\ Len(cache') = Len(cache) /\ DOMAIN cache' = DOMAIN cache
      /\ Len(recency') = Len(recency)
  <2>1. Len(Promote(cache, i)) = Len(cache) /\ DOMAIN Promote(cache, i) = DOMAIN cache
    BY <1>0, <1>2, PromoteIsSeq
  <2>2. Len(Promote(recency, i)) = Len(recency)
    BY <1>0, <1>2, PromoteIsSeq
  <2> QED
    BY <1>3, <2>1, <2>2
<1>5. \A j \in DOMAIN cache : cache'[j].key = recency'[j]
  BY <1>0, <1>1, <1>2, <1>3 DEF Promote, OrderInv, LruOrder
<1> QED
  BY <1>1, <1>4, <1>5 DEF LruOrder, Fitting

\* So does put(), whether another worker stored the key meanwhile or not.
LEMMA PutKeepsOrder ==
    ASSUME TypeOK, OrderInv, NEW key \in Key, NEW value \in Result,
           cache' = AfterPut(key, value), recency' = Touch(key)
    PROVE  LruOrder'
<1> DEFINE e == [key |-> key, value |-> value]
<1>0. /\ cache \in Seq(Entry) /\ DOMAIN cache = 1..Len(cache) /\ Len(cache) \in Nat
      /\ recency \in Seq(Key) /\ DOMAIN recency = 1..Len(recency) /\ Len(recency) \in Nat
      /\ CacheCapacity \in Nat /\ e \in Entry
  BY LenProperties, ServerAssumption DEF TypeOK, Entry
<1>1. Len(cache) = Fitting(Len(recency)) /\ Len(cache) <= Len(recency)
  BY <1>0 DEF OrderInv, LruOrder, Fitting
<1>2. \A j \in 1..Len(cache) : cache[j].key = recency[j]
  BY <1>0 DEF OrderInv, LruOrder
<1>3. CASE CachedAt(key) # {}
  <2>1. PICK i \in DOMAIN cache :
            cache[i].key = key /\ cache' = [Promote(cache, i) EXCEPT ![1] = e]
    BY <1>3 DEF AfterPut, CachedAt
  <2>2. i \in DOMAIN recency /\ recency[i] = key
    BY <1>0, <1>1, <1>2, <2>1
  <2>3. recency' = Promote(recency, i) /\ Len(recency') = Len(recency)
    BY <1>0, <2>2, TouchUsed, PromoteIsSeq DEF OrderInv
  <2> DEFINE p == Promote(cache, i)
  <2>4. p \in Seq(Entry) /\ Len(p) = Len(cache) /\ DOMAIN p = DOMAIN cache /\ 1 \in DOMAIN cache
    BY <1>0, <2>1, PromoteIsSeq
  <2>5. Len(cache') = Len(cache) /\ DOMAIN cache' = DOMAIN cache
    BY <1>0, <2>1, <2>4, ExceptSeq
  <2>6. \A j \in 1..Len(cache) : p[j].key = recency'[j]
    BY <1>0, <1>1, <1>2, <2>1, <2>2, <2>3 DEF Promote
  <2>7. recency'[1] = key
    BY <1>0, <1>1, <2>2, <2>3, <2>4 DEF Promote
  <2>8. \A j \in DOMAIN cache : cache'[j].key = recency'[j]
    BY <1>0, <2>1, <2>4, <2>6, <2>7
  <2> QED
    BY <1>1, <2>3, <2>5, <2>8 DEF LruOrder, Fitting
<1>4. CASE CachedAt(key) = {}
  <2> DEFINE n == Fitting(Len(cache) + 1)
  <2>1. n \in Nat /\ n <= Len(cache) + 1
    BY <1>0 DEF Fitting
  <2>2. cache' = PutFirst(e, cache, n)
    BY <1>4 DEF AfterPut
  <2>3. Len(cache') = n /\ DOMAIN cache' = 1..n
    BY <1>0, <2>1, <2>2, PutFirstIsSeq
  <2>4. \A j \in 1..n : cache'[j].key = IF j = 1 THEN key ELSE recency[j - 1]
    BY <1>0, <1>2, <2>1, <2>2 DEF PutFirst
  <2>5. CASE \E i \in DOMAIN recency : recency[i] = key
    <3>1. PICK i \in DOMAIN recency : recency[i] = key
      BY <2>5
    <3>2. Len(cache) < i
      BY <1>0, <1>2, <1>4, <3>1 DEF CachedAt
    <3>3. recency' = Promote(recency, i) /\ Len(recency') = Len(recency)
      BY <1>0, <3>1, TouchUsed, PromoteIsSeq DEF OrderInv
    <3>4. Len(cache) = CacheCapacity /\ n = Fitting(Len(recency)) /\ n = Len(cache)
      <4>1. Len(cache) < Len(recency)
        BY <1>0, <3>1, <3>2
      <4>2. Len(cache) = CacheCapacity /\ Fitting(Len(recency)) = CacheCapacity
        <5>1. ~(Len(recency) < CacheCapacity)
          BY <1>0, <1>1, <4>1, FittingIsMin
        <5> QED
          BY <1>0, <1>1, <5>1, FittingIsMin
      <4>3. Fitting(Len(cache) + 1) = CacheCapacity
        <5>1. Len(cache) + 1 \in Nat /\ ~(Len(cache) + 1 < CacheCapacity)
          BY <1>0, <4>2
        <5> QED
          BY <5>1, FittingIsMin
      <4> QED
        BY <4>2, <4>3
    <3>5. \A j \in 1..n : recency'[j] = IF j = 1 THEN key ELSE recency[j - 1]
      BY <1>0, <3>1, <3>2, <3>3, <3>4 DEF Promote
    <3> QED
      BY <2>3, <2>4, <3>3, <3>4, <3>5 DEF LruOrder
  <2>6. CASE ~\E i \in DOMAIN recency : recency[i] = key
    <3>1. recency' = PutFirst(key, recency, Len(recency) + 1)
      BY <2>6 DEF Touch
    <3>2. Len(recency') = Len(recency) + 1
      BY <1>0, <3>1, PutFirstIsSeq
    <3>3. n = Fitting(Len(recency) + 1) /\ n <= Len(recency) + 1
      BY <1>0, <1>1 DEF Fitting
    <3>4. \A j \in 1..n : recency'[j] = IF j = 1 THEN key ELSE recency[j - 1]
      BY <1>0, <3>1, <3>3, <2>1 DEF PutFirst
    <3> QED
      BY <2>3, <2>4, <3>2, <3>3, <3>4 DEF LruOrder
  <2> QED
    BY <2>5, <2>6
<1> QED
  BY <1>3, <1>4

\* Only get() and put() touch the cache.
LEMMA OrderStep ==
    ASSUME CallInv, OrderInv, [Next]_vars
    PROVE  OrderInv'
<1>0. TypeOK
  BY DEF CallInv
<1>1. ASSUME NEW w \in Workers, Look(w) PROVE OrderInv'
  <2> DEFINE key == CacheKey(request[task[w]])
  <2>1. key \in Key
    BY <1>1, RunningIsOpen, KeyAnswerType DEF Look, Running
  <2>2. CASE CachedAt(key) # {}
    <3>1. PICK i \in CachedAt(key) : cache' = AfterGet(i) /\ recency' = Touch(key)
      BY <1>1, <2>2 DEF Look
    <3> QED
      BY <1>0, <2>1, <3>1, TouchOnce, GetKeepsOrder DEF OrderInv
  <2>3. CASE CachedAt(key) = {}
    BY <1>1, <2>3 DEF Look, cacheVars, OrderInv, UsedOnce, LruOrder, Fitting
  <2> QED
    BY <2>2, <2>3
<1>2. ASSUME NEW w \in Workers, SearchAndStore(w) PROVE OrderInv'
  <2> DEFINE r == request[task[w]]
  <2>1. CacheKey(r) \in Key /\ Answer(r) \in Result
    BY <1>2, RunningIsOpen, KeyAnswerType DEF SearchAndStore, Running
  <2>2. cache' = AfterPut(CacheKey(r), Answer(r)) /\ recency' = Touch(CacheKey(r))
    BY <1>2 DEF SearchAndStore
  <2> QED
    BY <1>0, <2>1, <2>2, TouchOnce, PutKeepsOrder DEF OrderInv
<1>3. ASSUME UNCHANGED cacheVars PROVE OrderInv'
  BY <1>3 DEF cacheVars, OrderInv, UsedOnce, LruOrder, Fitting
<1>4. ASSUME NEW w \in Workers, Pop(w) \/ Signal(w) \/ SpuriousWakeup(w) PROVE OrderInv'
  BY <1>3, <1>4 DEF Pop, Signal, SpuriousWakeup
<1>5. ASSUME NEW c \in Calls, Return(c) \/ \E req \in Requests : Call(c, req) PROVE OrderInv'
  BY <1>3, <1>5 DEF Return, Call
<1>6. CASE Shutdown \/ UNCHANGED vars
  BY <1>3, <1>6 DEF Shutdown, vars
<1> QED
  BY <1>1, <1>2, <1>4, <1>5, <1>6 DEF Next, Worker

\* The cache holds the keys used last, whatever order workers look and store in
\* and whatever its capacity, zero included.
THEOREM CacheIsMostRecent == Spec => []LruOrder
<1>1. Init => OrderInv
  <2> SUFFICES ASSUME Init PROVE OrderInv
    OBVIOUS
  <2>1. Len(cache) = 0 /\ Len(recency) = 0 /\ CacheCapacity \in Nat
    BY EmptySeq, ServerAssumption DEF Init
  <2> QED
    BY <2>1 DEF Init, OrderInv, UsedOnce, LruOrder, Fitting
<1>2. CallInv /\ OrderInv /\ [Next]_vars => OrderInv'
  BY OrderStep
<1>3. OrderInv => LruOrder
  BY DEF OrderInv
<1> QED
  BY <1>1, <1>2, <1>3, CallInvAlways, PTL DEF Spec
=============================================================================
