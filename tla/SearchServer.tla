---------------------------- MODULE SearchServer ----------------------------
(***************************************************************************)
(* One search server, src/cpp/server: Query() calls on gRPC threads hand   *)
(* closures to a bounded queue, a fixed pool of workers runs them, and an  *)
(* LRU cache of results is shared by the workers.                          *)
(*                                                                         *)
(* Every critical section of the queue's and of the cache's mutex is one   *)
(* step.  A worker that found the queue empty is blocked in                *)
(* not_empty_.wait() until it is notified; from then on it competes for    *)
(* the mutex like any other worker.  A closure is named by the call it     *)
(* answers: it holds that call's request, response and promise.            *)
(*                                                                         *)
(* A request's text is its sequence of words and its style: letter case    *)
(* and the blanks around and between the words.                            *)
(***************************************************************************)
EXTENDS Naturals, Sequences, FiniteSets

CONSTANTS
    Calls,          \* gRPC threads that run Query(), one call at a time
    Workers,        \* worker threads
    QueueDepth,     \* --queue-depth
    CacheCapacity,  \* --cache-capacity
    Words,          \* words of query texts
    Requests,       \* the requests that are made
    NoCall          \* "no call"

Styles == {"plain", "shouted", "spaced"}
Text == [words : Seq(Words), style : Styles]
Request == [text : Text, k : Nat]

ASSUME ServerAssumption ==
    /\ IsFiniteSet(Calls) /\ IsFiniteSet(Workers)
    /\ QueueDepth \in Nat /\ CacheCapacity \in Nat
    /\ Requests \subseteq Request
    /\ NoCall \notin Calls

VARIABLES
    items,     \* items_: calls queued for a worker
    stopping,  \* shutting_down_
    workerPc,  \* where each worker is in its loop and in handle_query
    task,      \* the call whose closure it runs, or NoCall
    cache,     \* entries_: [key, value], most recently used first
    recency,   \* history: every key used so far, most recently used first
    callPc,    \* where each call is
    request,   \* its request
    response,  \* what the workers wrote to its response
    promised   \* whether its promise is set

poolVars == <<items, stopping, workerPc, task>>
cacheVars == <<cache, recency>>
callVars == <<callPc, request, response, promised>>
vars == <<poolVars, cacheVars, callVars>>
-----------------------------------------------------------------------------
(* Requests, cache keys and answers *)

\* normalize(): lower case, one blank between words, none around them.
Normalize(text) == text.words

\* Faulty form: the key without k.
KeyOfText(req) == [words |-> Normalize(req.text), k |-> 0]

\* The cache key of a request.
CacheKey(req) == [words |-> Normalize(req.text), k |-> req.k]

\* What Index::search computes for a request.  It analyses the raw text:
\* blanks and case are dropped, a repeated word counts once.
Answer(req) ==
    [terms |-> {req.text.words[i] : i \in DOMAIN req.text.words}, k |-> req.k]

Key == [words : Seq(Words), k : Nat]
Result == [terms : SUBSET Words, k : Nat]
Entry == [key : Key, value : Result]
NoResult == [terms |-> {}, k |-> 0]
NoRequest == [text |-> [words |-> <<>>, style |-> "plain"], k |-> 0]
-----------------------------------------------------------------------------
(* LruCache: sequences kept in order of use *)

\* The element at position i moved to the front (entries_.splice).
Promote(s, i) ==
    [j \in DOMAIN s |-> IF j = 1 THEN s[i] ELSE IF j <= i THEN s[j - 1] ELSE s[j]]

\* e followed by the elements of s, n elements in all.
PutFirst(e, s, n) == [j \in 1..n |-> IF j = 1 THEN e ELSE s[j - 1]]

Fitting(n) == IF n < CacheCapacity THEN n ELSE CacheCapacity

CachedAt(key) == {i \in DOMAIN cache : cache[i].key = key}

\* Faulty form: a hit leaves the entry where it is.
AfterGetInPlace(i) == cache

\* What get() makes of the cache when it finds the key at position i.
AfterGet(i) == Promote(cache, i)

\* What put() makes of the cache: overwrite and promote, or insert and evict
\* the last entry above the capacity.
AfterPut(key, value) ==
    IF CachedAt(key) # {}
    THEN LET i == CHOOSE i \in CachedAt(key) : TRUE
         IN  [Promote(cache, i) EXCEPT ![1] = [key |-> key, value |-> value]]
    ELSE PutFirst([key |-> key, value |-> value], cache, Fitting(Len(cache) + 1))

\* History: the key becomes the most recently used one.
Touch(key) ==
    IF \E i \in DOMAIN recency : recency[i] = key
    THEN Promote(recency, CHOOSE i \in DOMAIN recency : recency[i] = key)
    ELSE PutFirst(key, recency, Len(recency) + 1)
-----------------------------------------------------------------------------
Init ==
    /\ items = <<>>
    /\ stopping = FALSE
    /\ workerPc = [w \in Workers |-> "popping"]
    /\ task = [w \in Workers |-> NoCall]
    /\ cache = <<>>
    /\ recency = <<>>
    /\ callPc = [c \in Calls |-> "idle"]
    /\ request = [c \in Calls |-> NoRequest]
    /\ response = [c \in Calls |-> NoResult]
    /\ promised = [c \in Calls |-> FALSE]
-----------------------------------------------------------------------------
(* The queue *)

Blocked == {w \in Workers : workerPc[w] = "blocked"}

Full == Len(items) >= QueueDepth

\* Faulty form: notify only when the queue was empty.
NotifyOneIfEmpty ==
    IF Blocked = {} \/ items # <<>>
    THEN UNCHANGED workerPc
    ELSE \E w \in Blocked : workerPc' = [workerPc EXCEPT ![w] = "popping"]

\* not_empty_.notify_one(): one of the blocked workers, if any, wakes up.
NotifyOne ==
    IF Blocked = {}
    THEN UNCHANGED workerPc
    ELSE \E w \in Blocked : workerPc' = [workerPc EXCEPT ![w] = "popping"]

\* not_empty_.notify_all()
NotifyAll ==
    workerPc' = [w \in Workers |->
                    IF workerPc[w] = "blocked" THEN "popping" ELSE workerPc[w]]

\* Faulty form: the front item is copied and left in the queue.
TakeCopy(w) == task' = [task EXCEPT ![w] = Head(items)] /\ UNCHANGED items

\* The front item leaves the queue.
Take(w) == task' = [task EXCEPT ![w] = Head(items)] /\ items' = Tail(items)

\* Faulty form: give up at shutdown, whatever is still queued.
PopUnlessStopping(w) ==
    /\ workerPc[w] = "popping"
    /\ IF ~stopping /\ items # <<>>
       THEN Take(w) /\ workerPc' = [workerPc EXCEPT ![w] = "looking"]
       ELSE /\ workerPc' = [workerPc EXCEPT ![w] =
                               IF stopping THEN "gone" ELSE "blocked"]
            /\ UNCHANGED <<items, task>>
    /\ UNCHANGED <<stopping, cacheVars, callVars>>

\* pop() with the mutex held: take the front item; with none, leave the loop
\* when shutting down and wait otherwise.
Pop(w) ==
    /\ workerPc[w] = "popping"
    /\ IF items # <<>>
       THEN Take(w) /\ workerPc' = [workerPc EXCEPT ![w] = "looking"]
       ELSE /\ workerPc' = [workerPc EXCEPT ![w] =
                               IF stopping THEN "gone" ELSE "blocked"]
            /\ UNCHANGED <<items, task>>
    /\ UNCHANGED <<stopping, cacheVars, callVars>>

\* A condition variable may wake a waiter that nobody notified.
SpuriousWakeup(w) ==
    /\ workerPc[w] = "blocked"
    /\ workerPc' = [workerPc EXCEPT ![w] = "popping"]
    /\ UNCHANGED <<items, stopping, task, cacheVars, callVars>>

\* Faulty form: shutdown() does not notify.
ShutdownSilently ==
    /\ ~stopping
    /\ stopping' = TRUE
    /\ UNCHANGED <<items, workerPc, task, cacheVars, callVars>>

\* WorkerPool::shutdown(), by the destructor: raise the flag, wake everybody,
\* then join.  Calls that are queued or running are still answered.
Shutdown ==
    /\ ~stopping
    /\ stopping' = TRUE
    /\ NotifyAll
    /\ UNCHANGED <<items, task, cacheVars, callVars>>
-----------------------------------------------------------------------------
(* Query() on a gRPC thread *)

\* try_submit() accepts the call.  A call that finds the queue full is shed,
\* RESOURCE_EXHAUSTED, and leaves no trace.  The owner of a pool destroys it
\* only when nobody will call it any more, hence no call begins after that.
Call(c, req) ==
    /\ callPc[c] = "idle"
    /\ ~stopping
    /\ ~Full
    /\ callPc' = [callPc EXCEPT ![c] = "waiting"]
    /\ request' = [request EXCEPT ![c] = req]
    /\ items' = Append(items, c)
    /\ NotifyOne
    /\ UNCHANGED <<stopping, task, cacheVars, response, promised>>

\* future.wait() returns; request and response belong to gRPC again.
Return(c) ==
    /\ callPc[c] = "waiting"
    /\ promised[c]
    /\ callPc' = [callPc EXCEPT ![c] = "idle"]
    /\ request' = [request EXCEPT ![c] = NoRequest]
    /\ response' = [response EXCEPT ![c] = NoResult]
    /\ promised' = [promised EXCEPT ![c] = FALSE]
    /\ UNCHANGED <<poolVars, cacheVars>>
-----------------------------------------------------------------------------
(* handle_query() on a worker *)

\* cache_.get(); on a hit its copy of the results is the answer.
Look(w) ==
    LET c == task[w]
        key == CacheKey(request[c])
    IN  /\ workerPc[w] = "looking"
        /\ IF CachedAt(key) # {}
           THEN \E i \in CachedAt(key) :
                   /\ response' = [response EXCEPT ![c] = cache[i].value]
                   /\ cache' = AfterGet(i)
                   /\ recency' = Touch(key)
                   /\ workerPc' = [workerPc EXCEPT ![w] = "signalling"]
           ELSE /\ workerPc' = [workerPc EXCEPT ![w] = "searching"]
                /\ UNCHANGED <<response, cacheVars>>
        /\ UNCHANGED <<items, stopping, task, callPc, request, promised>>

\* Index::search, outside every lock, the copy of its results to the response,
\* and cache_.put(), which is the step's lock section: another worker may have
\* stored the same key since Look missed it.
SearchAndStore(w) ==
    LET c == task[w]
        answer == Answer(request[c])
        key == CacheKey(request[c])
    IN  /\ workerPc[w] = "searching"
        /\ response' = [response EXCEPT ![c] = answer]
        /\ cache' = AfterPut(key, answer)
        /\ recency' = Touch(key)
        /\ workerPc' = [workerPc EXCEPT ![w] = "signalling"]
        /\ UNCHANGED <<items, stopping, task, callPc, request, promised>>

\* promise->set_value(); the closure ends and the worker goes back to pop().
Signal(w) ==
    /\ workerPc[w] = "signalling"
    /\ promised' = [promised EXCEPT ![task[w]] = TRUE]
    /\ task' = [task EXCEPT ![w] = NoCall]
    /\ workerPc' = [workerPc EXCEPT ![w] = "popping"]
    /\ UNCHANGED <<items, stopping, cacheVars, callPc, request, response>>
-----------------------------------------------------------------------------
Worker(w) == Pop(w) \/ Look(w) \/ SearchAndStore(w) \/ Signal(w)

Next ==
    \/ \E c \in Calls, req \in Requests : Call(c, req)
    \/ \E c \in Calls : Return(c)
    \/ \E w \in Workers : Worker(w) \/ SpuriousWakeup(w)
    \/ Shutdown

Spec == Init /\ [][Next]_vars

\* Threads that can run do run; nobody has to call or to shut down.
Fairness ==
    /\ \A w \in Workers : WF_vars(Worker(w))
    /\ \A c \in Calls : WF_vars(Return(c))

FairSpec == Spec /\ Fairness
-----------------------------------------------------------------------------
Running == {"looking", "searching", "signalling"}

TypeOK ==
    /\ items \in Seq(Calls) /\ Len(items) <= QueueDepth
    /\ stopping \in BOOLEAN
    /\ workerPc \in [Workers -> {"popping", "blocked", "gone"} \cup Running]
    /\ task \in [Workers -> Calls \cup {NoCall}]
    /\ cache \in Seq(Entry) /\ Len(cache) <= CacheCapacity
    /\ recency \in Seq(Key)
    /\ callPc \in [Calls -> {"idle", "waiting"}]
    /\ request \in [Calls -> Request]
    /\ response \in [Calls -> Result]
    /\ promised \in [Calls -> BOOLEAN]
-----------------------------------------------------------------------------
(* Safety *)

\* The call is blocked on a promise nobody has set yet.
Open(c) == callPc[c] = "waiting" /\ ~promised[c]

OpenIsHeld ==
    \A c \in Calls : Open(c) =>
        (\E i \in DOMAIN items : items[i] = c) \/ (\E w \in Workers : task[w] = c)

QueuedOnce ==
    /\ \A i \in DOMAIN items : Open(items[i])
    /\ \A i, j \in DOMAIN items : items[i] = items[j] => i = j

RunningOnce ==
    \A w \in Workers : task[w] # NoCall =>
        /\ Open(task[w])
        /\ \A i \in DOMAIN items : items[i] # task[w]
        /\ \A v \in Workers : task[v] = task[w] => v = w

\* Every call blocked on its promise is in the queue or with a worker, once;
\* and no closure that is queued or running belongs to a call that could
\* already have returned, whose request and response are gone
\* (search_service.cc:75-86).
HeldOnce == OpenIsHeld /\ QueuedOnce /\ RunningOnce

\* No worker sleeps beside a queued call: when one is blocked, at least as
\* many workers as there are items are on their way to pop
\* (bounded_queue.h:21-38).
WorkConserving ==
    Blocked # {} => Len(items) <= Cardinality({w \in Workers : workerPc[w] = "popping"})

\* A call that returns OK carries what the index answers to its own request,
\* from the cache or not: the key tells requests apart wherever the index
\* does (search_service.cc:26-67).
AnswerFaithful ==
    \A c \in Calls : promised[c] => response[c] = Answer(request[c])

\* The cache holds the most recently used keys, as many as fit, whatever the
\* order in which workers look and store (lru_cache.h:19-44).
LruOrder ==
    /\ Len(cache) = Fitting(Len(recency))
    /\ \A i \in DOMAIN cache : cache[i].key = recency[i]
-----------------------------------------------------------------------------
(* Liveness *)

\* Every call that was not shed returns, even when the pool shuts down
\* meanwhile: workers drain the queue first (bounded_queue.h:31-38).
AcceptedAnswered ==
    \A c \in Calls : callPc[c] = "waiting" ~> callPc[c] = "idle"

\* shutdown() joins: every worker leaves its loop (worker_pool.h:41-46).
ShutdownJoins == stopping ~> \A w \in Workers : workerPc[w] = "gone"
=============================================================================
