-------------------------- MODULE DynamicBatching --------------------------
(***************************************************************************)
(* One run of the cross-encoder serving harness: the open-loop generator   *)
(* of src/py/harness/loadgen.py drives dispatch() of                       *)
(* src/py/rank/crossencoder_harness.py on a thread pool; dispatch() puts   *)
(* its request into the DynamicBatcher of src/py/rank/batcher.py and       *)
(* blocks on the request's event; the flusher thread takes batches out,    *)
(* scores them and sets the events.                                        *)
(*                                                                         *)
(* `lock` is held for one read-modify-write of the batcher at a time, so   *)
(* each of its critical sections is one step.  Requests 1..Warmups are the *)
(* warm-up calls the main thread makes itself, one after the other; the    *)
(* others are the arrivals, submitted to the pool in order and at any      *)
(* time.                                                                   *)
(***************************************************************************)
EXTENDS Naturals, Sequences, FiniteSets

CONSTANTS
    Warmups,        \* warmup_requests
    Arrivals,       \* number of arrivals of the open-loop run
    MinWorkers,     \* the least size of the generator's thread pool
    MaxBatchSize,   \* max_batch_size
    MaxWait,        \* max_wait_ms, in ticks of the clock
    MaxQueueDepth   \* max_queue_depth

Requests == 1..(Warmups + Arrivals)

\* The size run_queue_discipline gives the pool.
Workers == IF 4 * MaxQueueDepth >= MinWorkers THEN 4 * MaxQueueDepth ELSE MinWorkers

ASSUME BatchingAssumption ==
    /\ Warmups \in Nat /\ Arrivals \in Nat /\ MaxWait \in Nat
    /\ MinWorkers \in Nat \ {0} /\ MaxBatchSize \in Nat \ {0}
    /\ MaxQueueDepth \in Nat \ {0}
    /\ MaxQueueDepth + MaxBatchSize < Workers

VARIABLES
    discipline,  \* "shed": the queue is capped; "unbounded": it is not
    main,        \* "running", "stopping", then "returned" or "raised"
    issued,      \* requests the main thread has made or submitted
    pc,          \* where each request is
    items,       \* _items: the requests in the batcher
    waited,      \* the age of the batcher's window, up to MaxWait
    flusher,     \* "polling", "scoring", "releasing" after a failure, "gone"
    batch,       \* the batch being scored
    scored,      \* requests whose event was set with their score
    released,    \* requests whose event was set without one
    failure,     \* whether `failure` holds an exception
    shed         \* counters["shed"]

batcherVars == <<items, waited>>
flusherVars == <<flusher, batch, scored, released, failure>>
mainVars == <<main, issued>>
vars == <<discipline, mainVars, pc, shed, batcherVars, flusherVars>>

Elements(s) == {s[i] : i \in DOMAIN s}
-----------------------------------------------------------------------------
(* DynamicBatcher *)

Add(r) ==
    /\ items' = Append(items, r)
    /\ waited' = IF items = <<>> THEN 0 ELSE waited

ShouldFlush ==
    /\ items # <<>>
    /\ Len(items) >= MaxBatchSize \/ waited >= MaxWait

\* What flush() returns, and what it leaves behind in a window of its own.
Taken == IF Len(items) <= MaxBatchSize THEN items ELSE SubSeq(items, 1, MaxBatchSize)

BugFlushItems ==
    /\ items' = <<>>
    /\ waited' = 0

FlushItems ==
    /\ items' = SubSeq(items, MaxBatchSize + 1, Len(items))
    /\ waited' = 0

Tick ==
    /\ items # <<>> /\ waited < MaxWait
    /\ waited' = waited + 1
    /\ UNCHANGED <<discipline, mainVars, pc, shed, items, flusherVars>>
-----------------------------------------------------------------------------
(* The main thread *)

Ended(r) == pc[r] \in {"ok", "shed", "failed"}
Running == main = "running"
Stop == ~Running
WarmedUp == \A r \in 1..Warmups : pc[r] = "ok"
WarmupFailed == \E r \in 1..Warmups : pc[r] \in {"shed", "failed"}

\* The next warm-up call, or the next arrival: the generator never waits for
\* an answer before it submits.
Issue ==
    /\ Running /\ issued < Warmups + Arrivals
    /\ IF issued < Warmups
       THEN \A r \in 1..issued : pc[r] = "ok"
       ELSE WarmedUp
    /\ issued' = issued + 1
    /\ pc' = [pc EXCEPT ![issued + 1] = "submitted"]
    /\ UNCHANGED <<discipline, main, shed, batcherVars, flusherVars>>

\* The pool has drained, or a warm-up call raised: stop.set().
SetStop ==
    /\ Running
    /\ WarmupFailed \/ (issued = Warmups + Arrivals /\ \A r \in Requests : Ended(r))
    /\ main' = "stopping"
    /\ UNCHANGED <<discipline, issued, pc, shed, batcherVars, flusherVars>>

Join ==
    /\ main = "stopping" /\ flusher = "gone"
    /\ main' = IF WarmupFailed \/ failure THEN "raised" ELSE "returned"
    /\ UNCHANGED <<discipline, issued, pc, shed, batcherVars, flusherVars>>
-----------------------------------------------------------------------------
(* dispatch() *)

InDispatch == {r \in Requests : pc[r] \in {"entering", "waiting"}}

\* A thread for the request: its own pool thread, in order of submission; the
\* main thread for a warm-up call.
HasThread(r) ==
    /\ \A q \in 1..(r - 1) : pc[q] # "submitted"
    /\ r > Warmups => Cardinality(InDispatch) < Workers

Begin(r) ==
    /\ pc[r] = "submitted" /\ HasThread(r)
    /\ pc' = [pc EXCEPT ![r] = IF failure THEN "failed" ELSE "entering"]
    /\ UNCHANGED <<discipline, mainVars, shed, batcherVars, flusherVars>>

BugFull == discipline = "shed" /\ Len(items) > MaxQueueDepth

Full == discipline = "shed" /\ Len(items) >= MaxQueueDepth

Shed(r) ==
    /\ pc[r] = "entering" /\ Full
    /\ shed' = shed + 1
    /\ pc' = [pc EXCEPT ![r] = "shed"]
    /\ UNCHANGED <<discipline, mainVars, batcherVars, flusherVars>>

Enqueue(r) ==
    /\ pc[r] = "entering" /\ ~Full
    /\ Add(r)
    /\ pc' = [pc EXCEPT ![r] = "waiting"]
    /\ UNCHANGED <<discipline, mainVars, shed, flusherVars>>

BugReturn(r) ==
    /\ pc[r] = "waiting" /\ r \in scored \cup released
    /\ pc' = [pc EXCEPT ![r] = "ok"]
    /\ UNCHANGED <<discipline, mainVars, shed, batcherVars, flusherVars>>

\* event.wait() is over; `failure` is looked at again.
Return(r) ==
    /\ pc[r] = "waiting" /\ r \in scored \cup released
    /\ pc' = [pc EXCEPT ![r] = IF failure THEN "failed" ELSE "ok"]
    /\ UNCHANGED <<discipline, mainVars, shed, batcherVars, flusherVars>>
-----------------------------------------------------------------------------
(* flusher() *)

Flush ==
    /\ flusher = "polling" /\ ~Stop /\ ShouldFlush
    /\ FlushItems
    /\ batch' = Taken
    /\ flusher' = "scoring"
    /\ UNCHANGED <<discipline, mainVars, pc, shed, scored, released, failure>>

Score ==
    /\ flusher = "scoring"
    /\ scored' = scored \cup Elements(batch)
    /\ batch' = <<>>
    /\ flusher' = "polling"
    /\ UNCHANGED <<discipline, mainVars, pc, shed, batcherVars, released, failure>>

BugScoreFails ==
    /\ flusher = "scoring"
    /\ failure' = TRUE
    /\ released' = released \cup Elements(batch)
    /\ batch' = <<>>
    /\ flusher' = "gone"
    /\ UNCHANGED <<discipline, mainVars, pc, shed, batcherVars, scored>>

\* session.score() raises: the batch is woken, scores or not.
ScoreFails ==
    /\ flusher = "scoring"
    /\ failure' = TRUE
    /\ released' = released \cup Elements(batch)
    /\ batch' = <<>>
    /\ flusher' = "releasing"
    /\ UNCHANGED <<discipline, mainVars, pc, shed, batcherVars, scored>>

\* The loop that wakes what is still in the batcher, or arrives there late.
ReleaseOrphans ==
    /\ flusher = "releasing" /\ ~Stop /\ items # <<>>
    /\ FlushItems
    /\ released' = released \cup Elements(Taken)
    /\ UNCHANGED <<discipline, mainVars, pc, shed, flusher, batch, scored, failure>>

Leave ==
    /\ flusher \in {"polling", "releasing"} /\ Stop
    /\ flusher' = "gone"
    /\ UNCHANGED <<discipline, mainVars, pc, shed, batcherVars, batch, scored, released, failure>>
-----------------------------------------------------------------------------
Init ==
    /\ discipline \in {"shed", "unbounded"}
    /\ main = "running" /\ issued = 0
    /\ pc = [r \in Requests |-> "none"]
    /\ items = <<>> /\ waited = 0
    /\ flusher = "polling" /\ batch = <<>>
    /\ scored = {} /\ released = {}
    /\ failure = FALSE
    /\ shed = 0

MainStep == Issue \/ SetStop \/ Join
RequestStep(r) == Begin(r) \/ Shed(r) \/ Enqueue(r) \/ Return(r)
FlusherStep == Flush \/ Score \/ ScoreFails \/ ReleaseOrphans \/ Leave

Next ==
    \/ MainStep
    \/ \E r \in Requests : RequestStep(r)
    \/ FlusherStep
    \/ Tick

Spec == Init /\ [][Next]_vars

\* Threads run, the clock advances, the scorer returns or raises, and the
\* arrivals come to an end.
FairSpec ==
    /\ Spec
    /\ WF_vars(MainStep) /\ WF_vars(FlusherStep) /\ WF_vars(Tick)
    /\ \A r \in Requests : WF_vars(RequestStep(r))
-----------------------------------------------------------------------------
TypeOK ==
    /\ discipline \in {"shed", "unbounded"}
    /\ main \in {"running", "stopping", "returned", "raised"}
    /\ issued \in 0..(Warmups + Arrivals)
    /\ pc \in [Requests ->
                  {"none", "submitted", "entering", "waiting", "ok", "shed", "failed"}]
    /\ items \in Seq(Requests) /\ batch \in Seq(Requests)
    /\ waited \in 0..MaxWait
    /\ flusher \in {"polling", "scoring", "releasing", "gone"}
    /\ scored \subseteq Requests /\ released \subseteq Requests
    /\ failure \in BOOLEAN
    /\ shed \in Nat
-----------------------------------------------------------------------------
(* Safety *)

\* The requests blocked on an event nobody has set yet.
Blocked == {r \in Requests : pc[r] = "waiting"} \ (scored \cup released)

WaitersHeld == Blocked = Elements(items) \cup Elements(batch)

HeldOnce ==
    /\ \A i, j \in DOMAIN items : items[i] = items[j] => i = j
    /\ \A i, j \in DOMAIN batch : batch[i] = batch[j] => i = j
    /\ Elements(items) \cap Elements(batch) = {}

\* The flusher is never caught inside score() by stop(): the join cannot run
\* into its timeout, and nothing is left in the batcher.
IdleAtStop == Stop => flusher # "scoring" /\ items = <<>>

\* A request that is blocked is in the batcher or in the flusher's batch,
\* once, and the flusher is there until nobody is: every event has exactly
\* one owner, who will set it (crossencoder_harness.py:188-198).
NobodyForgotten == WaitersHeld /\ HeldOnce /\ IdleAtStop

\* A request that counts as completed was scored, not merely woken; and in a
\* run that returns, every arrival was recorded and every error is a shed,
\* none under the unbounded discipline (crossencoder_harness.py:384).
OutcomesTrue ==
    /\ \A r \in Requests : pc[r] = "ok" => r \in scored
    /\ main = "returned" =>
          /\ \A r \in Requests : Ended(r)
          /\ Cardinality({r \in Requests : pc[r] # "ok"}) =
                IF discipline = "shed" THEN shed ELSE 0

\* Under the shed discipline never every thread of the pool is blocked,
\* however many requests arrive: one is left to shed with, so load is refused
\* by the cap and not held up by the pool (crossencoder_harness.py:359-362).
PoolNeverBinds ==
    discipline = "shed" =>
        /\ Len(items) <= MaxQueueDepth
        /\ Cardinality(Blocked) < Workers
-----------------------------------------------------------------------------
(* Liveness *)

\* The run ends, with a result or an exception, also when the scorer fails
\* with requests queued or about to queue, and when the last batch is never
\* filled: no thread blocks for ever (crossencoder_harness.py:195-198).
RunEnds == <>(main \in {"returned", "raised"})
=============================================================================
