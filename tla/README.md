# Formal model of cascade-search-engine

TLA+ modules, TLC configurations and TLAPS proofs about the search engine in
`src/`. The source is the reference: every definition of a module stands for the
lines that `PROJECT.json` ("map") names.

## 1. Inventory of the system

| Component | Source | State | Operations | Talks to |
|---|---|---|---|---|
| Query traversal | `cpp/query/searcher.cc` | posting cursors (block, position, docid), a bounded heap | `daat_or`, `wand`, `block_max_wand`, `next`, `next_geq`, `skip_to_block` | reads the mapped index; called by server, bindings |
| Index builder | `cpp/index/builder.cc`, `index_format.h` | temporary segments, the four index files | `build_index`: analyse and flush, k-way merge, write dictionary | files, run as a subprocess |
| Text analysis | `cpp/index/analyzer.cc`, `porter.cc` | none | tokenise, stop words, stem | builder, traversal |
| Queue and worker pool | `cpp/server/bounded_queue.h`, `worker_pool.h` | items, shutdown flag, threads | `try_push`, `pop`, `try_submit`, `shutdown` | search server |
| Result cache | `cpp/server/lru_cache.h` | recency list and key index | `get`, `put` | search server |
| Search server | `cpp/server/search_service.cc`, `main.cc` | calls in flight | `Query`, `handle_query` | pool, cache, traversal; gRPC threads |
| Query broker | `py/server/broker.py` | two thread pools, counters | `dispatch` (plain and hedged), `close` | one client per shard and replica |
| Shard processes | `py/server/shard_cluster.py`, `process.py`, `client.py` | child processes, channels | concurrent start, readiness, teardown | operating system |
| Corpus sharding | `py/server/partition_corpus.py`, `build_shards.py` | files | partition, build, skip what is there | builder |
| Near-real-time index | `py/nrt/index.py`, `merge_policy.py` | buffer, tombstones, segment list, next id, merge flag, pools, files | `add`, `flush`, `delete`, `search`, background merge, `close` | builder, segment search |
| Segment fan-out | `py/nrt/segment.py` | none | over-fetch, fan-out, filter, merge | traversal, per segment |
| Dynamic batching | `py/rank/batcher.py`, `crossencoder_harness.py` | items, window start, failure, events | `add`, `should_flush`, `flush`, flusher thread, `dispatch` | scorer, load generator |
| Load generator | `py/harness/loadgen.py`, `histogram.py` | schedule, pool, histogram | open-loop run, record | whatever it drives |
| Server and segment experiments | `py/server/hedging.py`, `tail_latency.py`, `throughput_knee.py`, `cache_sensitivity.py`, `py/nrt/segment_sweep.py`, `lag_experiment.py` | what is on disk, child processes | phases of partition, build, start, measure, stop | sharding, shard processes, broker, load generator |
| Evaluation harness | `py/harness/metrics.py`, `runfile.py`, `datasets.py`, `runmeta.py` | run files | NDCG, MRR, recall; write, read and truncate a run | everything below |
| Baselines | `py/baselines` | corpus exports, engine indexes, run files, the run manifest, result files | export, index, search, evaluate, report | external engines, builder |
| Dense recall and fusion | `py/dense` | subset, embeddings and their docids, ground truth, results | select, encode, exact and approximate search, rank fusion, report | encoder and ANN libraries, baselines' runs |
| Ranking cascade | `py/rank/prerank_*.py`, `encode_candidates.py`, `report.py` | candidate texts and scores, training examples | sample, train, cut, re-rank, measure consistency | baselines' runs, cross-encoder |
| Remote driver | `kaggle/phase4_driver.py` | result files | run the cascade and its serving experiments on another machine | ranking cascade, dynamic batching |

Where the system is hard:

* **Concurrency.** NRT writers, the merge thread, searches and `close()` meet at
  one lock and, outside it, at the file system. The server's gRPC threads and
  workers meet at the queue, the cache and each call's promise. The hedged
  broker races primaries and backups of many dispatches in two shared pools.
* **Failure.** `build_index` may fail inside a flush or a merge; a shard may
  fail before or after its backup; a server may fail to start; the scorer may
  raise; partition and shard builds and every offline script may be killed half way.
* **Ordering.** A merge deletes files outside the lock after the next merge has
  been queued; a tombstone must outlive the merges that move its document. The
  offline scripts reuse what earlier ones left, by existence checks.
* **Numeric edges.** The over-fetch bound, score ties at the k-th place, skip
  targets at block ends, `k = 0`, `merge_factor = 1`.

What makes each component correct: *traversal* – pruned searches return what
exhaustive search returns and always advance; *queue and pool* – an accepted
task runs exactly once and no task waits beside a sleeping worker; *cache* – a
hit is what the search would return, eviction is least recently used; *broker* –
an answer holds every shard's results or is an error, and a hedge never makes
it worse; *shard processes* – a failed start leaves nothing running;
*sharding* – what a restart takes as finished is finished; *near-real-time
index* – no document is lost or doubled, searches see one cut, files of live
segments survive, the segment count converges; *batching* – everyone who
enqueues is woken; *offline scripts* – a result is made from one whole set of
inputs; *cascade* – the measures it reports say what they claim. The hazards, each at its line, are in `PROJECT.json`.

## 2. Plan

| # | Module(s) | Models | Runs | Theorems |
|---|---|---|---|---|
| 1 | `SegmentSearch`, `NrtIndex`, `NrtStore`, `MCNrtIndex`, `NrtIndexProofs` | near-real-time index, fan-out | `nrt_index`, `nrt_search`, one violation | type, safety, refinement, exact fan-out, complete searches |
| 2 | `SearchServer`, `MCSearchServer`, `SearchServerProofs` | queue, pool, cache, calls | `server` | type, exactly-once, no idle worker beside a task, faithful answers, eviction order |
| 3 | `HedgedBroker`, `MCHedgedBroker`, `HedgedBrokerProofs` | fan-out, hedging, pools, counters, close | `broker`, one violation | type, exact merge, exact answers, exact counters, channels outlive calls |
| 4 | `Traversal`, `MCTraversal`, `TraversalProofs` | the three algorithms, cursors, block layout | `traversal`, one violation | type, nothing lost, the same top k, every iteration advances |
| 5 | `DynamicBatching`, `DynamicBatchingProofs` | batcher, flusher, dispatch, load generator | `batching` | type, every event has one owner, true outcomes, the pool never binds |
| 6 | `ShardedExperiment`, `ShardedExperimentProofs` | partition, build, server processes, the five scripts, crash and rerun | `sharded` | type, no stray servers, own servers answer, resumed work is whole |
| 7 | `ArtifactPipeline`, `ArtifactPipelineProofs` | the offline scripts' files, reuse, crashes | `pipeline` | type, whole embeddings, a pass repairs, sound results |
| 8 | `RunEvaluation`, `RankFusion`, `RankingCascade`, `RankingCascadeProofs` | run files, metrics, fusion, one query through the cascade | `cascade` | type, whole training pool, consistency bounds the loss, stable metrics, unanimous fusion |

What could follow: the byte layout of the index files.

Modules that are proved about hold no RECURSIVE operator; parameters are
CONSTANTS with named assumptions that TLC evaluates in every run.

## 3. Near-real-time index

### Modules

* `SegmentSearch` – the pure read side: `TopK` (what one segment returns),
  `OverFetch`, `MergeHits`, `SegmentSetSearch`.
* `NrtIndex` – the write side with all its threads. `Add`, `Flush`, `Delete`
  are the public calls; a flush is split at the `build_index` subprocess
  (`StartFlush`, then `FlushSucceeds` or `FlushFails`), and `flushing` holds the
  segment being built exactly while the lock is held. The merge thread is
  `MergeStart`, `MergeRead`, `MergeBuilds` / `MergeBuildFails`, `MergeSwap`,
  `MergeDelete`, `MergeFails`. `close()` is `CloseStart`, `CloseEnd`; a search
  is `SearchCall` (waiting for the lock), `SearchSnapshot`, `SearchReturn`.
* `NrtStore` – the abstract store: documents become visible together and stay,
  deleted ids stay deleted, a search reads one instant of both.
* `MCNrtIndex` – the instances TLC checks. `NrtIndexProofs` – the proofs about
  the write side, the merge budget and the fan-out.

### Abstractions

* A document is the position of its `add()` in `log`; text is not represented.
  One query is fixed; `Score[d]` is document `d`'s score under it, 0 for no
  match. Scores are distinct, so ties between segments are not modelled.
* A segment is the number in its file name and its documents. `files` stands
  for source TSV and index directory, which are written and deleted together.
* Lock sections without a subprocess are one step each. A thread waiting for
  the lock has done nothing yet; only a search's wait is represented, because
  its promise starts at the call.
* The merge policy breaks ties by list order; the model takes every choice among
  equals, so what holds here holds for the code's choice. `merge_policy = None`
  is `MaxSegments` never exceeded.
* Time-based flushing is the Boolean `due` of `Add`.
* A search that runs into the closed search pool raises; one that copied an
  empty snapshot returns nothing.

### Runs

| Run | Instance | Shows |
|---|---|---|
| `nrt_index` | one initial segment of 6 documents, up to 5 more, threshold 2, merges of 2 over a budget of 2, one failed build | all safety properties of the write side, `VisibleGrows`, `Converges`, `CloseReturns` |
| `nrt_search` | three added documents with mixed scores, one reader, `K = 1`, deletes of any id, merges over a budget of 1 | `NoDeletedHits`, `SearchComplete`, `ImplementsStore` |
| `nrt_overfetch` | the same external id added three times, then deleted | the over-fetch is too small, the answer loses a live document |

Bounds: `MaxDocs` ends the `log`, `MaxFailures` the failed builds; both only
guard actions. Five added documents with threshold 2 (or one at a time when
`due`) give up to five flushes during one merge, hence chains of several merges,
a failed build on either side of any of them, and `close()` at every point. One
reader is enough because searches do not affect one another or the writers.
The base of `nrt_index` is larger than all that can be added, as the seed
segment of the lag experiment is.

Three observations the runs made on the way. A failed merge clears the flag but
schedules nothing: an index over its budget stays there until the next flush,
while the comment at `index.py:114-115` says that convergence needs no write
traffic (`OverBudgetIsMerging` and `Converges` except it). A merge that is
chained while `close()` waits is refused by the closed pool inside the merge
thread, after the swap and before its `_delete_segment_files`: the files it
replaced stay on disk (`index.py:166`; `NoOrphanFiles` speaks of the open index).
`TypeOK`, `FlagTracksMerge` and `ClosedIsQuiet` are proved and no longer part of
a run.

### Fairness

`FairSpec` asks of a running build, the merge thread and `close()` that they go
on: the merge pool is an executor thread that always takes its next job, a
subprocess ends, and the lock is free infinitely often (the writer's fairness
ends every flush, and bounded failures and documents end the retries). No
caller has to add, flush, delete, search or close. `Converges` and
`CloseReturns` are checked under it.

### Proofs

`NrtIndexProofs` proves, for all constants allowed by the two assumptions, the
theorems listed in `PROJECT.json`. The safety properties are not inductive
by themselves: whether a merge finds its sources depends on no file with the
same number ever having been written with other documents, and on no other
merge having removed them. `IInv` therefore adds that numbers on disk, in the
buffer's flush, in queued and running jobs are below `nextSegmentId` and used
once; that `files` and the live segments agree wherever their numbers do; that
a queued or running plan is a set of live segments; and that the flag counts the
merges in the pool. `Inductive` proves `Init => IInv` and that each action
preserves it, action by action; the safety theorems follow from it.
`VisibleOnlyGrows`, `IndexImplementsStore` (every step is a step of the store or
a stutter) and `DeletedNeverReturned` use it for their steps. `LargestBaseKept`
holds under the assumption that the initial segment is larger than all
documents that may be added, which is what the lag experiment's comment counts
on.

`NoOrphans` rests on a second invariant: every file on disk belongs to a live
segment, a running build, or a merge that has yet to swap or to delete.

Its second part holds what needs counting:

* `OverBudgetMerges`: as long as nothing has failed, an open index over its
  budget has a merge scheduled or running. It needs that a plan of the `MergeFactor` smallest
  segments exists whenever more are live, which the proof finds by taking a
  least one at a time, and that the index starts within its budget.
* `FanOutIsExact`: what `SegmentSetSearch` returns for any set of segments and
  tombstones is the best `K` of their live documents. A segment's answer holds
  all of its documents that could be among them, as at most as many of those
  before them are deleted as the over-fetch allows for.
* `SearchesComplete`: a search returns every document that its snapshot should
  have returned, whatever the writers do meanwhile.

The last two assume that no external id is added twice (`~ReAdd`, `InitLog`
one-to-one) and that scores are distinct. The first assumption is needed:
`nrt_overfetch` is the run without it, and it loses a document.

Only model-checked: `Converges` and `CloseReturns`, which are liveness.

## 4. Search server

### Modules

* `SearchServer` – one server process. A gRPC thread's `Query` is `Call`
  (`try_submit`, with the notification it sends) and `Return` (`future.wait()`).
  A worker's loop is `Pop`, `Look` (`cache_.get`), `SearchAndStore`
  (`Index::search` and `cache_.put`), `Signal` (`promise->set_value()`).
  `Shutdown` is the destructor's; the pool has joined when every worker is
  `"gone"`. The pure part is `CacheKey`, `Answer` and the list operators of the
  cache, `Promote` and `PutFirst`.
* `MCSearchServer` – the requests of the instance. `SearchServerProofs` – the
  proofs.

### Abstractions

* Every lock section of the queue and of the cache is a step. A worker that
  finds the queue empty becomes `"blocked"` and is not runnable before it is
  notified or wakes spuriously; a notified worker competes for the mutex with
  the others and may find the item gone.
* A closure is the call it answers. `request`, `response` and `promised` are
  reset by `Return`, as gRPC takes the objects back then.
* A shed call changes nothing and is not a step. No call begins once the
  destructor has started: `main.cc` waits for the gRPC server to stop first.
* A text is its words and a style (case and blanks); the key drops the style,
  the index's analyser drops the style and repeated words. Punctuation is not
  represented. The answer is a function of the set of words and `k`; stemming,
  scores and `k = 0` belong to the traversal.
* `recency` is a history variable, the keys in order of use. It constrains no
  step and lets `LruOrder` say what the cache should hold.
* `cache_hit`, `queue_wait_us` and the thread quota are left out. Exceptions in
  a worker end the process.

### Run

`server`: three callers, two workers, a queue of two, a cache of two, three
cache keys from two texts and two values of `k`. Three calls are enough for one
running on each worker and one queued, or for a full queue with no worker
awake; three keys make the cache of two evict, also between the look and the
store of another worker. Callers repeat their calls for ever; nothing bounds
the run but the finite state space. It has no deadlock check because after
shutdown the system stops.

Fairness: each worker's own steps and each caller's return, threads that the
operating system runs when they can run. Nobody is obliged to call or to shut
down, and spurious wake-ups are never relied on. Under it `AcceptedAnswered`
says that shutdown drains the queue before it stops the workers, which the
comment at `bounded_queue.h:29-30` ("until an item is available or shutdown()
is called, in which case it returns std::nullopt") does not promise but the code
does; `ShutdownJoins` says the destructor ends.

### Proofs

For any number of callers and workers and any capacities, `SearchServerProofs`
proves every safety property of the run.

* `CallInv` is the inductive invariant behind `TypeCorrect`, `AcceptedHeldOnce`
  and `AnswersFaithful`. It adds to them that a worker holds a call exactly
  while it runs (`TaskMatchesPc`), that a promise is set only while its call has
  not returned, that a cached value is the answer to every request with its key
  (`CacheSound`), and that a worker about to signal has written the answer.
  `KeyTellsAnswers` is where the key's choice matters: two requests with one
  key have one answer. `AdvanceStep` factors what `Look` and `SearchAndStore`
  have in common.
* `WorkConserving` is inductive given the types; the proof counts the workers on
  their way to `pop` with the library's cardinality facts.
* `LruOrder` needs that no key occurs twice in `recency`: then the position of a
  hit in the cache is its position in `recency`, and promoting both, or putting
  a new key in front of both, keeps the one the front of the other
  (`GetKeepsOrder`, `PutKeepsOrder`).

`AcceptedAnswered` and `ShutdownJoins` are liveness and only model-checked.

## 5. Query broker

### Modules

* `HedgedBroker` – `Broker` and `HedgedBroker`, told apart by `hedged`, which
  never changes. `dispatch()` is `Begin`, `AddCalls` (the counter's read and
  write inside the lock), `SubmitPrimary` (one call after the other),
  `StopWaiting` (`wait(..., hedge_delay_s)`), pass 1 as `SubmitBackup`,
  `CountBackup`, `TallyBackup`, and pass 2 as `Resolve`, shard by shard, which
  ends in a merged answer or an exception. `EndCall` is a thread of a pool
  whose `SearchClient.dispatch` returns or raises. `close()` is `CloseStart`,
  `CloseReplicas`, `CloseClients`. The pure part is `Best` and `Answer`.
* `MCHedgedBroker` – two shards, four hits. `HedgedBrokerProofs` – the proofs.

### Abstractions

* A member of `Dispatches` is one execution of `dispatch()`, so the calls of one
  caller after the other are covered by the interleavings of several. They all
  carry the same query; nothing in the broker compares queries.
* A pool is external: a queue in submission order of its unfinished calls, of
  which the `N` oldest have a thread. A call that ends leaves the queue.
* The delay may end at any time after the last submission. `late` is read in
  the same step, as `wait` computes both of its results at once.
* If both calls of a shard have ended when it is resolved, either is taken, as
  `next(iter(done))` takes one of a set.
* Scores are all different. Ties between shards would be broken by shard number
  (the sort is stable), which no property speaks of. `shard_index` in the
  results is left out for the same reason; `ShardCalled` keeps what it stands
  for, the client that was asked.
* `close()` begins when no dispatch runs and none begins afterwards, as in
  `hedging.py` and `tail_latency.py`.

### Runs

| Run | Shows |
|---|---|
| `broker` | two dispatches, plain or hedged, over two shards and one failing call: answers are exact, counters too, channels outlive abandoned calls, everything returns |
| `broker_hedge_failure` | "whichever of the two answers first wins" fails: a call that *fails* first also wins, and the dispatch raises |

Two dispatches make four primaries compete for two threads, so a call can wait
behind another dispatch's, be hedged, lose, and be abandoned while it still
waits or runs. One failure is enough to raise out of pass 2 with calls of other
shards under way; two make the run several times longer. `MaxFailures` guards
only `EndCall`. The delay of a hedge also counts time that a call waits for a
thread of the shared pool, so a shard may be hedged before its own measured p95,
which the class comment excludes (`broker.py:73-75`). There is no deadlock check: a closed broker stops.

Fairness: each dispatch's own thread goes on; each pool ends one of its running
calls at a time, since `SearchClient.dispatch` has a timeout; `close()` goes on.
The lock needs no stronger fairness: each dispatch takes it a bounded number of
times, so it is free for good in the end. Nobody has to call or to close.

### Proofs

For any number of shards and dispatches, any corpus, partition and `k`:

* `MergeIsExact`: the best `k` of the shards' best `k` are the best `k` of the
  whole corpus. The overall best are in the merge, since a hit's rank in its
  shard is no worse than its rank in the corpus (`BestOfPart`). And a hit that
  `k` others beat is beaten by `k` of the overall best (`BestAbove`, which
  counts ranks with the library's theorems on injections), hence by `k` hits of
  the merge (`BestOfEnough`).
* `AnswersAreExact` and `ChannelsOutliveCalls` follow from the inductive
  invariant `IInv`: queues hold the unfinished calls, each once (`QueueSound`);
  a call that was taken has answered (`WinnerAnswered`); a dispatch that returned
  took one for every shard (`ReturnedComplete`); the plain broker has no
  backups; and `close()` has passed a stage only when its pool was quiet
  (`CloseSound`). `SubmitStep` and `EndCallStep` hold the queue arguments.

* `CountersAreExact`: one dispatch at a time is between its read and its write
  of a counter, and what it read is still the counter's value. Hence the total is
  the number of shards times the dispatches that added theirs, and the
  backups counted and those still owed are the backups sent.

`CallsReturn` is liveness and only model-checked.

## 6. Query traversal

### Modules

* `Traversal` – one `Index::search` by one of the three algorithms over one
  arbitrary index. The index is the builder's output: `Blocks` cuts a term's
  postings into blocks, `BlockMax` and `MaxImpact` are the bounds it writes. The
  cursor operations are functions from cursor to cursor: `Advance` (`next`),
  `Skip` (`skip_to_block`), `NextGeq`. One action is one iteration of a loop:
  `DaatOr`; `Wand`, which evaluates the pivot or drags a laggard; and
  `BlockMaxWand`, where a candidate runs out (`RunOut`), the pivot is probed
  (`Probe`) or the candidates jump (`Jump`). `Return` drains the heap.
* `MCTraversal` – the instances.

### Abstractions

* A cursor is its block and docid. The position in the block is the docid's; the
  payload bytes and frequencies are not represented. `Impact` is what
  `bm25_term_score` returns for a term and document.
* The heap is its set of results. `Push` keeps the `k` best under `Compare`,
  which is what replacing the worst does; `Reaches(bound)` is
  `bound >= threshold()`.
* The vector of live cursors, sorted again at every use, is the order `Before`.
  BlockMax-WAND's use of an older order (the snapshot of candidates, the skips in
  turn up to the first that runs out) is kept: `Skipped` follows the order
  before the skips, `Behind` and `On` see the cursors after them.
* `Sum(docid, value)` adds in the order of the cursors. It is a constant: exact
  addition in `traversal`, and addition that rounds to three bits in
  `traversal_float`, where three stand for the 24 of a float.
* `k = 0` reads the top of an empty heap, which is undefined, and is excluded.
  The test `next_candidate == kNoDocid` never holds and is left out.
* Mapping the files, `find_term` and the external ids are not modelled. A term
  that is not in the dictionary has no cursor, as if it had no postings.

### Runs

| Run | Shows |
|---|---|
| `traversal` | every query of three terms over five documents, blocks of two, `k` of 1 and 2: `SameTopK`, `NothingLost` on the way, `IterationsAdvance` |
| `traversal_float` | "a difference in results is a bug" (`searcher.h:5`): with rounded sums there is one |

Three terms are needed for a laggard, a cursor tied with the pivot and a cursor
outside the candidates at once; up to three blocks per list give skips over a
whole block and landings on both ends of one. Impacts from 1 to 3 make ties of
scores, and block bounds below their term's. Each list fills a block at least
(`MCLists`), which halves the number of indexes. A search is deterministic; all
the choice is in `Init`. There is no deadlock check as a search ends.

Termination is stated as the action property `IterationsAdvance`: every
iteration moves a cursor forward and none back, so the number of iterations is
bounded by the postings. It holds in every step, without a fairness assumption.

Two observations. The comments at `searcher.cc:373-375` and `446-447` say that
`>=` is needed in the pruning tests since a tie may displace the worst result.
Documents are scored in ascending docid order in all three algorithms, so a later
document never wins a tie, and `>` would do as well; the code is merely careful.
The finding of `traversal_float` needs four terms: one with a large contribution
whose cursor lags behind, and three whose small contributions each vanish when
they are added to it, but not when they are added to each other first. The
threshold lies between the two sums.

### Proofs

`TraversalProofs` proves all properties of the run for every index the builder
can write, any impacts, any block size, any number of terms and any `k`.
`NothingIsLost`, `AllReturnTopK` and `TypesHold` assume `Exact`, and
`traversal_float` shows that they need it. `EveryIterationAdvances` does not:
whatever the sums of the bounds come to, every iteration moves on.

* *The index.* `BlocksFormed`: the blocks that `Blocks` cuts by rank are not empty
  and ascend, for which the proof finds a posting of every rank.
* *Cursors.* `AdvanceIs`, `SkipIs` and `NextGeqIs` say where each operation lands
  and that it passes nothing at or behind its target.
* *Sums.* `Total`, which counts pairs, is monotone in its values
  (`TotalMonotone`), so a document's score is at most any sum of bounds over
  cursors that include its own (`ScoreAtMost`). No induction over data is needed.
* *The invariant* (`Kept`): each matching document is in the heap with its whole
  score and behind all of its cursors, ahead of or at all of them, or hopeless,
  that is, the heap is full of better ones. `BeforePivot` shows that
  whatever lies before the first cursor that reaches the threshold is hopeless;
  `CursorsMove` that cursors may pass hopeless documents; `EvaluateKeeps`,
  `DragKeeps` and `JumpKeeps` that each kind of iteration passes no others. In
  `JumpKeeps` the block bounds cover a document because all of its cursors are
  candidates and it lies in their current blocks.
* `HeapIsBest`: once all cursors that are left cannot reach the threshold, the
  heap is the best `k` of all matches.

## 7. Dynamic batching

### Modules

* `DynamicBatching` – one run of the cross-encoder harness. The main thread is
  `Issue` (a warm-up call, or an arrival submitted to the load generator's
  pool), `SetStop`, `Join`. A request's `dispatch()` is `Begin` (the failure
  check), `Shed` or `Enqueue` (one lock section: depth check and `add`), and
  `Return` (after `event.wait()`, with the second failure check). The flusher
  is `Flush`, `Score` or `ScoreFails`, `ReleaseOrphans` and `Leave`. The batcher
  is `Add`, `ShouldFlush`, `Taken`, `FlushItems`; `Tick` ages its window.
* `DynamicBatchingProofs` – the proofs.

### Abstractions

* Requests are numbered in the order they are made. A warm-up call is made by
  the main thread, the next one only after it returned; an arrival needs a
  thread of the pool, and threads take arrivals in submission order.
* Arrival times are left open: `Issue` may happen at any time. Latencies and
  percentiles are not represented.
* `waited` counts ticks up to `MaxWait`, which is when `should_flush` fires.
  The window starts again for what a full flush leaves behind
  (`batcher.py:50`), so an item can wait longer than `max_wait_ms`: nothing but
  a latency depends on it.
* Scoring is one step that sets all events of the batch, or raises.

### Run

`batching`: one warm-up call, five arrivals, batches of two, a queue of one,
four threads, both disciplines. One place in the queue makes shedding happen
with a batch under way; five arrivals fill the batch, the queue and leave one to
be shed and one late; the scorer may fail at every batch, before, between and
after the enqueueing of others. The run stops when it is over, so there is no
deadlock check. Fairness: the main thread, the flusher and every request's
thread go on when they can, time passes, and the scorer comes back.

Two observations. Under the *unbounded* discipline the pool does bind once its
threads are all blocked, and further requests wait for a thread instead of in the
queue. And `start` is taken before `dispatch()` is called, so `queue_delay` does
not contain the wait for a batch, which the docstring at
`crossencoder_harness.py:183-186` counts in.

### Proofs

They hold for any number of requests and any limits with
`MaxQueueDepth + MaxBatchSize` below the size of the pool. `IInv` holds the
types; `WaitersHeld` and `HeldOnce` (who is blocked is in the batcher or the
batch, once); `BatchSound` (there is a batch exactly while one is scored);
`IssueOrder` (nothing beyond `issued` has left "none", and arrivals follow only
completed warm-ups); `StopQuiet` (at stop everyone has ended); `Woken` (an event
is set without a score only after a failure); and `Accounted` (who ended unscored
was shed or saw the failure, and `shed` counts them). `NobodyForgottenHolds`,
`OutcomesTrueHolds` and `PoolNeverBindsHolds` follow; the last counts the blocked
with the library's cardinality facts. `RunEnds` is liveness and only
model-checked.

## 8. Sharded experiments

### Modules

* `ShardedExperiment` – the five scripts that partition the corpus, build an
  index per shard, start server processes, measure and stop them. A script is a
  sequence of phases (`HedgingPlan`, `TailLatencyPlan` and so on). Partition and
  build go file by file (`OpenShard`, `CloseShard`, `StartBuild`, `OpenTerms`,
  `FinishBuild`), with the checks that skip what is there. Each server has its
  process (`Popen`, `Listen`, `Die`) and the thread that enters it (`Ready`,
  `TimeOut`, `Reap`); a cluster comes up (`ClusterUp`) or takes what had started
  down again (`ClusterFails`). `Crash` ends the script and its children at any
  point, `Rerun` starts it again on the files that are left.
* `ShardedExperimentProofs` – the proofs.

### Abstractions

* A file is absent, being written, cut short or whole; an index is "started"
  before `index.terms` exists, "torn" while that file is written, "short" if it
  was built from less than the whole shard.
* The port of a server depends on its cluster and its shard. `Ready` asks only
  whether something listens there, which is all that the channel's readiness
  says.
* A measurement is two steps; what it measures is the business of the other
  modules.
* A crash ends the children too, as an interrupt of the process group or of the
  host does. A SIGKILL of the script alone would leave servers that answer the
  next run's readiness probes on the same ports; nothing in the code guards
  against that, and it is outside the model.
* The builder's writes are unchecked streams (`builder.cc`), so a full disk
  would look like success; the model has no such failure.

`struck` remembers the shards where a crash left something the code cannot tell
from a finished file: the last shard's TSV (or the fixed slice), when all files
exist, and `index.terms`, of which the comment at `build_shards.py:22-23` says
that its presence means a finished build. `ResumedWhole` promises nothing about
those and everything about all others.

### Run

`sharded`: two shards, up to three phases of one or two clusters, two reruns
after a crash or an exception. Two shards are needed for one server failing
while another starts, and for a first and a last file; two reruns for a crash
while repairing a crash. Fairness: the script's threads go on, and every wait in
them has a timeout in the code. A finished script stops, so there is no deadlock
check.

One observation outside the model: `cache_sensitivity.py` counts hits with an
unlocked `+= 1` from the generator's threads, so a hit can be lost from the
count.

### Proofs

They hold for any number of shards and reruns. The invariant describes the plan's
shape (`PlanFacts`), where a script may be (`Control`), which server belongs to
whom (`Processes`) and the files (`Slices`, `Texts`, `Partitioned`, `Indexes`,
`Built`). Two arguments carry it. A partial shard file is struck, being written,
or a later file of its partition is absent, so the existence check cannot pass
over it. And all live processes are of the current phase, so the server that
answers on a port is the one that was started for it. `ScriptEnds` is only
model-checked.

## 9. Offline scripts

### Modules

`ArtifactPipeline` – seventeen scripts that hand files to each other, from the
corpus export to the reports of the ranking cascade. A script is a sequence of
writes, each from what it has read. The operator starts scripts in any order
(`Detour`) or in an order that has every input before it is read (`StartNext`);
a script passes over an index that exists or a run of the manifest that does not
(`Skip`), opens and closes each of its files (`Open`, `Close`), raises on a
missing or torn input or a failed check (`Raise`), or is interrupted (`Crash`).
`ArtifactPipelineProofs` holds its proofs.

### Abstractions

* A file's content is its state ("torn" while open, "flawed" if made from
  something flawed, "whole") and its provenance: the corpus export, the subset
  and the limit its data came from, each with the option value it was made with
  (`Option`, `Mark`). An edition stands for a seed or a size of `export.py`,
  `tantivy_bm25.py` or `subset.py`, a limit for a value of `encode.py --limit`
  or none (`NoLimit`). `FullSize` holds the pairs of a subset and a limit that
  give `SUBSET_SIZE` embeddings.
* `RowsChecked`, `RecallChecked` and `FeaturesChecked` are the assertions of
  `ground_truth.py` and `ann_sweep.py` and the feature lookups as conditions on
  states and provenance. They are as weak as the code's: the recall of
  `ann_sweep.py:150` only has to exceed 0.9, and it does against the ground
  truth of another subset that holds most of the same passages. With one seed a
  smaller `--subset-size` selects part of what a larger one does, and `--limit`
  cuts a prefix, so such values pass for one another; `Alike` says which, and
  `Near` compares two. Likewise the features of an export that lacks few
  passages may cover every candidate. What the model leaves out is the measure
  itself: whether two values are alike is a constant, not a number of passages.
* What `Sound` asks of a result follows from that. `ground_truth.py`, the fusion
  and the evaluations have inputs that cannot come from two values of a kind
  unless something was spoilt, so their results are of one. The sweep and the
  two serving experiments that read features (`Compared`) may mix values, but
  only such as pass for one that is among them (`Kindred`): the sweep of
  950,000 vectors against the ground truth of a million is sound in this sense
  and no error says what it is.
* `Unframed` are the files whose format lets a reader take a cut one for a short
  one. `spoilt` collects the files that were changed where no later check can
  tell; `ResultsSound` excepts the results that depend on one of them
  (`Suspects`) and promises the others.
* The scores of the candidates are JSON lines and could be cut like the unframed
  files, but their last rows are dl20's, and `phase4_driver.py` looks up each of
  them; so a torn scores file raises.
* The manifest's entries are not followed one by one. A run whose file is there
  is taken to have its entry, one whose file is missing to have been recorded
  earlier; the reports then go on with the next run, and without a result of
  that one (`RunMissing`, `Skip`).
* `passed` counts the scripts that ended in `Order` without a disturbance.

What ends up in `spoilt`, that is, what the code cannot notice: an unframed file
cut short; the docids replaced but not the embeddings, since
`ground_truth.py:67-72` compares row counts only; the development runs replaced
but not the evaluation runs, also when a torn manifest makes `append_manifest`
raise in between; and a Tantivy index that was opened again, because
`--force-index` adds every document a second time. `RerunRepairs` excepts the
latter's results: no forced pass repairs them. Further observations: the reports
put together whatever is there; a run file may be newer than its entry in the
manifest; two baselines at once can lose each other's manifest entries (the model
runs one script at a time); `dense/report.py` prints the constant seed and not
the one that was used.

### Run

`pipeline`: from an empty disk, or from a finished pass after which the corpus
was exported and the subset selected once more; three groups of scripts whose
members may run out of order, three such detours, one interrupt. The editions
are two of full size, one of which has a nested one of another size ("near",
alike "a"), and the limits are none and one that cuts little, alike none. So a
sweep against a ground truth of a nested or a longer subset, which the recall
lets pass, is among the states, and one against another subset's must raise:
without `RecallChecked`, or without `FeaturesChecked`, `ResultsSound` fails.
About 3.3 million states. A group holds the scripts that feed one another; three
detours are a script at the root, one between, and a reader. The operator may
stop at any point, so there is no deadlock check.

### Proofs

`ArtifactPipelineProofs` proves the three properties of the run for any editions,
limits and campaigns, whatever is alike and of full size, without a bound on
scripts out of order or on interrupts. Two lemmas turn the scripts into tables
that the provers can use: `StepTable` (every step of every script) and
`StepReads` (`MadeFrom`: what each file is made from).

* `EmbeddingsAreWhole`: `Open` leaves the old file, `Close` puts a complete one.
* `PassRepairs` rests on `PassInv`: while a pass is under way the running script
  is the next of `Order` with the deployed options, and every file that the pass
  has written (`Done`) and is not writing is `Whole`. `InputsComeFirst` shows
  that `Order` has every input before it is read, `MadeIsWhole` that a step with
  whole inputs makes the file it should.
* `ResultsAreSound` needs to know of every file what it can come from and what
  can harm it (`SoundInv`). `FromOK`: the files that are made of one corpus
  export, of one subset, of one subset under one limit, and those that may mix
  several of a kind. `CleanOK`: a file none of whose `Cause` is spoilt is not
  flawed, is `Pure` (what `Sound` asks of its provenance) and, if unframed, torn
  only while it is written. `RunsAgree` and `ArraysAgree`: the two runs of an
  index and the two arrays of a subset are of one origin, except between their
  two writes, where an interrupt spoils the second. `Ready` is what a step has
  checked before it writes. `MadeSound`, the main lemma, goes through the kinds
  of files: where the causes of what is read are not all causes of what is
  made, the step's check makes up for them (`RowsChecked` for the ground
  truth, `RecallChecked` for the sweep, `FeaturesChecked` for the serving
  experiments), as far as that check reaches. The theorem assumes nothing of
  `Alike`: with no two values alike it says that no result is mixed, and the
  more are alike the less it promises of the three compared results.

## 10. Ranking cascade

### Modules

* `RunEvaluation` – run files and metrics as functions: a stable sort
  (`Sorted`), `WriteRun`, `ReadRun`, `ReadRunTruncated`, `TruncateToTopK`, NDCG,
  MRR, recall and `Evaluate`.
* `RankFusion` – reciprocal rank fusion and min-max normalised score fusion.
* `RankingCascade` – one query's life: `Search`, `EncodeCandidates`, then the
  training sample (`BuildTrainingExamples`), or the full ranking (`ScoreAll`),
  the pre-ranked cut (`Prerank`), `EvaluateCascade` and `RescoreSurvivors`; or
  `Fuse` after the search.
* `RankingCascadeProofs` – the proofs, the lemmas about sorting, run files,
  rankings and fusion among them.

### Abstractions

* Scores of the networks are arbitrary. At fp32 the second scoring of a pair
  gives the first one's score; at fp16 and INT8 anything is possible, which is
  why nothing is said of them.
* Scores are natural numbers: floating-point rounding is left out. An order that
  `sorted()` is given is the set of pairs of places of the run (`ByScore`,
  `ByScoreAndDocid`), and `Sorted` puts at each place the hit that has as many
  before it.
* NDCG's discounts are in hundredths, a table of ten (so `Cut` is at most 10, which
  is what the driver asks for), and its values exact fractions. Fused scores are
  in units in which every share is whole: `RrfUnit` is a multiple of `RrfK` plus
  any rank, `ScoreUnit` of any difference of two scores (`UnitAssumption`), which
  every depth and every finite set of scores has.
* One query per behaviour. Metrics are averages over queries, so a property of
  each query carries over. Only the depth that `evaluate()` asserts is a maximum
  over all queries (`metrics.py:127`), so one deep query hides the shallow ones;
  `EvaluateCascade` takes either depth of the others.
* A `dict` is in the order of insertion, a `set` in any order.

Observations: documents that are relevant but not the chosen positive stay in
the negative pool and may be sampled with label 0 (`prerank_mlp.py:74`); a
channel with one hit, or with equal scores, normalises to 0 (`fusion.py:43`);
ties across the cut are broken by candidate order in the driver and by docid in
the metrics, which is why `ConsistencyBoundsLoss` excepts them; the Zipf
sampler's last cumulative weight may come out below 1, and a draw above it runs
past the end (`loadgen.py:78`).

### Run

`cascade`: all runs of up to three out of four documents with two score levels
(so ties of every kind occur), three grades, a pool of two, cuts at two; 155,816
states. A query takes at most seven steps, so nothing is bounded but the data.
Three hits are one more than each cut, which is the case where a wrong order
shows. `RrfUnit` is 61 · 62 · 63, for three ranks.

### Proofs

`RankingCascadeProofs` proves the four properties of the run, and `TypeOK`, for any
documents, scores, judgments and depths that meet `CascadeAssumption` and
`UnitAssumption`; no number of hits, no distinctness of scores is assumed.

* Sorting. `Numbering`: in a finite set with a strict total order, counting what
  comes before each element numbers them all, in order. So `Sorted` is a
  permutation (`SortedIs`) that leaves a sorted run alone (`SortedAlready`), and
  `Among` keeps the hits asked for with their scores (`AmongIs`).
* Run files. `ReadRun` and `ReadRunTruncated` are recursive functions. Since
  induction is not available, the proofs name the function's closed form, show
  that it meets the recursive equation, and that two functions which do cannot
  differ at a least place (`LeastNat`): `ReadRunIs`, `ReadRunTruncatedIs`.
* Rankings. `RankedIs` and `TopOfIs` say what the metrics look at without places:
  a document is among the first k if fewer than k are `Above` it, by score and
  then docid. `SameRanking`: runs with the same documents and scores rank alike.
* The inductive invariant `CascadeInv` says what each stage leaves for the next.
  It needs what no property says: that the file is in its sort order
  (`InFileOrder`), that what is encoded is the head of the sorted run, and that the
  evaluated run is `Among` the full scores.
* `TrainingPoolIsWhole`: a file in its order is its own sorted run, so that the
  head of the file is the head of the sorting (`PoolIs`).
* `ConsistencyBounds`: without a tie across the boundary, what the full ranking
  evaluates is in its true top (`EvaluatedIsTrueTop`); a survivor has no more above
  it in the cascade's run than in the full one (`AboveAmong`), so what is missing is
  a document that the consistency counts as lost (`MissedIsLost`).
* `Fp32DeltaIsZero`: the second run has the same documents and scores in another
  order (`RescoredRun`), and evaluation sees the ranking and the length only
  (`EvaluateSame`).
* `FusionIsUnanimous`: shares fall with the rank and grow with the score, strictly
  because the units divide exactly (`RankShare`, `LargerMultiple`).
* `OnlyShortRunsFail`: the pre-ranker keeps `TopK` candidates or all there are
  (`CutByScore`), each of which has a score, so `EvaluateCascade` can fail its
  assertion only where there were fewer candidates than `TopK` (`InvSurvivors`).

What NDCG computes (`Gain`, `IdealGain`: a fold and a sort of the library) is never
opened: the proofs use that it depends on the top of the ranking alone. `TypeOK` is
proved and not among the run's properties.

## 11. Only model-checked

* Liveness, which is out of the prover's reach: `Converges`, `CloseReturns`,
  `AcceptedAnswered`, `ShutdownJoins`, `CallsReturn`, `RunEnds`, `ScriptEnds`.
* The three documented claims that the code does not keep are violations in the
  runs `nrt_overfetch`, `broker_hedge_failure` and `traversal_float`: a
  counterexample needs no proof.

Every other property of a run is a theorem.

## 12. Not modelled

* Text analysis: tokenising and stemming are functions of characters without
  state. The bytes of the index files and the two-pass external merge.
* Encoders, rankers and approximate search: numerics of external libraries.
* Reports, plots, the latency histogram and the lag driver's measurements: they
  write no state that anything else depends on.
* `gen_proto.py`, the bindings and the protocol: glue, modelled with the two
  sides it joins.
* How long a caller waits for a lock, and the gRPC thread quota of `main.cc`:
  performance.
* `k = 0`, `merge_factor = 1` and `max_segments = 0`, which no caller passes, and
  `try_push` after shutdown, which `main.cc` rules out by stopping gRPC first.
  They are excluded by assumptions or guards.
