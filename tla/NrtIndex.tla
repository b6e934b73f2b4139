------------------------------ MODULE NrtIndex ------------------------------
(***************************************************************************)
(* The write side of near-real-time indexing, src/py/nrt/index.py with its *)
(* merge policy: writers buffer documents and flush them into segments     *)
(* under one lock, one background thread merges the smallest segments,     *)
(* searches run on a snapshot of the segment list, and close() stops the   *)
(* pools while any of it may still be running.                             *)
(*                                                                         *)
(* A document is the position of its add() in log; log[d] is its external  *)
(* id.  A segment, and a source TSV on disk, is a record of the number in  *)
(* its file name and the documents it holds.                               *)
(*                                                                         *)
(* Every call but a flush holds the lock only for assignments, so it is    *)
(* one step; a flush holds it across build_index, so `flushing` is set     *)
(* exactly while the lock is held.  A call waiting for the lock has no     *)
(* effect yet; only the waiting of searches is represented.                *)
(***************************************************************************)
EXTENDS SegmentSearch, Sequences

CONSTANTS
    Ids,             \* external ids
    Readers,         \* threads that call search()
    FlushThreshold,  \* flush_threshold_docs
    MergeFactor,     \* TieredMergePolicy.merge_factor
    MaxSegments,     \* TieredMergePolicy.max_segments
    InitSegments,    \* initial_segments
    InitLog,         \* external ids of the documents initial_segments hold
    K,               \* the k of every search
    ReAdd,           \* whether callers add an external id they added before
    MaxDocs,         \* bound: documents ever added, initial ones included
    MaxFailures      \* bound: builds that fail

None == [id |-> 0, docs |-> {}]           \* "no segment"
NoJob == [plan |-> {}, id |-> 0]          \* "no merge job"

Segment == [id : Nat, docs : SUBSET Nat]
Job == [plan : SUBSET Segment, id : Nat]

DocsIn(segs) == UNION {s.docs : s \in segs}

ASSUME ConstantsAssumption ==
    /\ FlushThreshold \in Nat \ {0}
    /\ MergeFactor \in Nat \ {0, 1}
    /\ MaxSegments \in Nat \ {0}
    /\ K \in Nat /\ MaxDocs \in Nat /\ MaxFailures \in Nat
    /\ ReAdd \in BOOLEAN
    /\ InitLog \in Seq(Ids)

\* initial_segments are distinct, numbered below their count, and partition
\* the documents they hold, none of them empty (build_index exits with an
\* error on an empty corpus).
ASSUME InitSegmentsAssumption ==
    /\ InitSegments \subseteq Segment
    /\ IsFiniteSet(InitSegments)
    /\ DocsIn(InitSegments) = 1..Len(InitLog)
    /\ \A s \in InitSegments : s.docs # {} /\ s.id < Cardinality(InitSegments)
    /\ \A s, t \in InitSegments :
          s # t => s.id # t.id /\ s.docs \cap t.docs = {}

VARIABLES
    log,             \* external id of every document ever passed to add()
    buffer,          \* self._buffer: documents not yet in a segment
    tombstones,      \* self._tombstones
    segments,        \* self._segments
    nextSegmentId,   \* self._next_segment_id
    mergeInProgress, \* self._merge_in_progress
    flushing,        \* the segment a flush is building under the lock, or None
    files,           \* source TSVs (with their index dirs) on disk
    jobs,            \* queue of the one-thread merge pool
    mergePc,         \* where the merge thread is in _run_merge
    mergeJob,        \* the job it runs
    merged,          \* the segment it builds
    closing,         \* progress of close()
    failures,        \* builds that failed so far (bound)
    readerPc,        \* where each reader is in search()
    snapshot,        \* segments and tombstones it copied under the lock
    called,          \* history: what was visible and deleted at the call
    result           \* what the search returned

writeVars == <<log, buffer, tombstones, segments, nextSegmentId,
               mergeInProgress, flushing>>
mergeVars == <<jobs, mergePc, mergeJob, merged>>
readVars == <<readerPc, snapshot, called, result>>
vars == <<writeVars, files, mergeVars, closing, failures, readVars>>

LockFree == flushing = None
Visible == DocsIn(segments)               \* documents a search can return

NoSnapshot == [segments |-> {}, tombstones |-> {}]
NothingSeen == [docs |-> {}, deleted |-> {}]

Init ==
    /\ log = InitLog
    /\ buffer = {}
    /\ tombstones = {}
    /\ segments = InitSegments
    /\ nextSegmentId = Cardinality(InitSegments)
    /\ mergeInProgress = FALSE
    /\ flushing = None
    /\ files = InitSegments
    /\ jobs = <<>>
    /\ mergePc = "idle"
    /\ mergeJob = NoJob
    /\ merged = None
    /\ closing = "open"
    /\ failures = 0
    /\ readerPc = [r \in Readers |-> "idle"]
    /\ snapshot = [r \in Readers |-> NoSnapshot]
    /\ called = [r \in Readers |-> NothingSeen]
    /\ result = [r \in Readers |-> {}]
-----------------------------------------------------------------------------
(* Merge policy and scheduling *)

\* Faulty form: the sort reversed.
LargerFirst(s, t) == Cardinality(s.docs) >= Cardinality(t.docs)

\* The order maybe_merge sorts by.
SmallerFirst(s, t) == Cardinality(s.docs) <= Cardinality(t.docs)

\* TieredMergePolicy.maybe_merge: the plans it may return for a segment list,
\* the min(merge_factor, n) smallest segments by document count.  The code
\* breaks ties by list order; here every choice among equals is a plan.
MergePlans(segs) ==
    LET n == Cardinality(segs)
        size == IF MergeFactor < n THEN MergeFactor ELSE n
    IN  IF n <= MaxSegments
        THEN {}
        ELSE {plan \in SUBSET segs :
                /\ Cardinality(plan) = size
                /\ \A p \in plan, s \in segs \ plan : SmallerFirst(p, s)}

\* The merge pool refuses work once its shutdown() has begun.
PoolOpen == closing = "open"

\* Faulty forms: no look at the flag; no chaining from _run_merge.
MayMergeAnyway(segs, busy) == MergePlans(segs) # {}
MayMergeUnchained(segs, busy) == ~busy /\ MergePlans(segs) # {} /\ mergePc # "built"

\* A merge is scheduled when none is in progress and the policy has a plan.
MayMerge(segs, busy) == ~busy /\ MergePlans(segs) # {}

\* _maybe_schedule_merge_locked, for the segment list segs and the flag value
\* busy.  It sets the flag and takes a segment id before submit(), which
\* raises RuntimeError when the pool is shut down: the flag and the id stay
\* taken and no job is queued.
ScheduleMerge(segs, busy) ==
    IF MayMerge(segs, busy)
    THEN /\ \E plan \in MergePlans(segs) :
               jobs' = IF PoolOpen
                       THEN Append(jobs, [plan |-> plan, id |-> nextSegmentId])
                       ELSE jobs
         /\ mergeInProgress' = TRUE
         /\ nextSegmentId' = nextSegmentId + 1
    ELSE mergeInProgress' = busy /\ UNCHANGED <<nextSegmentId, jobs>>

\* Faulty form: give up the rest of the job whenever another is scheduled.
ScheduleEndsJob(segs, busy) == MayMerge(segs, busy)

\* Whether that submit() raises.
ScheduleRaises(segs, busy) == MayMerge(segs, busy) /\ ~PoolOpen
-----------------------------------------------------------------------------
(* Writers *)

\* The first half of _flush_locked: take a segment id, write the buffered
\* documents to its TSV and start build_index, still holding the lock.
StartFlush(docs) ==
    LET segment == [id |-> nextSegmentId, docs |-> docs]
    IN  /\ flushing' = segment
        /\ files' = files \cup {segment}
        /\ nextSegmentId' = nextSegmentId + 1

\* add(): buffer the document; flush when the threshold is reached or when
\* flush_interval_s has passed since the last flush (due).
Add(id, due) ==
    /\ LockFree
    /\ Len(log) < MaxDocs
    /\ ReAdd \/ \A d \in DOMAIN log : log[d] # id
    /\ log' = Append(log, id)
    /\ buffer' = buffer \cup {Len(log) + 1}
    /\ IF Cardinality(buffer') >= FlushThreshold \/ due
       THEN StartFlush(buffer')
       ELSE UNCHANGED <<flushing, files, nextSegmentId>>
    /\ UNCHANGED <<tombstones, segments, mergeInProgress, mergeVars, closing,
                   failures, readVars>>

\* flush(): the same on request; with an empty buffer it returns at once.
Flush ==
    /\ LockFree
    /\ buffer # {}
    /\ StartFlush(buffer)
    /\ UNCHANGED <<log, buffer, tombstones, segments, mergeInProgress,
                   mergeVars, closing, failures, readVars>>

\* build_index succeeded: publish the segment, clear the buffer, schedule a
\* merge if the list is over budget, release the lock.
FlushSucceeds ==
    /\ ~LockFree
    /\ segments' = segments \cup {flushing}
    /\ buffer' = {}
    /\ ScheduleMerge(segments', mergeInProgress)
    /\ flushing' = None
    /\ UNCHANGED <<log, tombstones, files, mergePc, mergeJob, merged, closing,
                   failures, readVars>>

\* Faulty form: clear the buffer before the build has succeeded.
FlushFailsDropping ==
    /\ ~LockFree
    /\ failures < MaxFailures
    /\ failures' = failures + 1
    /\ buffer' = {}
    /\ flushing' = None
    /\ UNCHANGED <<log, tombstones, segments, nextSegmentId,
                   mergeInProgress, files, mergeVars, closing, readVars>>

\* build_index failed: the exception leaves the buffer as it was, so the
\* next flush retries the same documents under a new segment id.
FlushFails ==
    /\ ~LockFree
    /\ failures < MaxFailures
    /\ failures' = failures + 1
    /\ flushing' = None
    /\ UNCHANGED <<log, buffer, tombstones, segments, nextSegmentId,
                   mergeInProgress, files, mergeVars, closing, readVars>>

\* delete(): the external id is suppressed in every segment from now on.
Delete(id) ==
    /\ LockFree
    /\ tombstones' = tombstones \cup {id}
    /\ UNCHANGED <<log, buffer, segments, nextSegmentId, mergeInProgress,
                   flushing, files, mergeVars, closing, failures, readVars>>
-----------------------------------------------------------------------------
(* The merge thread: _run_merge *)

\* Faulty form: queued jobs are dropped when the pool shuts down.
MergeStartWhileOpen ==
    /\ PoolOpen
    /\ mergePc = "idle"
    /\ jobs # <<>>
    /\ mergeJob' = Head(jobs)
    /\ jobs' = Tail(jobs)
    /\ mergePc' = "reading"
    /\ UNCHANGED <<writeVars, files, merged, closing, failures, readVars>>

MergeStart ==
    /\ mergePc = "idle"
    /\ jobs # <<>>
    /\ mergeJob' = Head(jobs)
    /\ jobs' = Tail(jobs)
    /\ mergePc' = "reading"
    /\ UNCHANGED <<writeVars, files, merged, closing, failures, readVars>>

\* The job is over: _run_merge returns or raises and its locals are gone.
EndJob ==
    /\ mergePc' = "idle"
    /\ mergeJob' = NoJob
    /\ merged' = None

\* Faulty forms: file names compared with the wrong sign; the loop over the
\* plan stops one short.
SourcesUpTo(plan) == {f \in files : \E s \in plan : f.id <= s.id}
SourcesButOne(plan) ==
    {f \in files : \E s, t \in plan : f.id = s.id /\ s.id < t.id}

\* The TSVs of the plan that are on disk, found by name.
SourcesOf(plan) == {f \in files : \E s \in plan : f.id = s.id}
SourceMissing(plan) == \E s \in plan : \A f \in files : f.id # s.id

\* Concatenate the source TSVs of the plan into the TSV of the new segment;
\* a source that is not there raises FileNotFoundError.
MergeRead ==
    /\ mergePc = "reading"
    /\ IF SourceMissing(mergeJob.plan)
       THEN /\ mergePc' = "failed"
            /\ UNCHANGED <<files, merged>>
       ELSE /\ merged' = [id |-> mergeJob.id,
                          docs |-> DocsIn(SourcesOf(mergeJob.plan))]
            /\ files' = files \cup {merged'}
            /\ mergePc' = "building"
    /\ UNCHANGED <<writeVars, jobs, mergeJob, closing, failures, readVars>>

MergeBuilds ==
    /\ mergePc = "building"
    /\ mergePc' = "built"
    /\ UNCHANGED <<writeVars, files, jobs, mergeJob, merged, closing,
                   failures, readVars>>

MergeBuildFails ==
    /\ mergePc = "building"
    /\ failures < MaxFailures
    /\ failures' = failures + 1
    /\ mergePc' = "failed"
    /\ UNCHANGED <<writeVars, files, jobs, mergeJob, merged, closing, readVars>>

\* The failure handler: reset the flag under the lock and re-raise.
MergeFails ==
    /\ mergePc = "failed"
    /\ LockFree
    /\ mergeInProgress' = FALSE
    /\ EndJob
    /\ UNCHANGED <<log, buffer, tombstones, segments, nextSegmentId, flushing,
                   files, jobs, closing, failures, readVars>>

\* Swap the merged segment in under the lock and chain the next merge.  When
\* the chained submit() raises, the job ends there and deletes nothing.
MergeSwap ==
    /\ mergePc = "built"
    /\ LockFree
    /\ segments' = (segments \ mergeJob.plan) \cup {merged}
    /\ ScheduleMerge(segments', FALSE)
    /\ IF ScheduleRaises(segments', FALSE)
       THEN EndJob
       ELSE mergePc' = "deleting" /\ UNCHANGED <<mergeJob, merged>>
    /\ UNCHANGED <<log, buffer, tombstones, flushing, files, closing, failures,
                   readVars>>

\* Delete the files of the segments that were merged away.
MergeDelete ==
    /\ mergePc = "deleting"
    /\ files' = files \ SourcesOf(mergeJob.plan)
    /\ EndJob
    /\ UNCHANGED <<writeVars, jobs, closing, failures, readVars>>
-----------------------------------------------------------------------------
(* close() *)

\* _merge_pool.shutdown(wait=True): no new jobs from here on.
CloseStart ==
    /\ closing = "open"
    /\ closing' = "draining"
    /\ UNCHANGED <<writeVars, files, mergeVars, failures, readVars>>

\* It returns when the queued and the running job have ended; then the search
\* pool is shut down as well.
CloseEnd ==
    /\ closing = "draining"
    /\ jobs = <<>> /\ mergePc = "idle"
    /\ closing' = "closed"
    /\ UNCHANGED <<writeVars, files, mergeVars, failures, readVars>>
-----------------------------------------------------------------------------
(* Readers: search() *)

SearchCall(r) ==
    /\ readerPc[r] \in {"idle", "done", "raised"}
    /\ readerPc' = [readerPc EXCEPT ![r] = "waiting"]
    /\ called' = [called EXCEPT ![r] = [docs |-> Visible, deleted |-> tombstones]]
    /\ snapshot' = [snapshot EXCEPT ![r] = NoSnapshot]
    /\ result' = [result EXCEPT ![r] = {}]
    /\ UNCHANGED <<writeVars, files, mergeVars, closing, failures>>

\* Faulty form: copy the tombstones before waiting for the lock.
SearchSnapshotTorn(r) ==
    /\ readerPc[r] = "waiting"
    /\ LockFree
    /\ snapshot' = [snapshot EXCEPT ![r] =
                       [segments |-> segments, tombstones |-> called[r].deleted]]
    /\ readerPc' = [readerPc EXCEPT ![r] = "searching"]
    /\ UNCHANGED <<writeVars, files, mergeVars, closing, failures, called, result>>

SearchSnapshot(r) ==
    /\ readerPc[r] = "waiting"
    /\ LockFree
    /\ snapshot' = [snapshot EXCEPT ![r] =
                       [segments |-> segments, tombstones |-> tombstones]]
    /\ readerPc' = [readerPc EXCEPT ![r] = "searching"]
    /\ UNCHANGED <<writeVars, files, mergeVars, closing, failures, called, result>>

\* Fan the query out over the snapshot, outside the lock; the segments are
\* memory-mapped, so a merge deleting their files does not disturb it.  The
\* search pool refuses the fan-out once close() has shut it down.
SearchReturn(r) ==
    /\ readerPc[r] = "searching"
    /\ IF closing = "closed" /\ snapshot[r].segments # {}
       THEN /\ readerPc' = [readerPc EXCEPT ![r] = "raised"]
            /\ UNCHANGED result
       ELSE /\ readerPc' = [readerPc EXCEPT ![r] = "done"]
            /\ result' = [result EXCEPT ![r] =
                 SegmentSetSearch({s.docs : s \in snapshot[r].segments},
                                  snapshot[r].tombstones, log, K)]
    /\ UNCHANGED <<writeVars, files, mergeVars, closing, failures, snapshot, called>>
-----------------------------------------------------------------------------
Writer ==
    \/ \E id \in Ids, due \in BOOLEAN : Add(id, due)
    \/ Flush
    \/ FlushSucceeds
    \/ FlushFails
    \/ \E id \in Ids : Delete(id)

Merger ==
    \/ MergeStart
    \/ MergeRead
    \/ MergeBuilds
    \/ MergeBuildFails
    \/ MergeFails
    \/ MergeSwap
    \/ MergeDelete

Reader(r) == SearchCall(r) \/ SearchSnapshot(r) \/ SearchReturn(r)

Next ==
    \/ Writer
    \/ Merger
    \/ CloseStart
    \/ CloseEnd
    \/ \E r \in Readers : Reader(r)

Spec == Init /\ [][Next]_vars

\* A running build ends, the merge thread keeps running its jobs, close()
\* and a search that was called keep going.  Nobody has to add, flush,
\* delete, search or close.
Fairness ==
    /\ WF_vars(FlushSucceeds)
    /\ WF_vars(MergeStart) /\ WF_vars(MergeRead) /\ WF_vars(MergeBuilds)
    /\ WF_vars(MergeFails) /\ WF_vars(MergeSwap) /\ WF_vars(MergeDelete)
    /\ WF_vars(CloseEnd)
    /\ \A r \in Readers : WF_vars(SearchSnapshot(r)) /\ WF_vars(SearchReturn(r))

FairSpec == Spec /\ Fairness
-----------------------------------------------------------------------------
TypeOK ==
    /\ log \in Seq(Ids)
    /\ buffer \subseteq 1..Len(log)
    /\ tombstones \subseteq Ids
    /\ segments \subseteq Segment
    /\ nextSegmentId \in Nat
    /\ mergeInProgress \in BOOLEAN
    /\ flushing \in Segment
    /\ files \subseteq Segment
    /\ jobs \in Seq(Job)
    /\ mergePc \in {"idle", "reading", "building", "built", "failed", "deleting"}
    /\ mergeJob \in Job
    /\ merged \in Segment
    /\ closing \in {"open", "draining", "closed"}
    /\ failures \in 0..MaxFailures
    /\ readerPc \in [Readers -> {"idle", "waiting", "searching", "done", "raised"}]
    /\ snapshot \in [Readers -> [segments : SUBSET Segment, tombstones : SUBSET Ids]]
    /\ called \in [Readers -> [docs : SUBSET Nat, deleted : SUBSET Ids]]
    /\ result \in [Readers -> SUBSET Nat]
-----------------------------------------------------------------------------
(* Safety *)

\* Every document whose add() was accepted is in exactly one place, the buffer
\* or one live segment, whatever builds fail and whatever merges swap: nothing
\* is lost with a failed flush (index.py:94-98) and nothing is published twice
\* by a merge (index.py:157-160).
DocsConserved ==
    /\ Visible \cup buffer = 1..Len(log)
    /\ Visible \cap buffer = {}
    /\ \A s, t \in segments : s # t => s.id # t.id /\ s.docs \cap t.docs = {}

\* The source TSV of every live segment is on disk with the segment's own
\* documents: the deletions of one merge never reach a segment that a later
\* merge has to read (index.py:168-170 against 143).
LiveOnDisk ==
    \A s \in segments : s \in files /\ \A f \in files : f.id = s.id => f = s

\* A merge works on segments that are still live, so it finds all its sources:
\* the duplicate-plan crash _merge_in_progress was added for (index.py:107-111)
\* cannot come back through flush, chaining or the failure handler.
MergeSourcesLive ==
    mergePc \in {"reading", "building", "built"} =>
        mergeJob.plan \subseteq segments /\ ~SourceMissing(mergeJob.plan)

\* While the index is open the flag is set exactly when one merge is queued or
\* has not yet swapped or failed: it is never left set with no merge to reset
\* it, which would disable merging (index.py:134-139), and there are never two.
FlagTracksMerge ==
    LET running == IF mergePc \in {"reading", "building", "built", "failed"}
                   THEN 1 ELSE 0
        pending == Len(jobs) + running
    IN  closing = "open" => pending = IF mergeInProgress THEN 1 ELSE 0

\* As long as no build has failed, an open index over its segment budget is
\* already working on it: chaining in _run_merge (index.py:162-166) leaves no
\* moment where only a further flush would start the next merge.
OverBudgetIsMerging ==
    closing = "open" /\ failures = 0 /\ Cardinality(segments) > MaxSegments
        => mergeInProgress

\* While nothing fails and the index stays open, the merge thread at rest
\* leaves on disk the live segments and the one being flushed, nothing else
\* (index.py:168-170).
NoOrphanFiles ==
    closing = "open" /\ failures = 0 /\ mergePc = "idle"
        => files = segments \cup (IF LockFree THEN {} ELSE {flushing})

\* After close() has returned no merge is queued or running, even when writers
\* go on calling (index.py:184-186): nobody deletes files behind the caller.
ClosedIsQuiet == closing = "closed" => jobs = <<>> /\ mergePc = "idle"

\* A finished search never returns a document deleted before it was called,
\* whichever segment the document has moved to since (index.py:79-84, 175-177).
NoDeletedHits ==
    \A r \in Readers : readerPc[r] = "done" =>
        \A d \in result[r] : log[d] \notin called[r].deleted

\* A document that was searchable when search() was called, matches and is not
\* deleted even now can only be missing from the answer because K better ones
\* are in it: not because a merge moved it meanwhile (index.py:175-182), nor
\* because tombstones used up the hits of its segment (segment.py:76, 93-97).
SearchComplete ==
    \A r \in Readers : readerPc[r] = "done" =>
        \A d \in called[r].docs \ result[r] :
            Score[d] > 0 /\ log[d] \notin tombstones =>
                /\ Cardinality(result[r]) = K
                /\ \A e \in result[r] : Score[e] > Score[d]

\* The initial segments are never merged, so their files, which the lag
\* experiment shares between runs, are never deleted (lag_experiment.py:206).
InitSegmentsKept == InitSegments \subseteq segments /\ InitSegments \subseteq files
-----------------------------------------------------------------------------
(* What no step may do *)

\* No step takes a document away from searches: a merge swaps its result in
\* at once (index.py:159-160).
VisibleGrows == [][Visible \subseteq Visible']_vars
-----------------------------------------------------------------------------
(* Liveness *)

WithinBudget == Cardinality(segments) <= MaxSegments

\* As long as no build fails, an open index over its segment budget gets back
\* within it on its own, with no further write: merges are chained until it is
\* (index.py:113-117, 162-166).
Converges == []<>(WithinBudget \/ closing # "open" \/ failures > 0)

\* close() returns, whatever merges were queued or running (index.py:184-187).
CloseReturns == closing = "draining" ~> closing = "closed"
-----------------------------------------------------------------------------
(* The promise made to callers *)

\* What a search has taken from the index once it copied its snapshot.
StoreView == [r \in Readers |->
    IF readerPc[r] \in {"searching", "done", "raised"}
    THEN [docs |-> DocsIn(snapshot[r].segments), deleted |-> snapshot[r].tombstones]
    ELSE NothingSeen]

Store == INSTANCE NrtStore WITH
    pending <- buffer,
    visible <- Visible,
    deleted <- tombstones,
    asking <- {r \in Readers : readerPc[r] = "waiting"},
    view <- StoreView

\* The index implements the store of NrtStore: to its callers a flush is one
\* atomic publication, a merge is invisible, and every search reads one cut of
\* visible and deleted documents between its call and its return.
ImplementsStore == Store!Spec
=============================================================================
