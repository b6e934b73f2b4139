--------------------------- MODULE NrtIndexProofs ---------------------------
(***************************************************************************)
(* Proofs about NrtIndex, for every value of its constants.                *)
(***************************************************************************)
EXTENDS NrtIndex, FiniteSetTheorems, WellFoundedInduction, TLAPS

(***************************************************************************)
(* Facts about the operators.                                              *)
(***************************************************************************)

\* A top-k list (searcher results, segment.py:96-97) holds members of the list
\* it was taken from.
LEMMA TopKSubset ==
    ASSUME NEW S, NEW k
    PROVE  TopK(S, k) \subseteq S
BY DEF TopK

\* A fan-out (segment.py:71-97) returns documents of the segments it queried
\* and none whose external id is tombstoned.
LEMMA SearchWithin ==
    ASSUME NEW segs, NEW T, NEW ext, NEW k
    PROVE  \A d \in SegmentSetSearch(segs, T, ext, k) :
               d \in UNION segs /\ ext[d] \notin T
<1>1. SegmentSetSearch(segs, T, ext, k) \subseteq
        {d \in UNION {TopK(s, OverFetch(k, T)) : s \in segs} : ext[d] \notin T}
  BY TopKSubset DEF SegmentSetSearch, MergeHits
<1>2. \A s \in segs : TopK(s, OverFetch(k, T)) \subseteq s
  BY TopKSubset
<1> QED BY <1>1, <1>2

\* A buffer over the documents added so far, extended by the next document,
\* is a buffer over the documents added then (index.py:66).
LEMMA ExtendRange ==
    ASSUME NEW n \in Nat, NEW S, S \subseteq 1..n, NEW m, m = n + 1,
           NEW T, T = S \cup {n + 1}
    PROVE  T \subseteq 1..m /\ T \subseteq Nat
OBVIOUS

\* A merge plan (merge_policy.py:17-21) is a set of live segments.
LEMMA PlanWithin ==
    ASSUME NEW segs, NEW plan \in MergePlans(segs)
    PROVE  plan \subseteq segs
BY DEF MergePlans

\* Scheduling a merge for well-typed segments leaves a flag, an id and a queue
\* of the right types (index.py:103-126).
LEMMA ScheduleType ==
    ASSUME TypeOK, NEW segs, segs \subseteq Segment, NEW busy \in BOOLEAN,
           ScheduleMerge(segs, busy)
    PROVE  /\ mergeInProgress' \in BOOLEAN
           /\ nextSegmentId' \in Nat
           /\ jobs' \in Seq(Job)
<1>1. CASE ~MayMerge(segs, busy)
  BY <1>1 DEF ScheduleMerge, TypeOK
<1>2. ASSUME NEW plan \in MergePlans(segs),
             jobs' = IF PoolOpen
                     THEN Append(jobs, [plan |-> plan, id |-> nextSegmentId])
                     ELSE jobs,
             mergeInProgress' = TRUE,
             nextSegmentId' = nextSegmentId + 1
      PROVE  /\ mergeInProgress' \in BOOLEAN
             /\ nextSegmentId' \in Nat
             /\ jobs' \in Seq(Job)
  <2>1. [plan |-> plan, id |-> nextSegmentId] \in Job
    BY PlanWithin DEF TypeOK, Job
  <2> QED BY <1>2, <2>1 DEF TypeOK
<1> QED BY <1>1, <1>2 DEF ScheduleMerge
-----------------------------------------------------------------------------
(* Type correctness *)

\* Every state of the index has the types of TypeOK (index.py:27-57).
LEMMA InitType == Init => TypeOK
<1>1. Cardinality(InitSegments) \in Nat
  BY InitSegmentsAssumption, FS_CardinalityType
<1>2. None \in Segment /\ NoJob \in Job
  BY DEF None, NoJob, Segment, Job
<1> SUFFICES ASSUME Init PROVE TypeOK
  OBVIOUS
<1>3. /\ log \in Seq(Ids) /\ buffer \subseteq 1..Len(log) /\ tombstones \subseteq Ids
      /\ segments \subseteq Segment /\ nextSegmentId \in Nat
      /\ mergeInProgress \in BOOLEAN /\ flushing \in Segment
      /\ files \subseteq Segment
  BY <1>1, <1>2, ConstantsAssumption, InitSegmentsAssumption DEF Init
<1>4. /\ jobs \in Seq(Job) /\ mergeJob \in Job /\ merged \in Segment
      /\ failures \in 0..MaxFailures
  BY <1>2, ConstantsAssumption DEF Init
<1>5. /\ snapshot \in [Readers -> [segments : SUBSET Segment, tombstones : SUBSET Ids]]
      /\ called \in [Readers -> [docs : SUBSET Nat, deleted : SUBSET Ids]]
      /\ result \in [Readers -> SUBSET Nat]
      /\ readerPc \in [Readers -> {"idle", "waiting", "searching", "done", "raised"}]
  BY DEF Init, NoSnapshot, NothingSeen
<1> QED BY <1>3, <1>4, <1>5 DEF Init, TypeOK

LEMMA WriterType == TypeOK /\ Writer => TypeOK'
<1> SUFFICES ASSUME TypeOK, Writer PROVE TypeOK'
  OBVIOUS
<1> USE DEF mergeVars, readVars
<1>0. ASSUME NEW docs \in SUBSET Nat
      PROVE  [id |-> nextSegmentId, docs |-> docs] \in Segment
  BY DEF TypeOK, Segment
<1>1. ASSUME NEW id \in Ids, NEW due \in BOOLEAN, Add(id, due) PROVE TypeOK'
  <2>1. log' \in Seq(Ids) /\ Len(log') = Len(log) + 1 /\ Len(log) \in Nat
    BY <1>1 DEF Add, TypeOK
  <2>2. buffer' \subseteq 1..Len(log') /\ buffer' \subseteq Nat
    <3>1. buffer \subseteq 1..Len(log) /\ buffer' = buffer \cup {Len(log) + 1}
      BY <1>1 DEF Add, TypeOK
    <3> QED BY <2>1, <3>1, ExtendRange
  <2>3. flushing' \in Segment /\ files' \subseteq Segment /\ nextSegmentId' \in Nat
    <3>1. CASE StartFlush(buffer')
      <4>1. [id |-> nextSegmentId, docs |-> buffer'] \in Segment
        BY <1>0, <2>2
      <4> QED BY <3>1, <4>1 DEF StartFlush, TypeOK
    <3>2. CASE UNCHANGED <<flushing, files, nextSegmentId>>
      BY <3>2 DEF TypeOK
    <3> QED BY <1>1, <3>1, <3>2 DEF Add
  <2> QED BY <1>1, <2>1, <2>2, <2>3 DEF Add, TypeOK
<1>2. ASSUME Flush PROVE TypeOK'
  <2>1. buffer \subseteq Nat
    BY DEF TypeOK
  <2> QED BY <1>2, <1>0, <2>1 DEF Flush, StartFlush, TypeOK
<1>3. ASSUME FlushSucceeds PROVE TypeOK'
  <2>1. segments' \subseteq Segment
    BY <1>3 DEF FlushSucceeds, TypeOK
  <2>2. ScheduleMerge(segments', mergeInProgress)
    BY <1>3 DEF FlushSucceeds
  <2>3. /\ mergeInProgress' \in BOOLEAN
        /\ nextSegmentId' \in Nat
        /\ jobs' \in Seq(Job)
    <3>1. mergeInProgress \in BOOLEAN
      BY DEF TypeOK
    <3> HIDE DEF mergeVars, readVars
    <3> QED BY <2>1, <2>2, <3>1, ScheduleType
  <2>4. None \in Segment
    BY DEF None, Segment
  <2> QED BY <1>3, <2>1, <2>3, <2>4 DEF FlushSucceeds, TypeOK
<1>4. ASSUME FlushFails PROVE TypeOK'
  <2>1. None \in Segment
    BY DEF None, Segment
  <2> QED BY <1>4, <2>1, ConstantsAssumption DEF FlushFails, TypeOK
<1>5. ASSUME NEW id \in Ids, Delete(id) PROVE TypeOK'
  BY <1>5 DEF Delete, TypeOK
<1> QED BY <1>1, <1>2, <1>3, <1>4, <1>5 DEF Writer

LEMMA MergerType == TypeOK /\ Merger => TypeOK'
<1> SUFFICES ASSUME TypeOK, Merger PROVE TypeOK'
  OBVIOUS
<1> USE DEF writeVars, readVars
<1>0. None \in Segment /\ NoJob \in Job
  BY DEF None, NoJob, Segment, Job
<1>1. ASSUME MergeStart PROVE TypeOK'
  <2>1. Head(jobs) \in Job /\ Tail(jobs) \in Seq(Job)
    BY <1>1 DEF MergeStart, TypeOK
  <2> QED BY <1>1, <2>1 DEF MergeStart, TypeOK
<1>2. ASSUME MergeRead PROVE TypeOK'
  <2>1. [id |-> mergeJob.id, docs |-> DocsIn(SourcesOf(mergeJob.plan))] \in Segment
    BY DEF TypeOK, Job, Segment, SourcesOf, DocsIn
  <2> QED BY <1>2, <2>1 DEF MergeRead, TypeOK
<1>3. ASSUME MergeBuilds PROVE TypeOK'
  BY <1>3 DEF MergeBuilds, TypeOK
<1>4. ASSUME MergeBuildFails PROVE TypeOK'
  BY <1>4, ConstantsAssumption DEF MergeBuildFails, TypeOK
<1>5. ASSUME MergeFails PROVE TypeOK'
  BY <1>5, <1>0 DEF MergeFails, EndJob, TypeOK
<1>6. ASSUME MergeSwap PROVE TypeOK'
  <2>1. segments' \subseteq Segment
    BY <1>6 DEF MergeSwap, TypeOK
  <2>2. ScheduleMerge(segments', FALSE)
    BY <1>6 DEF MergeSwap
  <2>3. /\ mergeInProgress' \in BOOLEAN
        /\ nextSegmentId' \in Nat
        /\ jobs' \in Seq(Job)
    <3> HIDE DEF writeVars, readVars
    <3> QED BY <2>1, <2>2, ScheduleType
  <2> QED BY <1>6, <1>0, <2>1, <2>3 DEF MergeSwap, EndJob, TypeOK
<1>7. ASSUME MergeDelete PROVE TypeOK'
  BY <1>7, <1>0 DEF MergeDelete, EndJob, TypeOK
<1> QED BY <1>1, <1>2, <1>3, <1>4, <1>5, <1>6, <1>7 DEF Merger

LEMMA ReaderType ==
    ASSUME TypeOK, NEW r \in Readers, Reader(r)
    PROVE  TypeOK'
<1> USE DEF writeVars, mergeVars
<1>1. ASSUME SearchCall(r) PROVE TypeOK'
  <2>1. [docs |-> Visible, deleted |-> tombstones]
          \in [docs : SUBSET Nat, deleted : SUBSET Ids]
    BY DEF TypeOK, Visible, DocsIn, Segment
  <2>2. NoSnapshot \in [segments : SUBSET Segment, tombstones : SUBSET Ids]
    BY DEF NoSnapshot
  <2> QED BY <1>1, <2>1, <2>2 DEF SearchCall, TypeOK
<1>2. ASSUME SearchSnapshot(r) PROVE TypeOK'
  <2>1. [segments |-> segments, tombstones |-> tombstones]
          \in [segments : SUBSET Segment, tombstones : SUBSET Ids]
    BY DEF TypeOK
  <2> QED BY <1>2, <2>1 DEF SearchSnapshot, TypeOK
<1>3. ASSUME SearchReturn(r) PROVE TypeOK'
  <2> DEFINE found == SegmentSetSearch({s.docs : s \in snapshot[r].segments},
                                       snapshot[r].tombstones, log, K)
  <2>1. found \subseteq UNION {s.docs : s \in snapshot[r].segments}
    BY SearchWithin
  <2>2. UNION {s.docs : s \in snapshot[r].segments} \subseteq Nat
    BY DEF TypeOK, Segment
  <2>3. found \subseteq Nat
    BY <2>1, <2>2
  <2> HIDE DEF found
  <2>4. /\ readerPc' \in [Readers -> {"idle", "waiting", "searching", "done", "raised"}]
        /\ result' \in [Readers -> SUBSET Nat]
    BY <1>3, <2>3 DEF SearchReturn, TypeOK, found
  <2> QED BY <1>3, <2>4 DEF SearchReturn, TypeOK
<1> QED BY <1>1, <1>2, <1>3 DEF Reader

\* TypeOK is inductive.
LEMMA NextType == TypeOK /\ [Next]_vars => TypeOK'
<1> SUFFICES ASSUME TypeOK, [Next]_vars PROVE TypeOK'
  OBVIOUS
<1>1. CASE Writer
  BY <1>1, WriterType
<1>2. CASE Merger
  BY <1>2, MergerType
<1>3. CASE CloseStart
  BY <1>3 DEF CloseStart, TypeOK, writeVars, mergeVars, readVars
<1>4. CASE CloseEnd
  BY <1>4 DEF CloseEnd, TypeOK, writeVars, mergeVars, readVars
<1>5. ASSUME NEW r \in Readers, Reader(r) PROVE TypeOK'
  BY <1>5, ReaderType
<1>6. CASE UNCHANGED vars
  BY <1>6 DEF TypeOK, vars, writeVars, mergeVars, readVars
<1> QED BY <1>1, <1>2, <1>3, <1>4, <1>5, <1>6 DEF Next

\* Every state the index reaches has the types of TypeOK (index.py:27-57).
THEOREM TypeCorrect == Spec => []TypeOK
<1>1. Init => TypeOK
  BY InitType
<1>2. TypeOK /\ [Next]_vars => TypeOK'
  BY NextType
<1> QED BY <1>1, <1>2, PTL DEF Spec
-----------------------------------------------------------------------------
(* The inductive invariant *)

\* Every live segment is on disk; file names are unique and below the counter.
FilesInv ==
    /\ segments \subseteq files
    /\ \A f, g \in files : f.id = g.id => f = g
    /\ \A f \in files : f.id < nextSegmentId

\* The segment being flushed holds the buffer and is not live yet.
FlushInv == flushing # None =>
    /\ flushing \in files
    /\ flushing.docs = buffer
    /\ \A s \in segments : s.id # flushing.id

\* A job waiting to be run: its sources are live, its own name is unused.
JobReady(job) ==
    /\ job.plan \subseteq segments
    /\ job.id < nextSegmentId
    /\ \A f \in files : f.id # job.id

Running == mergePc \in {"reading", "building", "built", "failed"}

\* At most one job is queued, and only when none is running; the flag is set
\* for a queued or running job, and while the index is open only for one.
QueueInv ==
    /\ jobs = <<>> \/ (Len(jobs) = 1 /\ mergeInProgress /\ ~Running /\ JobReady(jobs[1]))
    /\ Running => mergeInProgress
    /\ closing = "open" /\ mergeInProgress => jobs # <<>> \/ Running
    /\ closing = "closed" => jobs = <<>> /\ mergePc = "idle"

\* What the merge thread holds at each point of _run_merge.
MergeInv ==
    /\ mergePc = "reading" => JobReady(mergeJob)
    /\ mergePc \in {"building", "built"} =>
          /\ mergeJob.plan \subseteq segments
          /\ merged \in files
          /\ merged.docs = DocsIn(mergeJob.plan)
          /\ \A s \in segments : s.id # merged.id
          /\ flushing # None => flushing.id # merged.id
    /\ mergePc = "deleting" => \A s \in mergeJob.plan :
          /\ s.id < nextSegmentId
          /\ \A t \in segments : t.id # s.id
          /\ flushing # None => flushing.id # s.id

IInv ==
    /\ TypeOK
    /\ DocsConserved
    /\ FilesInv
    /\ FlushInv
    /\ QueueInv
    /\ MergeInv

\* The conjuncts of IInv other than TypeOK, which NextType preserves.
Core == DocsConserved /\ FilesInv /\ FlushInv /\ QueueInv /\ MergeInv

\* What scheduling does to the flag, the id counter and the queue: nothing, or
\* it takes the next id for a plan of live segments and sets the flag, queueing
\* the job unless the pool is shut down (index.py:118-126).
LEMMA ScheduleEffect ==
    ASSUME NEW segs, NEW busy \in BOOLEAN, ScheduleMerge(segs, busy)
    PROVE  \/ mergeInProgress' = busy /\ UNCHANGED <<nextSegmentId, jobs>>
           \/ /\ ~busy /\ mergeInProgress'
              /\ nextSegmentId' = nextSegmentId + 1
              /\ \/ jobs' = jobs /\ closing # "open"
                 \/ /\ closing = "open"
                    /\ \E job : /\ jobs' = Append(jobs, job)
                               /\ job.plan \subseteq segs /\ job.id = nextSegmentId
<1>1. CASE ~MayMerge(segs, busy)
  BY <1>1 DEF ScheduleMerge
<1>2. ASSUME mergeInProgress' = TRUE, nextSegmentId' = nextSegmentId + 1,
             NEW plan \in MergePlans(segs),
             jobs' = IF PoolOpen
                     THEN Append(jobs, [plan |-> plan, id |-> nextSegmentId])
                     ELSE jobs
      PROVE  \/ jobs' = jobs /\ closing # "open"
             \/ /\ closing = "open"
                /\ \E job : /\ jobs' = Append(jobs, job)
                           /\ job.plan \subseteq segs /\ job.id = nextSegmentId
  <2> DEFINE job == [plan |-> plan, id |-> nextSegmentId]
  <2>1. job.plan \subseteq segs /\ job.id = nextSegmentId
    BY PlanWithin
  <2> HIDE DEF job
  <2>2. \/ jobs' = jobs /\ closing # "open"
        \/ jobs' = Append(jobs, job) /\ closing = "open"
    BY <1>2 DEF PoolOpen, job
  <2> QED BY <2>1, <2>2
<1> QED BY <1>1, <1>2 DEF ScheduleMerge, MayMerge

LEMMA InitInv == Init => IInv
<1> SUFFICES ASSUME Init PROVE IInv
  OBVIOUS
<1>1. TypeOK
  BY InitType
<1>2. DocsConserved
  BY InitSegmentsAssumption DEF Init, DocsConserved, Visible
<1>3. FilesInv
  BY InitSegmentsAssumption DEF Init, FilesInv
<1>4. FlushInv /\ QueueInv /\ MergeInv
  BY DEF Init, FlushInv, QueueInv, MergeInv, Running
<1> QED BY <1>1, <1>2, <1>3, <1>4 DEF IInv

\* Steps that leave the buffer, the segments, the files and the merge thread
\* alone and at most move close() forward keep the invariant: deletes,
\* searches and both steps of close().
LEMMA QuietStep ==
    ASSUME IInv, UNCHANGED <<log, buffer, segments, nextSegmentId, mergeInProgress,
                             flushing, files, mergeVars>>,
           \/ closing' = closing
           \/ closing' = "draining"
           \/ closing' = "closed" /\ jobs = <<>> /\ mergePc = "idle"
    PROVE  Core'
<1>1. DocsConserved' /\ FilesInv' /\ FlushInv'
  BY DEF IInv, DocsConserved, FilesInv, FlushInv, Visible
<1>2. QueueInv'
  BY DEF IInv, QueueInv, JobReady, Running, mergeVars
<1>3. MergeInv'
  BY DEF IInv, MergeInv, JobReady, mergeVars
<1> QED BY <1>1, <1>2, <1>3 DEF Core

\* Starting to flush the documents docs, an extension of the buffer that
\* becomes the buffer, keeps all but the accounting of documents.
LEMMA StartFlushInv ==
    ASSUME IInv, LockFree, NEW docs, StartFlush(docs), buffer' = docs,
           UNCHANGED <<segments, mergeInProgress, mergeVars, closing>>
    PROVE  FilesInv' /\ FlushInv' /\ QueueInv' /\ MergeInv'
<1> DEFINE new == [id |-> nextSegmentId, docs |-> docs]
<1>1. /\ flushing' = new /\ files' = files \cup {new}
      /\ nextSegmentId' = nextSegmentId + 1 /\ nextSegmentId \in Nat
  BY DEF StartFlush, IInv, TypeOK
<1>2. new.id = nextSegmentId /\ new.docs = docs
  OBVIOUS
<1> HIDE DEF new
<1>3. \A f \in files : f.id \in Nat /\ f.id < nextSegmentId
  BY DEF IInv, FilesInv, TypeOK, Segment
<1>4. FilesInv'
  <2>1. segments' \subseteq files'
    BY <1>1 DEF IInv, FilesInv
  <2>2. \A f, g \in files' : f.id = g.id => f = g
    BY <1>1, <1>2, <1>3 DEF IInv, FilesInv
  <2>3. \A f \in files' : f.id < nextSegmentId'
    BY <1>1, <1>2, <1>3
  <2> QED BY <2>1, <2>2, <2>3 DEF FilesInv
<1>5. \A s \in segments : s.id # new.id
  BY <1>2, <1>3 DEF IInv, FilesInv
<1>6. FlushInv'
  BY <1>1, <1>2, <1>5 DEF FlushInv
<1>7. ASSUME NEW job, JobReady(job), job.id \in Nat
      PROVE  job.plan \subseteq segments' /\ job.id < nextSegmentId'
             /\ \A f \in files' : f.id # job.id
  <2>1. job.plan \subseteq segments /\ job.id < nextSegmentId /\ \A f \in files : f.id # job.id
    BY <1>7 DEF JobReady
  <2>2. job.id < nextSegmentId' /\ new.id # job.id
    BY <1>1, <1>2, <1>7, <2>1
  <2> QED BY <1>1, <2>1, <2>2
<1>8. jobs # <<>> /\ Len(jobs) = 1 => jobs[1].id \in Nat
  <2>1. jobs \in Seq(Job)
    BY DEF IInv, TypeOK
  <2>2. Len(jobs) = 1 => jobs[1] \in Job
    BY <2>1
  <2> QED BY <2>2 DEF Job
<1>9. mergeJob.id \in Nat
  BY DEF IInv, TypeOK, Job
<1>10. QueueInv'
  <2>1. jobs = <<>> \/ (Len(jobs) = 1 /\ mergeInProgress /\ ~Running /\ JobReady(jobs[1]))
    BY DEF IInv, QueueInv
  <2>2. jobs' = jobs /\ (Running' <=> Running)
    BY DEF mergeVars, Running
  <2>3. (jobs = <<>> \/ (Len(jobs) = 1 /\ mergeInProgress /\ ~Running /\ JobReady(jobs[1])))'
    BY <1>7, <1>8, <2>1, <2>2 DEF JobReady
  <2> QED BY <2>2, <2>3 DEF IInv, QueueInv, mergeVars
<1>11. MergeInv'
  <2>1. mergePc = "reading" => JobReady(mergeJob)'
    BY <1>7, <1>9 DEF IInv, MergeInv, JobReady, mergeVars
  <2>2. mergePc \in {"building", "built"} => flushing'.id # merged.id
    BY <1>1, <1>2, <1>3 DEF IInv, MergeInv
  <2>3. mergePc = "deleting" => \A s \in mergeJob.plan :
           s.id < nextSegmentId' /\ flushing'.id # s.id
    <3>1. mergeJob.plan \subseteq Segment
      BY DEF IInv, TypeOK, Job
    <3>2. \A s \in mergeJob.plan : s.id \in Nat
      BY <3>1 DEF Segment
    <3> QED BY <1>1, <1>2, <3>2 DEF IInv, MergeInv
  <2> QED BY <1>1, <2>1, <2>2, <2>3 DEF IInv, MergeInv, mergeVars
<1> QED BY <1>4, <1>6, <1>10, <1>11

LEMMA AddInv ==
    ASSUME IInv, NEW id \in Ids, NEW due \in BOOLEAN, Add(id, due)
    PROVE  Core'
<1>1. /\ buffer' = buffer \cup {Len(log) + 1}
      /\ UNCHANGED <<segments, mergeInProgress, mergeVars, closing>>
      /\ LockFree
  BY DEF Add
<1>2. Len(log) \in Nat /\ Len(log') = Len(log) + 1
  BY DEF Add, IInv, TypeOK
<1>3. DocsConserved'
  <2>1. Visible \cup buffer = 1..Len(log) /\ Visible \cap buffer = {}
    BY DEF IInv, DocsConserved
  <2>2. ASSUME NEW n \in Nat, NEW V, NEW B, V \cup B = 1..n, V \cap B = {}, NEW m, m = n + 1
        PROVE  V \cup (B \cup {n + 1}) = 1..m /\ V \cap (B \cup {n + 1}) = {}
    <3>1. 1..m = 1..n \cup {n + 1} /\ n + 1 \notin 1..n
      BY <2>2
    <3> QED BY <2>2, <3>1
  <2>3. Visible' = Visible
    BY <1>1 DEF Visible
  <2>4. Visible \cup (buffer \cup {Len(log) + 1}) = 1..Len(log')
        /\ Visible \cap (buffer \cup {Len(log) + 1}) = {}
    BY <1>2, <2>1, <2>2
  <2> QED BY <1>1, <2>3, <2>4 DEF IInv, DocsConserved
<1>4. FilesInv' /\ FlushInv' /\ QueueInv' /\ MergeInv'
  <2>1. CASE StartFlush(buffer')
    BY <1>1, <2>1, StartFlushInv
  <2>2. CASE UNCHANGED <<flushing, files, nextSegmentId>>
    <3>1. FilesInv' /\ FlushInv'
      BY <1>1, <2>2 DEF IInv, FilesInv, FlushInv, LockFree
    <3>2. QueueInv' /\ MergeInv'
      BY <1>1, <2>2 DEF IInv, QueueInv, MergeInv, JobReady, Running, mergeVars
    <3> QED BY <3>1, <3>2
  <2> QED BY <2>1, <2>2 DEF Add
<1> QED BY <1>3, <1>4 DEF Core

LEMMA FlushStartInv == ASSUME IInv, Flush PROVE Core'
<1>1. /\ LockFree /\ StartFlush(buffer) /\ buffer' = buffer
      /\ UNCHANGED <<log, segments, mergeInProgress, mergeVars, closing>>
  BY DEF Flush
<1>2. DocsConserved'
  BY <1>1 DEF IInv, DocsConserved, Visible
<1>3. FilesInv' /\ FlushInv' /\ QueueInv' /\ MergeInv'
  BY <1>1, StartFlushInv
<1> QED BY <1>2, <1>3 DEF Core

LEMMA FlushFailsInv == ASSUME IInv, FlushFails PROVE Core'
<1>1. flushing' = None
      /\ UNCHANGED <<log, buffer, segments, nextSegmentId, mergeInProgress, files,
                     mergeVars, closing>>
  BY DEF FlushFails
<1>2. DocsConserved' /\ FilesInv' /\ FlushInv'
  BY <1>1 DEF IInv, DocsConserved, Visible, FilesInv, FlushInv
<1>3. QueueInv' /\ MergeInv'
  BY <1>1 DEF IInv, QueueInv, MergeInv, JobReady, Running, mergeVars
<1> QED BY <1>2, <1>3 DEF Core

LEMMA FlushSucceedsInv == ASSUME IInv, FlushSucceeds PROVE Core'
<1>1. /\ flushing # None /\ flushing' = None
      /\ segments' = segments \cup {flushing} /\ buffer' = {}
      /\ UNCHANGED <<log, files, mergePc, mergeJob, merged, closing>>
  BY DEF FlushSucceeds, LockFree
<1>2. /\ flushing \in files /\ flushing.docs = buffer
      /\ \A s \in segments : s.id # flushing.id
  BY <1>1 DEF IInv, FlushInv
<1>3. DocsConserved'
  <2>1. Visible' = Visible \cup buffer
    BY <1>1, <1>2 DEF Visible, DocsIn
  <2>2. \A s \in segments : s.docs \subseteq Visible
    BY DEF Visible, DocsIn
  <2>3. Visible \cap buffer = {} /\ Visible \cup buffer = 1..Len(log)
    BY DEF IInv, DocsConserved
  <2>4. \A s \in segments : s.docs \cap flushing.docs = {}
    BY <1>2, <2>2, <2>3
  <2>5. \A s, t \in segments' : s # t => s.id # t.id /\ s.docs \cap t.docs = {}
    BY <1>1, <1>2, <2>4 DEF IInv, DocsConserved
  <2> QED BY <1>1, <2>1, <2>3, <2>5 DEF DocsConserved
<1>4. /\ nextSegmentId \in Nat /\ nextSegmentId' \in Nat
      /\ nextSegmentId <= nextSegmentId'
      /\ mergeInProgress => mergeInProgress' /\ UNCHANGED <<nextSegmentId, jobs>>
      /\ ~mergeInProgress' => UNCHANGED jobs
  <2>1. ScheduleMerge(segments', mergeInProgress) /\ mergeInProgress \in BOOLEAN
        /\ nextSegmentId \in Nat
    BY DEF FlushSucceeds, IInv, TypeOK
  <2> QED BY <2>1, ScheduleEffect
<1>5. \A f \in files : f.id \in Nat /\ f.id < nextSegmentId
  BY DEF IInv, FilesInv, TypeOK, Segment
<1>6. FilesInv'
  BY <1>1, <1>2, <1>4, <1>5 DEF IInv, FilesInv
<1>7. FlushInv'
  BY <1>1 DEF FlushInv
<1>8. QueueInv'
  <2>1. CASE mergeInProgress
    <3>1. UNCHANGED <<nextSegmentId, jobs>> /\ mergeInProgress'
      BY <1>4, <2>1
    <3> QED BY <1>1, <2>1, <3>1 DEF IInv, QueueInv, JobReady, Running
  <2>2. CASE ~mergeInProgress
    <3>1. jobs = <<>> /\ ~Running
      BY <2>2 DEF IInv, QueueInv
    <3>2. ScheduleMerge(segments', FALSE)
      BY <2>2 DEF FlushSucceeds, IInv, TypeOK
    <3>3. CASE mergeInProgress' = FALSE /\ UNCHANGED <<nextSegmentId, jobs>>
      BY <1>1, <3>1, <3>3 DEF IInv, QueueInv, JobReady, Running
    <3>4. CASE jobs' = jobs /\ closing # "open" /\ mergeInProgress'
      BY <1>1, <3>1, <3>4 DEF IInv, QueueInv, JobReady, Running
    <3>5. ASSUME NEW job, jobs' = Append(jobs, job), job.plan \subseteq segments',
                 job.id = nextSegmentId, nextSegmentId' = nextSegmentId + 1,
                 mergeInProgress', closing = "open"
          PROVE  QueueInv'
      <4>1. jobs' = <<job>> /\ Len(jobs') = 1 /\ jobs'[1] = job
        BY <3>1, <3>5
      <4>2. job.id < nextSegmentId' /\ \A f \in files : f.id # job.id
        BY <1>4, <1>5, <3>5
      <4> QED BY <1>1, <3>1, <3>5, <4>1, <4>2 DEF QueueInv, JobReady, Running
    <3>6. \/ mergeInProgress' = FALSE /\ UNCHANGED <<nextSegmentId, jobs>>
          \/ /\ mergeInProgress'
             /\ nextSegmentId' = nextSegmentId + 1
             /\ \/ jobs' = jobs /\ closing # "open"
                \/ /\ closing = "open"
                   /\ \E job : /\ jobs' = Append(jobs, job)
                              /\ job.plan \subseteq segments' /\ job.id = nextSegmentId
      BY <3>2, ScheduleEffect
    <3> QED BY <3>3, <3>4, <3>5, <3>6, Zenon
  <2> QED BY <2>1, <2>2
<1>9. MergeInv'
  <2>1. CASE mergePc = "reading"
    <3>1. mergeInProgress
      BY <2>1 DEF IInv, QueueInv, Running
    <3> QED BY <1>1, <1>4, <2>1, <3>1 DEF IInv, MergeInv, JobReady
  <2>2. CASE mergePc \in {"building", "built"}
    BY <1>1, <2>2 DEF IInv, MergeInv
  <2>3. CASE mergePc = "deleting"
    <3>1. mergeJob.plan \subseteq Segment
      BY DEF IInv, TypeOK, Job
    <3>2. \A s \in mergeJob.plan : s.id \in Nat
      BY <3>1 DEF Segment
    <3>3. \A s \in mergeJob.plan : s.id < nextSegmentId'
      BY <1>4, <2>3, <3>2 DEF IInv, MergeInv
    <3>4. \A s \in mergeJob.plan : \A t \in segments' : t.id # s.id
      BY <1>1, <2>3 DEF IInv, MergeInv
    <3> QED BY <1>1, <2>3, <3>3, <3>4 DEF MergeInv
  <2>4. CASE mergePc \in {"idle", "failed"}
    BY <1>1, <2>4 DEF MergeInv
  <2> QED BY <2>1, <2>2, <2>3, <2>4 DEF IInv, TypeOK
<1> QED BY <1>3, <1>6, <1>7, <1>8, <1>9 DEF Core

LEMMA MergeStartInv == ASSUME IInv, MergeStart PROVE Core'
<1>1. /\ mergePc = "idle" /\ jobs # <<>> /\ mergePc' = "reading"
      /\ mergeJob' = Head(jobs) /\ jobs' = Tail(jobs)
      /\ UNCHANGED <<log, buffer, segments, nextSegmentId, mergeInProgress,
                     flushing, files, closing>>
  BY DEF MergeStart, writeVars
<1>2. Len(jobs) = 1 /\ mergeInProgress /\ JobReady(jobs[1]) /\ closing # "closed"
  BY <1>1 DEF IInv, QueueInv
<1>3. mergeJob' = jobs[1] /\ jobs' = <<>>
  <2>1. jobs \in Seq(Job)
    BY DEF IInv, TypeOK
  <2> QED BY <1>1, <1>2, <2>1
<1>4. DocsConserved' /\ FilesInv' /\ FlushInv'
  BY <1>1 DEF IInv, DocsConserved, Visible, FilesInv, FlushInv
<1>5. QueueInv'
  BY <1>1, <1>2, <1>3 DEF QueueInv, Running
<1>6. MergeInv'
  BY <1>1, <1>2, <1>3 DEF MergeInv, JobReady
<1> QED BY <1>4, <1>5, <1>6 DEF Core

\* The sources of a plan of live segments are all on disk, found by name, and
\* hold exactly the documents of the plan (index.py:143).
LEMMA SourcesFound ==
    ASSUME IInv, NEW plan, plan \subseteq segments
    PROVE  SourcesOf(plan) = plan /\ ~SourceMissing(plan)
<1>1. plan \subseteq files /\ \A f, g \in files : f.id = g.id => f = g
  BY DEF IInv, FilesInv
<1> QED BY <1>1 DEF SourcesOf, SourceMissing

LEMMA MergeReadInv == ASSUME IInv, MergeRead PROVE Core'
<1>1. /\ mergePc = "reading"
      /\ UNCHANGED <<log, buffer, segments, nextSegmentId, mergeInProgress,
                     flushing, closing, jobs, mergeJob>>
  BY DEF MergeRead, writeVars
<1>2. JobReady(mergeJob)
  BY <1>1 DEF IInv, MergeInv
<1>3. SourcesOf(mergeJob.plan) = mergeJob.plan /\ ~SourceMissing(mergeJob.plan)
  BY <1>2, SourcesFound DEF JobReady
<1>4. /\ merged' = [id |-> mergeJob.id, docs |-> DocsIn(mergeJob.plan)]
      /\ files' = files \cup {merged'} /\ mergePc' = "building"
  BY <1>3 DEF MergeRead
<1>5. merged'.id = mergeJob.id /\ merged'.docs = DocsIn(mergeJob.plan)
  BY <1>4
<1>6. mergeJob.id < nextSegmentId /\ \A f \in files : f.id # mergeJob.id
  BY <1>2 DEF JobReady
<1>7. DocsConserved'
  BY <1>1 DEF IInv, DocsConserved, Visible
<1>8. FilesInv'
  <2>1. segments' \subseteq files' /\ \A f \in files' : f.id < nextSegmentId'
    BY <1>1, <1>4, <1>5, <1>6 DEF IInv, FilesInv
  <2>2. \A f, g \in files' : f.id = g.id => f = g
    BY <1>4, <1>5, <1>6 DEF IInv, FilesInv
  <2> QED BY <2>1, <2>2 DEF FilesInv
<1>9. FlushInv'
  BY <1>1, <1>4 DEF IInv, FlushInv
<1>10. QueueInv'
  <2>1. Running /\ Running' /\ jobs = <<>>
    BY <1>1, <1>4 DEF IInv, QueueInv, Running
  <2> QED BY <1>1, <1>4, <2>1 DEF IInv, QueueInv
<1>11. MergeInv'
  <2>1. \A s \in segments : s.id # mergeJob.id
    BY <1>6 DEF IInv, FilesInv
  <2>2. flushing # None => flushing.id # mergeJob.id
    BY <1>6 DEF IInv, FlushInv
  <2> QED BY <1>1, <1>2, <1>4, <1>5, <2>1, <2>2 DEF MergeInv, JobReady
<1> QED BY <1>7, <1>8, <1>9, <1>10, <1>11 DEF Core

\* A build that ends, well or not, only moves the merge thread on.
LEMMA MergeBuildInv == ASSUME IInv, MergeBuilds \/ MergeBuildFails PROVE Core'
<1>1. /\ mergePc = "building" /\ mergePc' \in {"built", "failed"}
      /\ UNCHANGED <<log, buffer, segments, nextSegmentId, mergeInProgress,
                     flushing, files, closing, jobs, mergeJob, merged>>
  BY DEF MergeBuilds, MergeBuildFails, writeVars
<1>2. DocsConserved' /\ FilesInv' /\ FlushInv'
  BY <1>1 DEF IInv, DocsConserved, Visible, FilesInv, FlushInv
<1>3. QueueInv'
  BY <1>1 DEF IInv, QueueInv, Running
<1>4. MergeInv'
  BY <1>1 DEF IInv, MergeInv
<1> QED BY <1>2, <1>3, <1>4 DEF Core

LEMMA MergeFailsInv == ASSUME IInv, MergeFails PROVE Core'
<1>1. /\ mergePc = "failed" /\ mergePc' = "idle" /\ mergeInProgress' = FALSE
      /\ UNCHANGED <<log, buffer, segments, nextSegmentId, flushing, files,
                     closing, jobs>>
  BY DEF MergeFails, EndJob
<1>2. DocsConserved' /\ FilesInv' /\ FlushInv'
  BY <1>1 DEF IInv, DocsConserved, Visible, FilesInv, FlushInv
<1>3. QueueInv'
  <2>1. jobs = <<>>
    BY <1>1 DEF IInv, QueueInv, Running
  <2> QED BY <1>1, <2>1 DEF QueueInv, Running
<1>4. MergeInv'
  BY <1>1 DEF MergeInv
<1> QED BY <1>2, <1>3, <1>4 DEF Core

\* Swapping a merged segment in for its sources leaves the same documents
\* visible (index.py:159-160).
LEMMA SwapVisible ==
    ASSUME IInv, MergeSwap
    PROVE  Visible' = Visible
<1>1. segments' = (segments \ mergeJob.plan) \cup {merged}
      /\ mergeJob.plan \subseteq segments /\ merged.docs = DocsIn(mergeJob.plan)
  BY DEF MergeSwap, IInv, MergeInv
<1> QED BY <1>1 DEF Visible, DocsIn

LEMMA MergeSwapInv == ASSUME IInv, MergeSwap PROVE Core'
<1>1. /\ mergePc = "built" /\ flushing = None
      /\ segments' = (segments \ mergeJob.plan) \cup {merged}
      /\ UNCHANGED <<log, buffer, flushing, files, closing>>
      /\ \/ mergePc' = "idle"
         \/ mergePc' = "deleting" /\ UNCHANGED <<mergeJob, merged>>
  BY DEF MergeSwap, EndJob, LockFree
<1>2. /\ mergeJob.plan \subseteq segments /\ merged \in files
      /\ merged.docs = DocsIn(mergeJob.plan)
      /\ \A s \in segments : s.id # merged.id
  BY <1>1 DEF IInv, MergeInv
<1>3. jobs = <<>> /\ closing # "closed"
  BY <1>1 DEF IInv, QueueInv, Running
<1>4. \/ mergeInProgress' = FALSE /\ UNCHANGED <<nextSegmentId, jobs>>
      \/ /\ mergeInProgress'
         /\ nextSegmentId' = nextSegmentId + 1
         /\ \/ jobs' = jobs /\ closing # "open"
            \/ /\ closing = "open"
               /\ \E job : /\ jobs' = Append(jobs, job)
                          /\ job.plan \subseteq segments' /\ job.id = nextSegmentId
  <2>1. ScheduleMerge(segments', FALSE)
    BY DEF MergeSwap
  <2> QED BY <2>1, ScheduleEffect
<1>5. nextSegmentId \in Nat /\ nextSegmentId' \in Nat /\ nextSegmentId <= nextSegmentId'
  <2>1. nextSegmentId \in Nat
    BY DEF IInv, TypeOK
  <2> QED BY <1>4, <2>1
<1>6. \A f \in files : f.id \in Nat /\ f.id < nextSegmentId
  BY DEF IInv, FilesInv, TypeOK, Segment
<1>7. DocsConserved'
  <2>1. \A s \in segments \ mergeJob.plan : s.docs \cap merged.docs = {}
    BY <1>2 DEF IInv, DocsConserved, DocsIn
  <2>2. \A s, t \in segments' : s # t => s.id # t.id /\ s.docs \cap t.docs = {}
    BY <1>1, <1>2, <2>1 DEF IInv, DocsConserved
  <2> QED BY <1>1, <2>2, SwapVisible DEF IInv, DocsConserved
<1>8. FilesInv'
  BY <1>1, <1>2, <1>5, <1>6 DEF IInv, FilesInv
<1>9. FlushInv'
  BY <1>1 DEF FlushInv
<1>10. QueueInv'
  <2>1. ~Running'
    BY <1>1 DEF Running
  <2>2. CASE mergeInProgress' = FALSE /\ UNCHANGED <<nextSegmentId, jobs>>
    BY <1>1, <1>3, <2>1, <2>2 DEF QueueInv
  <2>3. CASE jobs' = jobs /\ closing # "open" /\ mergeInProgress'
    BY <1>1, <1>3, <2>1, <2>3 DEF QueueInv
  <2>4. ASSUME NEW job, jobs' = Append(jobs, job), job.plan \subseteq segments',
               job.id = nextSegmentId, nextSegmentId' = nextSegmentId + 1,
               mergeInProgress', closing = "open"
        PROVE  QueueInv'
    <3>1. jobs' = <<job>> /\ Len(jobs') = 1 /\ jobs'[1] = job
      BY <1>3, <2>4
    <3>2. job.id < nextSegmentId' /\ \A f \in files : f.id # job.id
      BY <1>5, <1>6, <2>4
    <3> QED BY <1>1, <2>1, <2>4, <3>1, <3>2 DEF QueueInv, JobReady
  <2> QED BY <1>4, <2>2, <2>3, <2>4, Zenon
<1>11. MergeInv'
  <2>1. CASE mergePc' = "idle"
    BY <2>1 DEF MergeInv
  <2>2. CASE mergePc' = "deleting" /\ UNCHANGED <<mergeJob, merged>>
    <3>1. \A s \in mergeJob.plan : s.id < nextSegmentId'
      BY <1>2, <1>5, <1>6 DEF IInv, FilesInv
    <3>2. \A s \in mergeJob.plan : \A t \in segments' : t.id # s.id
      BY <1>1, <1>2 DEF IInv, DocsConserved
    <3> QED BY <1>1, <2>2, <3>1, <3>2 DEF MergeInv
  <2> QED BY <1>1, <2>1, <2>2
<1> QED BY <1>7, <1>8, <1>9, <1>10, <1>11 DEF Core

LEMMA MergeDeleteInv == ASSUME IInv, MergeDelete PROVE Core'
<1>1. /\ mergePc = "deleting" /\ mergePc' = "idle"
      /\ files' = files \ SourcesOf(mergeJob.plan)
      /\ UNCHANGED <<log, buffer, segments, nextSegmentId, mergeInProgress,
                     flushing, closing, jobs>>
  BY DEF MergeDelete, EndJob, writeVars
<1>2. \A s \in mergeJob.plan :
        (\A t \in segments : t.id # s.id) /\ (flushing # None => flushing.id # s.id)
  BY <1>1 DEF IInv, MergeInv
<1>3. DocsConserved'
  BY <1>1 DEF IInv, DocsConserved, Visible
<1>4. FilesInv' /\ FlushInv'
  BY <1>1, <1>2 DEF IInv, FilesInv, FlushInv, SourcesOf
<1>5. QueueInv'
  BY <1>1 DEF IInv, QueueInv, JobReady, Running
<1>6. MergeInv'
  BY <1>1 DEF MergeInv
<1> QED BY <1>3, <1>4, <1>5, <1>6 DEF Core

\* IInv is inductive.
LEMMA NextInv == IInv /\ [Next]_vars => IInv'
<1> SUFFICES ASSUME IInv, [Next]_vars PROVE Core'
  BY NextType DEF IInv, Core
<1>1. ASSUME NEW id \in Ids, NEW due \in BOOLEAN, Add(id, due) PROVE Core'
  BY <1>1, AddInv
<1>2. CASE Flush
  BY <1>2, FlushStartInv
<1>3. CASE FlushSucceeds
  BY <1>3, FlushSucceedsInv
<1>4. CASE FlushFails
  BY <1>4, FlushFailsInv
<1>5. ASSUME NEW id \in Ids, Delete(id) PROVE Core'
  BY <1>5, QuietStep DEF Delete
<1>6. CASE MergeStart
  BY <1>6, MergeStartInv
<1>7. CASE MergeRead
  BY <1>7, MergeReadInv
<1>8. CASE MergeBuilds \/ MergeBuildFails
  BY <1>8, MergeBuildInv
<1>9. CASE MergeFails
  BY <1>9, MergeFailsInv
<1>10. CASE MergeSwap
  BY <1>10, MergeSwapInv
<1>11. CASE MergeDelete
  BY <1>11, MergeDeleteInv
<1>12. CASE CloseStart
  BY <1>12, QuietStep DEF CloseStart, writeVars
<1>13. CASE CloseEnd
  BY <1>13, QuietStep DEF CloseEnd, writeVars
<1>14. ASSUME NEW r \in Readers, Reader(r) PROVE Core'
  BY <1>14, QuietStep DEF Reader, SearchCall, SearchSnapshot, SearchReturn, writeVars
<1>15. CASE UNCHANGED vars
  BY <1>15, QuietStep DEF vars, writeVars
<1> QED BY <1>1, <1>2, <1>3, <1>4, <1>5, <1>6, <1>7, <1>8, <1>9, <1>10, <1>11,
           <1>12, <1>13, <1>14, <1>15 DEF Next, Writer, Merger

\* IInv holds in every state the index reaches.
THEOREM Inductive == Spec => []IInv
<1> QED BY InitInv, NextInv, PTL DEF Spec
-----------------------------------------------------------------------------
(* The safety properties *)

\* No document is lost or published twice, whatever builds fail and whatever
\* merges swap (index.py:94-98, 157-160).
THEOREM DocsAreConserved == Spec => []DocsConserved
<1>1. IInv => DocsConserved
  BY DEF IInv
<1> QED BY <1>1, Inductive, PTL

\* The source TSV of every live segment is on disk with its own documents
\* (index.py:143, 168-170).
THEOREM LiveSegmentsOnDisk == Spec => []LiveOnDisk
<1>1. IInv => LiveOnDisk
  BY DEF IInv, FilesInv, LiveOnDisk
<1> QED BY <1>1, Inductive, PTL

\* A merge always finds its sources, and they are still live (index.py:104-119).
THEOREM MergeFindsSources == Spec => []MergeSourcesLive
<1>1. ASSUME IInv, mergePc \in {"reading", "building", "built"}
      PROVE  mergeJob.plan \subseteq segments
  BY <1>1 DEF IInv, MergeInv, JobReady
<1>2. IInv => MergeSourcesLive
  BY <1>1, SourcesFound DEF MergeSourcesLive
<1> QED BY <1>2, Inductive, PTL

\* While the index is open, _merge_in_progress is set exactly for one queued or
\* running merge (index.py:134-139).
THEOREM FlagIsExact == Spec => []FlagTracksMerge
<1>1. ASSUME IInv, closing = "open" PROVE FlagTracksMerge
  <2>1. jobs \in Seq(Job) /\ mergeInProgress \in BOOLEAN
    BY <1>1 DEF IInv, TypeOK
  <2>2. CASE jobs = <<>>
    <3>1. Len(jobs) = 0 /\ (mergeInProgress <=> Running)
      BY <1>1, <2>1, <2>2 DEF IInv, QueueInv
    <3> QED BY <3>1, <2>1 DEF FlagTracksMerge, Running
  <2>3. CASE Len(jobs) = 1 /\ mergeInProgress /\ ~Running
    BY <2>3 DEF FlagTracksMerge, Running
  <2> QED BY <1>1, <2>2, <2>3 DEF IInv, QueueInv
<1>2. IInv => FlagTracksMerge
  BY <1>1 DEF FlagTracksMerge
<1> QED BY <1>2, Inductive, PTL

\* Once close() has returned no merge is queued or running (index.py:184-186).
THEOREM ClosedStaysQuiet == Spec => []ClosedIsQuiet
<1>1. IInv => ClosedIsQuiet
  BY DEF IInv, QueueInv, ClosedIsQuiet
<1> QED BY <1>1, Inductive, PTL

\* What each step does to the searchable documents.
LEMMA VisibleStep ==
    ASSUME IInv, [Next]_vars
    PROVE  \/ Visible' = Visible
           \/ FlushSucceeds /\ Visible' = Visible \cup buffer
<1>1. CASE FlushSucceeds
  <2>1. segments' = segments \cup {flushing} /\ flushing.docs = buffer
    BY <1>1 DEF FlushSucceeds, LockFree, IInv, FlushInv
  <2> QED BY <1>1, <2>1 DEF Visible, DocsIn
<1>2. CASE MergeSwap
  BY <1>2, SwapVisible
<1>3. CASE UNCHANGED segments
  BY <1>3 DEF Visible
<1>4. ASSUME NEW r \in Readers, Reader(r) PROVE UNCHANGED segments
  BY <1>4 DEF Reader, SearchCall, SearchSnapshot, SearchReturn, writeVars
<1>5. ASSUME Writer, ~FlushSucceeds PROVE UNCHANGED segments
  BY <1>5 DEF Writer, Add, Flush, FlushFails, Delete
<1>6. ASSUME Merger, ~MergeSwap PROVE UNCHANGED segments
  BY <1>6 DEF Merger, MergeStart, MergeRead, MergeBuilds, MergeBuildFails, MergeFails,
              MergeDelete, writeVars
<1>7. ASSUME CloseStart \/ CloseEnd \/ UNCHANGED vars PROVE UNCHANGED segments
  BY <1>7 DEF CloseStart, CloseEnd, vars, writeVars
<1> QED BY <1>1, <1>2, <1>3, <1>4, <1>5, <1>6, <1>7 DEF Next

\* No step takes a document away from searches (index.py:159-160).
THEOREM VisibleOnlyGrows == Spec => VisibleGrows
<1>1. IInv /\ [Next]_vars => [Visible \subseteq Visible']_vars
  BY VisibleStep
<1> QED BY <1>1, Inductive, PTL DEF VisibleGrows, Spec
-----------------------------------------------------------------------------
(* The index implements the store *)

Asking == {r \in Readers : readerPc[r] = "waiting"}

LEMMA InitStore == Init => Store!Init
<1> SUFFICES ASSUME Init PROVE Store!Init
  OBVIOUS
<1>1. Visible = 1..Len(InitLog)
  BY InitSegmentsAssumption DEF Init, Visible
<1>2. Asking = {} /\ StoreView = [r \in Readers |-> NothingSeen]
  BY DEF Init, Asking, StoreView
<1> QED BY <1>1, <1>2 DEF Init, Store!Init, Store!Unread, NothingSeen, Asking

\* A step that moves no reader leaves what the readers read unchanged.
LEMMA ViewUnchanged == UNCHANGED readVars => UNCHANGED <<StoreView, Asking>>
BY DEF readVars, StoreView, Asking

\* A reader's step is a call, a read of one cut of the store, or invisible.
LEMMA ReaderStore ==
    ASSUME IInv, NEW r \in Readers, Reader(r)
    PROVE  Store!Ask(r) \/ Store!Read(r) \/ UNCHANGED Store!vars
<1>0. UNCHANGED <<log, buffer, Visible, tombstones>>
  BY DEF Reader, SearchCall, SearchSnapshot, SearchReturn, writeVars, Visible
<1> USE DEF Asking
<1>t. /\ readerPc \in [Readers -> {"idle", "waiting", "searching", "done", "raised"}]
      /\ snapshot \in [Readers -> [segments : SUBSET Segment, tombstones : SUBSET Ids]]
  BY DEF IInv, TypeOK
<1>1. CASE SearchCall(r)
  <2>1. r \notin Asking /\ Asking' = Asking \cup {r}
    BY <1>1, <1>t DEF SearchCall
  <2>2. StoreView' = [StoreView EXCEPT ![r] = NothingSeen]
    BY <1>1, <1>t DEF SearchCall, StoreView
  <2> QED BY <1>0, <2>1, <2>2 DEF Store!Ask, Store!Unread, NothingSeen
<1>2. CASE SearchSnapshot(r)
  <2>1. r \in Asking /\ Asking' = Asking \ {r}
    BY <1>2, <1>t DEF SearchSnapshot
  <2>2. StoreView' = [StoreView EXCEPT ![r] = [docs |-> Visible, deleted |-> tombstones]]
    BY <1>2, <1>t DEF SearchSnapshot, StoreView, Visible
  <2> QED BY <1>0, <2>1, <2>2 DEF Store!Read
<1>3. CASE SearchReturn(r)
  <2>1. Asking' = Asking
    BY <1>3, <1>t DEF SearchReturn
  <2>2. StoreView' = StoreView
    BY <1>3, <1>t DEF SearchReturn, StoreView
  <2> QED BY <1>0, <2>1, <2>2 DEF Store!vars
<1> QED BY <1>1, <1>2, <1>3 DEF Reader

LEMMA NextStore == IInv /\ [Next]_vars => [Store!Next]_(Store!vars)
<1> SUFFICES ASSUME IInv, [Next]_vars PROVE Store!Next \/ UNCHANGED Store!vars
  OBVIOUS
<1> USE DEF Asking
<1>1. ASSUME NEW id \in Ids, NEW due \in BOOLEAN, Add(id, due) PROVE Store!Add(id)
  BY <1>1, ViewUnchanged DEF Add, Store!Add, Visible
<1>2. ASSUME NEW id \in Ids, Delete(id) PROVE Store!Delete(id)
  BY <1>2, ViewUnchanged DEF Delete, Store!Delete, Visible
<1>3. ASSUME FlushSucceeds PROVE Store!Publish \/ UNCHANGED Store!vars
  <2>1. /\ segments' = segments \cup {flushing} /\ flushing.docs = buffer
        /\ buffer' = {} /\ UNCHANGED <<log, tombstones, StoreView, Asking>>
    BY <1>3, ViewUnchanged DEF FlushSucceeds, LockFree, IInv, FlushInv
  <2>2. Visible' = Visible \cup buffer
    BY <2>1 DEF Visible, DocsIn
  <2> QED BY <2>1, <2>2 DEF Store!Publish, Store!vars
<1>4. ASSUME UNCHANGED <<log, buffer, Visible, tombstones, readVars>>
      PROVE  UNCHANGED Store!vars
  BY <1>4, ViewUnchanged DEF Store!vars
<1>5. ASSUME Flush \/ FlushFails PROVE UNCHANGED Store!vars
  BY <1>4, <1>5 DEF Flush, FlushFails, Visible
<1>6. ASSUME Merger PROVE UNCHANGED Store!vars
  <2>1. UNCHANGED <<log, buffer, tombstones, readVars>>
    BY <1>6 DEF Merger, MergeStart, MergeRead, MergeBuilds, MergeBuildFails, MergeFails,
                MergeSwap, MergeDelete, writeVars
  <2>2. UNCHANGED segments \/ MergeSwap
    BY <1>6 DEF Merger, MergeStart, MergeRead, MergeBuilds, MergeBuildFails, MergeFails,
                MergeDelete, writeVars
  <2>3. UNCHANGED Visible
    BY <2>2, SwapVisible DEF Visible
  <2> QED BY <1>4, <2>1, <2>3
<1>7. ASSUME CloseStart \/ CloseEnd \/ UNCHANGED vars PROVE UNCHANGED Store!vars
  BY <1>4, <1>7 DEF CloseStart, CloseEnd, vars, writeVars, Visible
<1>8. ASSUME NEW r \in Readers, Reader(r)
      PROVE  Store!Ask(r) \/ Store!Read(r) \/ UNCHANGED Store!vars
  BY <1>8, ReaderStore
<1> QED BY <1>1, <1>2, <1>3, <1>5, <1>6, <1>7, <1>8 DEF Next, Writer, Store!Next

\* The index implements the store: to callers a flush is one atomic
\* publication, a merge is invisible, and a search reads one cut between its
\* call and its return (index.py:172-182).
THEOREM IndexImplementsStore == Spec => ImplementsStore
<1>1. Init => Store!Init
  BY InitStore
<1>2. IInv /\ [Next]_vars => [Store!Next]_(Store!vars)
  BY NextStore
<1> QED BY <1>1, <1>2, Inductive, PTL DEF Spec, ImplementsStore, Store!Spec
-----------------------------------------------------------------------------
(* Deleted documents are not returned *)

\* What a search has seen deleted stays within what it copied, and what it
\* returns was visible in its copy and not deleted there.
ReaderInv == \A r \in Readers :
    /\ readerPc[r] = "waiting" => called[r].deleted \subseteq tombstones
    /\ readerPc[r] \in {"searching", "done"} =>
          called[r].deleted \subseteq snapshot[r].tombstones
    /\ readerPc[r] = "searching" => DocsIn(snapshot[r].segments) \subseteq 1..Len(log)
    /\ readerPc[r] = "done" => \A d \in result[r] :
          d \in 1..Len(log) /\ log[d] \notin snapshot[r].tombstones

\* Steps of others: the log and the tombstones only grow.
LEMMA OthersReaderInv ==
    ASSUME IInv, ReaderInv, UNCHANGED readVars,
           \/ UNCHANGED log
           \/ \E id \in Ids : log' = Append(log, id),
           tombstones \subseteq tombstones'
    PROVE  ReaderInv'
<1>1. log \in Seq(Ids)
  BY DEF IInv, TypeOK
<1>2. 1..Len(log) \subseteq 1..Len(log') /\ \A d \in 1..Len(log) : log'[d] = log[d]
  BY <1>1
<1> QED BY <1>2 DEF ReaderInv, readVars

LEMMA StepReaderInv ==
    ASSUME IInv, ReaderInv, NEW r \in Readers, Reader(r)
    PROVE  ReaderInv'
<1>0. UNCHANGED <<log, tombstones>>
  BY DEF Reader, SearchCall, SearchSnapshot, SearchReturn, writeVars
<1>t. /\ readerPc \in [Readers -> {"idle", "waiting", "searching", "done", "raised"}]
      /\ snapshot \in [Readers -> [segments : SUBSET Segment, tombstones : SUBSET Ids]]
      /\ called \in [Readers -> [docs : SUBSET Nat, deleted : SUBSET Ids]]
      /\ result \in [Readers -> SUBSET Nat]
  BY DEF IInv, TypeOK
<1>1. CASE SearchCall(r)
  BY <1>0, <1>t, <1>1 DEF SearchCall, ReaderInv
<1>2. CASE SearchSnapshot(r)
  <2>1. DocsIn(segments) \subseteq 1..Len(log)
    BY DEF IInv, DocsConserved, Visible
  <2> QED BY <1>0, <1>t, <1>2, <2>1 DEF SearchSnapshot, ReaderInv
<1>3. CASE SearchReturn(r)
  <2> DEFINE copied == {s.docs : s \in snapshot[r].segments}
             found == SegmentSetSearch(copied, snapshot[r].tombstones, log, K)
  <2>1. \A d \in found : d \in UNION copied /\ log[d] \notin snapshot[r].tombstones
    BY SearchWithin
  <2>2. UNION copied \subseteq 1..Len(log)
    BY <1>3 DEF SearchReturn, ReaderInv, DocsIn
  <2>3. /\ \/ readerPc' = [readerPc EXCEPT ![r] = "raised"] /\ UNCHANGED result
           \/ readerPc' = [readerPc EXCEPT ![r] = "done"] /\ result' = [result EXCEPT ![r] = found]
        /\ UNCHANGED <<snapshot, called>> /\ readerPc[r] = "searching"
    BY <1>3 DEF SearchReturn
  <2> HIDE DEF found
  <2>4. \A d \in found : d \in 1..Len(log) /\ log[d] \notin snapshot[r].tombstones
    BY <2>1, <2>2
  <2> QED BY <1>0, <1>t, <2>3, <2>4 DEF ReaderInv
<1> QED BY <1>1, <1>2, <1>3 DEF Reader

LEMMA NextReaderInv == IInv /\ ReaderInv /\ [Next]_vars => ReaderInv'
<1> SUFFICES ASSUME IInv, ReaderInv, [Next]_vars PROVE ReaderInv'
  OBVIOUS
<1>1. ASSUME Writer PROVE ReaderInv'
  <2>1. /\ UNCHANGED readVars /\ tombstones \subseteq tombstones'
        /\ UNCHANGED log \/ \E id \in Ids : log' = Append(log, id)
    BY <1>1 DEF Writer, Add, Flush, FlushSucceeds, FlushFails, Delete
  <2> QED BY <2>1, OthersReaderInv
<1>2. ASSUME Merger PROVE ReaderInv'
  <2>1. UNCHANGED <<log, tombstones, readVars>>
    BY <1>2 DEF Merger, MergeStart, MergeRead, MergeBuilds, MergeBuildFails, MergeFails,
                MergeSwap, MergeDelete, writeVars
  <2> QED BY <2>1, OthersReaderInv
<1>3. ASSUME CloseStart \/ CloseEnd \/ UNCHANGED vars PROVE ReaderInv'
  <2>1. UNCHANGED <<log, tombstones, readVars>>
    BY <1>3 DEF CloseStart, CloseEnd, vars, writeVars
  <2> QED BY <2>1, OthersReaderInv
<1>4. ASSUME NEW r \in Readers, Reader(r) PROVE ReaderInv'
  BY <1>4, StepReaderInv
<1> QED BY <1>1, <1>2, <1>3, <1>4 DEF Next

\* A search never returns a document deleted before it was called, whichever
\* segment the document has moved to since (index.py:79-84, 175-177).
THEOREM DeletedNeverReturned == Spec => []NoDeletedHits
<1>1. Init => ReaderInv
  BY DEF Init, ReaderInv
<1>2. IInv /\ ReaderInv /\ [Next]_vars => ReaderInv'
  BY NextReaderInv
<1>3. ReaderInv => NoDeletedHits
  BY DEF ReaderInv, NoDeletedHits
<1> QED BY <1>1, <1>2, <1>3, Inductive, PTL DEF Spec
-----------------------------------------------------------------------------
(* The largest initial segment is never merged *)

\* How the lag experiment runs the index: one initial segment, a merge factor
\* not above the segment budget, and fewer documents added than it holds.
BaseLargest(base) ==
    /\ InitSegments = {base}
    /\ MergeFactor <= MaxSegments
    /\ Len(InitLog) <= MaxDocs /\ MaxDocs - Len(InitLog) < Len(InitLog)

BaseInv(base) ==
    /\ base \in segments /\ base \in files
    /\ IsFiniteSet(segments)
    /\ Len(log) <= MaxDocs
    /\ jobs # <<>> => base \notin jobs[1].plan
    /\ base \notin mergeJob.plan

\* A merge takes merge_factor segments and leaves at least one, so the largest
\* is not among them (merge_policy.py:17-21).
LEMMA LargestNotPlanned ==
    ASSUME NEW segs, IsFiniteSet(segs), NEW base \in segs, MergeFactor <= MaxSegments,
           \A s \in segs : Cardinality(s.docs) \in Nat,
           \A s \in segs \ {base} : Cardinality(s.docs) < Cardinality(base.docs),
           NEW plan \in MergePlans(segs)
    PROVE  base \notin plan
<1>1. Cardinality(segs) \in Nat
  BY FS_CardinalityType
<1>2. /\ MaxSegments < Cardinality(segs) /\ Cardinality(plan) = MergeFactor
      /\ plan \subseteq segs
      /\ \A p \in plan, s \in segs \ plan : Cardinality(p.docs) <= Cardinality(s.docs)
  BY <1>1, ConstantsAssumption DEF MergePlans, SmallerFirst
<1>3. plan # segs
  BY <1>1, <1>2, ConstantsAssumption
<1>4. PICK s \in segs \ plan : TRUE
  BY <1>2, <1>3
<1>5. SUFFICES ASSUME base \in plan PROVE FALSE
  OBVIOUS
<1>6. Cardinality(base.docs) <= Cardinality(s.docs)
  BY <1>2, <1>4, <1>5
<1>7. s \in segs \ {base}
  BY <1>4, <1>5
<1>8. Cardinality(s.docs) < Cardinality(base.docs)
  BY <1>7
<1>9. Cardinality(s.docs) \in Nat /\ Cardinality(base.docs) \in Nat
  BY <1>7
<1> QED BY <1>6, <1>8, <1>9

\* The number of documents from a to b.
LEMMA RangeSize ==
    ASSUME NEW a \in Nat, NEW b \in Nat
    PROVE  IsFiniteSet(a..b) /\ Cardinality(a..b) = IF a > b THEN 0 ELSE b - a + 1
<1>1. a \in Int /\ b \in Int
  OBVIOUS
<1> QED BY <1>1, FS_Interval, Zenon

\* Every other segment holds only added documents, so it is smaller than base.
LEMMA BaseIsLargest ==
    ASSUME NEW base, BaseLargest(base), NEW segs, base \in segs,
           NEW n \in Nat, n <= MaxDocs, \A s \in segs : s.docs \subseteq 1..n,
           \A s, t \in segs : s # t => s.docs \cap t.docs = {}
    PROVE  /\ \A s \in segs : Cardinality(s.docs) \in Nat
           /\ \A s \in segs \ {base} : Cardinality(s.docs) < Cardinality(base.docs)
<1>1. Len(InitLog) \in Nat /\ MaxDocs \in Nat
  BY ConstantsAssumption
<1>2. base.docs = 1..Len(InitLog)
  BY InitSegmentsAssumption DEF BaseLargest, DocsIn
<1>3. Cardinality(base.docs) = Len(InitLog)
  <2>1. Cardinality(1..Len(InitLog)) = IF 1 > Len(InitLog) THEN 0 ELSE Len(InitLog) - 1 + 1
    BY <1>1, RangeSize
  <2> QED BY <1>1, <1>2, <2>1
<1>4. IsFiniteSet(1..n)
  BY <1>1, RangeSize
<1>5. ASSUME NEW s \in segs PROVE Cardinality(s.docs) \in Nat
  BY <1>4, FS_Subset, FS_CardinalityType
<1>6. ASSUME NEW s \in segs \ {base} PROVE Cardinality(s.docs) < Cardinality(base.docs)
  <2> DEFINE added == (Len(InitLog) + 1)..n
  <2>1. s.docs \cap base.docs = {}
    OBVIOUS
  <2>2. s.docs \subseteq added
    BY <1>1, <1>2, <2>1
  <2>3. IsFiniteSet(added) /\ Cardinality(added) < Len(InitLog)
    <3>1. Len(InitLog) + 1 \in Nat
      BY <1>1
    <3>2. /\ IsFiniteSet(added)
          /\ Cardinality(added) = IF Len(InitLog) + 1 > n THEN 0
                                 ELSE n - (Len(InitLog) + 1) + 1
      BY <3>1, RangeSize, Zenon
    <3>3. n - Len(InitLog) < Len(InitLog) /\ 0 < Len(InitLog)
      BY <1>1 DEF BaseLargest
    <3> HIDE DEF added
    <3> QED BY <1>1, <3>2, <3>3
  <2>4. Cardinality(s.docs) <= Cardinality(added) /\ Cardinality(added) \in Nat
    BY <2>2, <2>3, FS_Subset, FS_CardinalityType
  <2> QED BY <1>1, <1>3, <1>5, <2>3, <2>4
<1> QED BY <1>5, <1>6

\* A plan scheduled for segments all of whose plans leave base out queues
\* nothing that merges base.
LEMMA SchedulePlan ==
    ASSUME NEW segs, NEW busy, NEW base, ScheduleMerge(segs, busy),
           \A plan \in MergePlans(segs) : base \notin plan
    PROVE  \/ jobs' = jobs
           \/ \E job : jobs' = Append(jobs, job) /\ base \notin job.plan
<1>1. ASSUME NEW plan \in MergePlans(segs),
             jobs' = IF PoolOpen
                     THEN Append(jobs, [plan |-> plan, id |-> nextSegmentId])
                     ELSE jobs
      PROVE  jobs' = jobs \/ \E job : jobs' = Append(jobs, job) /\ base \notin job.plan
  <2> DEFINE job == [plan |-> plan, id |-> nextSegmentId]
  <2>1. base \notin job.plan
    OBVIOUS
  <2> HIDE DEF job
  <2>2. jobs' = jobs \/ jobs' = Append(jobs, job)
    BY <1>1 DEF job
  <2> QED BY <2>1, <2>2
<1> QED BY <1>1 DEF ScheduleMerge

\* Publishing new segments beside base, and scheduling a merge for the list,
\* queues nothing that merges base.
LEMMA ScheduleBase ==
    ASSUME NEW base, BaseLargest(base), IInv, IInv', BaseInv(base), log' = log,
           base \in segments', IsFiniteSet(segments'),
           NEW busy, ScheduleMerge(segments', busy)
    PROVE  jobs' # <<>> => base \notin jobs'[1].plan
<1>1. \A plan \in MergePlans(segments') : base \notin plan
  <2> DEFINE segs == segments'
  <2>1. Len(log) \in Nat /\ Len(log) <= MaxDocs
    BY DEF IInv, TypeOK, BaseInv
  <2>2. \A s \in segs : s.docs \subseteq 1..Len(log)
    <3>1. Visible' \subseteq 1..Len(log)
      BY DEF IInv, DocsConserved
    <3> QED BY <3>1 DEF Visible, DocsIn
  <2>3. \A s, t \in segs : s # t => s.docs \cap t.docs = {}
    BY DEF IInv, DocsConserved
  <2>4. base \in segs /\ IsFiniteSet(segs)
    OBVIOUS
  <2> HIDE DEF segs
  <2>5. /\ \A s \in segs : Cardinality(s.docs) \in Nat
        /\ \A s \in segs \ {base} : Cardinality(s.docs) < Cardinality(base.docs)
    BY <2>1, <2>2, <2>3, <2>4, BaseIsLargest
  <2>6. MergeFactor <= MaxSegments
    BY DEF BaseLargest
  <2>7. \A plan \in MergePlans(segs) : base \notin plan
    BY <2>4, <2>5, <2>6, LargestNotPlanned
  <2> QED BY <2>7 DEF segs
<1>2. \/ jobs' = jobs
      \/ \E job : jobs' = Append(jobs, job) /\ base \notin job.plan
  BY <1>1, SchedulePlan
<1>3. jobs \in Seq(Job) /\ (jobs = <<>> \/ Len(jobs) = 1)
  BY DEF IInv, TypeOK, QueueInv
<1>4. ASSUME NEW job, jobs' = Append(jobs, job), base \notin job.plan
      PROVE  base \notin jobs'[1].plan
  <2>1. CASE jobs = <<>>
    BY <1>4, <2>1
  <2>2. CASE jobs # <<>>
    <3>1. jobs'[1] = jobs[1]
      BY <1>3, <1>4, <2>2
    <3> QED BY <2>2, <3>1 DEF BaseInv
  <2> QED BY <2>1, <2>2
<1> QED BY <1>2, <1>4 DEF BaseInv

LEMMA NextBase ==
    ASSUME NEW base, BaseLargest(base), IInv, IInv', BaseInv(base), [Next]_vars
    PROVE  BaseInv(base)'
<1>0. /\ base \in segments /\ base \in files /\ IsFiniteSet(segments)
      /\ Len(log) <= MaxDocs /\ base \notin mergeJob.plan
      /\ jobs # <<>> => base \notin jobs[1].plan
  BY DEF BaseInv
<1>1. ASSUME UNCHANGED <<segments, jobs, mergeJob>>, files \subseteq files',
             Len(log') <= MaxDocs
      PROVE  BaseInv(base)'
  BY <1>0, <1>1 DEF BaseInv
<1>2. ASSUME NEW id \in Ids, NEW due \in BOOLEAN, Add(id, due) PROVE BaseInv(base)'
  <2>1. UNCHANGED <<segments, jobs, mergeJob>> /\ files \subseteq files'
    BY <1>2 DEF Add, StartFlush, mergeVars
  <2>2. Len(log') <= MaxDocs
    BY <1>2, ConstantsAssumption DEF Add, IInv, TypeOK
  <2> QED BY <1>1, <2>1, <2>2
<1>3. ASSUME Flush \/ FlushFails \/ \E id \in Ids : Delete(id) PROVE BaseInv(base)'
  <2>1. UNCHANGED <<segments, jobs, mergeJob, log>> /\ files \subseteq files'
    BY <1>3 DEF Flush, FlushFails, Delete, StartFlush, mergeVars
  <2> QED BY <1>0, <1>1, <2>1
<1>4. CASE FlushSucceeds
  <2>1. /\ segments' = segments \cup {flushing} /\ ScheduleMerge(segments', mergeInProgress)
        /\ UNCHANGED <<log, files, mergeJob>>
    BY <1>4 DEF FlushSucceeds
  <2>2. base \in segments' /\ IsFiniteSet(segments')
    BY <1>0, <2>1, FS_AddElement
  <2>3. jobs' # <<>> => base \notin jobs'[1].plan
    BY <2>1, <2>2, ScheduleBase
  <2> QED BY <1>0, <2>1, <2>2, <2>3 DEF BaseInv
<1>5. CASE MergeStart
  <2>1. /\ jobs # <<>> /\ mergeJob' = Head(jobs) /\ jobs' = Tail(jobs)
        /\ UNCHANGED <<log, segments, files>>
    BY <1>5 DEF MergeStart, writeVars
  <2>2. jobs \in Seq(Job) /\ Len(jobs) = 1
    BY <2>1 DEF IInv, TypeOK, QueueInv
  <2>3. mergeJob' = jobs[1] /\ jobs' = <<>>
    BY <2>1, <2>2
  <2> QED BY <1>0, <2>1, <2>3 DEF BaseInv
<1>6. ASSUME MergeRead \/ MergeBuilds \/ MergeBuildFails PROVE BaseInv(base)'
  <2>1. UNCHANGED <<log, segments, jobs, mergeJob>> /\ files \subseteq files'
    BY <1>6 DEF MergeRead, MergeBuilds, MergeBuildFails, writeVars
  <2> QED BY <1>0, <1>1, <2>1
<1>7. base \notin NoJob.plan
  BY DEF NoJob
<1>8. CASE MergeFails
  BY <1>0, <1>7, <1>8 DEF MergeFails, EndJob, BaseInv
<1>9. CASE MergeSwap
  <2>1. /\ segments' = (segments \ mergeJob.plan) \cup {merged} /\ ScheduleMerge(segments', FALSE)
        /\ UNCHANGED <<log, files>> /\ mergeJob' \in {NoJob, mergeJob}
    BY <1>9 DEF MergeSwap, EndJob
  <2>2. base \in segments' /\ IsFiniteSet(segments')
    <3>1. IsFiniteSet(segments \ mergeJob.plan)
      BY <1>0, FS_Difference
    <3> QED BY <1>0, <2>1, <3>1, FS_AddElement
  <2>3. jobs' # <<>> => base \notin jobs'[1].plan
    BY <2>1, <2>2, ScheduleBase
  <2> QED BY <1>0, <1>7, <2>1, <2>2, <2>3 DEF BaseInv
<1>10. CASE MergeDelete
  <2>1. /\ files' = files \ SourcesOf(mergeJob.plan) /\ mergeJob' = NoJob
        /\ UNCHANGED <<log, segments, jobs>>
    BY <1>10 DEF MergeDelete, EndJob, writeVars
  <2>2. \A s \in mergeJob.plan : base.id # s.id
    BY <1>0, <1>10 DEF MergeDelete, IInv, MergeInv
  <2>3. base \in files'
    BY <1>0, <2>1, <2>2 DEF SourcesOf
  <2> QED BY <1>0, <1>7, <2>1, <2>3 DEF BaseInv
<1>11. ASSUME CloseStart \/ CloseEnd \/ (\E r \in Readers : Reader(r)) \/ UNCHANGED vars
       PROVE  BaseInv(base)'
  <2>1. UNCHANGED <<segments, jobs, mergeJob, log, files>>
    BY <1>11 DEF CloseStart, CloseEnd, Reader, SearchCall, SearchSnapshot, SearchReturn,
                 vars, writeVars, mergeVars
  <2> QED BY <1>0, <1>1, <2>1
<1> QED BY <1>2, <1>3, <1>4, <1>5, <1>6, <1>8, <1>9, <1>10, <1>11 DEF Next, Writer, Merger

\* An initial segment that stays larger than everything added, with a merge
\* factor not above the segment budget, is never merged and its files are never
\* deleted, so it may be shared between runs (lag_experiment.py:206-214).
THEOREM LargestBaseKept ==
    ASSUME NEW base, BaseLargest(base)
    PROVE  Spec => []InitSegmentsKept
<1>1. Init => BaseInv(base)
  <2> SUFFICES ASSUME Init PROVE BaseInv(base)
    OBVIOUS
  <2>1. segments = {base} /\ files = {base} /\ log = InitLog /\ jobs = <<>>
        /\ mergeJob.plan = {}
    BY DEF Init, BaseLargest, NoJob
  <2>2. IsFiniteSet({base})
    BY FS_Singleton
  <2> QED BY <2>1, <2>2 DEF BaseInv, BaseLargest
<1>2. IInv /\ IInv' /\ BaseInv(base) /\ [Next]_vars => BaseInv(base)'
  BY NextBase
<1>3. BaseInv(base) => InitSegmentsKept
  BY DEF BaseInv, BaseLargest, InitSegmentsKept
<1> QED BY <1>1, <1>2, <1>3, Inductive, PTL DEF Spec
-----------------------------------------------------------------------------
(* What is on disk while nothing fails *)

\* Files that belong to nobody's segment list yet, or no longer: the one being
\* flushed, the one being merged, those a merge has replaced.
InFlight ==
    (IF LockFree THEN {} ELSE {flushing})
    \cup (IF mergePc \in {"building", "built"} THEN {merged} ELSE {})
    \cup (IF mergePc = "deleting" THEN mergeJob.plan ELSE {})

\* Every file has an owner, and no merge has failed.
OwnedInv ==
    closing = "open" /\ failures = 0 => mergePc # "failed" /\ files = segments \cup InFlight

\* Before anything has failed or closed, nothing had failed or closed earlier.
LEMMA StillCalm ==
    ASSUME TypeOK, [Next]_vars, closing' = "open", failures' = 0
    PROVE  closing = "open" /\ failures = 0 /\ ~FlushFails /\ ~MergeBuildFails
<1>1. failures \in Nat
  BY ConstantsAssumption DEF TypeOK
<1>2. ~FlushFails /\ ~MergeBuildFails
  BY <1>1 DEF FlushFails, MergeBuildFails
<1>3. ASSUME UNCHANGED <<closing, failures>> PROVE closing = "open" /\ failures = 0
  BY <1>3
<1>4. CASE Writer \/ Merger
  <2>1. UNCHANGED <<closing, failures>>
    BY <1>2, <1>4 DEF Writer, Merger, Add, Flush, FlushSucceeds, Delete, MergeStart, MergeRead,
                      MergeBuilds, MergeFails, MergeSwap, MergeDelete
  <2> QED BY <1>2, <1>3, <2>1
<1>5. CASE CloseStart \/ CloseEnd
  BY <1>5 DEF CloseStart, CloseEnd
<1>6. CASE (\E r \in Readers : Reader(r)) \/ UNCHANGED vars
  <2>1. UNCHANGED <<closing, failures>>
    BY <1>6 DEF Reader, SearchCall, SearchSnapshot, SearchReturn, vars
  <2> QED BY <1>2, <1>3, <2>1
<1> QED BY <1>4, <1>5, <1>6 DEF Next

\* A flush that starts owns the file it adds (index.py:89-94).
LEMMA StartFlushOwned ==
    ASSUME LockFree, NEW docs, docs # {}, StartFlush(docs), OwnedInv,
           UNCHANGED <<segments, mergeVars, closing, failures>>
    PROVE  OwnedInv'
<1>1. flushing' = [id |-> nextSegmentId, docs |-> docs] /\ files' = files \cup {flushing'}
  BY DEF StartFlush
<1>2. flushing'.docs = docs /\ None.docs = {}
  BY <1>1 DEF None
<1>3. ~LockFree' /\ flushing = None
  BY <1>2 DEF LockFree
<1>4. InFlight' = InFlight \cup {flushing'}
  BY <1>3 DEF InFlight, LockFree, mergeVars
<1> QED BY <1>1, <1>4 DEF OwnedInv, mergeVars

LEMMA NextOwned == IInv /\ OwnedInv /\ [Next]_vars => OwnedInv'
<1> SUFFICES ASSUME IInv, OwnedInv, [Next]_vars, closing' = "open", failures' = 0
             PROVE  mergePc' # "failed" /\ files' = segments' \cup InFlight'
  BY DEF OwnedInv
<1>1. closing = "open" /\ failures = 0 /\ ~FlushFails /\ ~MergeBuildFails
  BY StillCalm DEF IInv
<1>2. mergePc # "failed" /\ files = segments \cup InFlight
  BY <1>1 DEF OwnedInv
<1>3. ASSUME NEW id \in Ids, NEW due \in BOOLEAN, Add(id, due)
      PROVE  mergePc' # "failed" /\ files' = segments' \cup InFlight'
  <2>1. LockFree /\ buffer' # {} /\ UNCHANGED <<segments, mergeVars, closing, failures>>
    BY <1>3 DEF Add
  <2>2. CASE StartFlush(buffer')
    <3>1. OwnedInv'
      BY <2>1, <2>2, StartFlushOwned
    <3> QED BY <3>1 DEF OwnedInv
  <2>3. CASE UNCHANGED <<flushing, files>>
    BY <1>2, <2>1, <2>3 DEF InFlight, LockFree, mergeVars
  <2> QED BY <1>3, <2>2, <2>3 DEF Add
<1>4. CASE Flush
  <2>1. LockFree /\ buffer # {} /\ StartFlush(buffer)
        /\ UNCHANGED <<segments, mergeVars, closing, failures>>
    BY <1>4 DEF Flush
  <2>2. OwnedInv'
    BY <2>1, StartFlushOwned
  <2> QED BY <2>2 DEF OwnedInv
<1>5. CASE FlushSucceeds
  BY <1>2, <1>5 DEF FlushSucceeds, InFlight, LockFree
<1>6. CASE MergeStart
  BY <1>2, <1>6 DEF MergeStart, InFlight, LockFree, writeVars
<1>7. CASE MergeRead
  <2>1. mergePc = "reading" /\ mergeJob.plan \subseteq segments
    BY <1>7 DEF MergeRead, IInv, MergeInv, JobReady
  <2>2. ~SourceMissing(mergeJob.plan)
    BY <2>1, SourcesFound
  <2>3. /\ files' = files \cup {merged'} /\ mergePc' = "building"
        /\ UNCHANGED <<segments, flushing>>
    BY <1>7, <2>2 DEF MergeRead, writeVars
  <2> QED BY <1>2, <2>1, <2>3 DEF InFlight, LockFree
<1>8. CASE MergeBuilds
  BY <1>2, <1>8 DEF MergeBuilds, InFlight, LockFree, writeVars
<1>9. CASE MergeSwap
  <2>1. /\ mergePc = "built" /\ mergePc' = "deleting" /\ LockFree
        /\ segments' = (segments \ mergeJob.plan) \cup {merged}
        /\ UNCHANGED <<files, flushing, mergeJob, merged>>
    BY <1>1, <1>9 DEF MergeSwap, ScheduleRaises, PoolOpen
  <2>2. mergeJob.plan \subseteq segments
    BY <2>1 DEF IInv, MergeInv
  <2> QED BY <1>2, <2>1, <2>2 DEF InFlight, LockFree
<1>10. CASE MergeDelete
  <2>1. /\ mergePc = "deleting" /\ mergePc' = "idle"
        /\ files' = files \ SourcesOf(mergeJob.plan) /\ UNCHANGED <<segments, flushing>>
    BY <1>10 DEF MergeDelete, EndJob, writeVars
  <2>2. \A s \in mergeJob.plan :
          (\A t \in segments : t.id # s.id) /\ (flushing # None => flushing.id # s.id)
    BY <2>1 DEF IInv, MergeInv
  <2> DEFINE kept == segments \cup (IF LockFree THEN {} ELSE {flushing})
  <2>3. files = kept \cup mergeJob.plan
    BY <1>2, <2>1 DEF InFlight
  <2>4. \A f \in kept : f \notin SourcesOf(mergeJob.plan)
    BY <2>2 DEF SourcesOf, LockFree
  <2>5. mergeJob.plan \subseteq SourcesOf(mergeJob.plan)
    BY <2>3 DEF SourcesOf
  <2>6. files' = kept
    <3> HIDE DEF kept
    <3> QED BY <2>1, <2>3, <2>4, <2>5
  <2> QED BY <2>1, <2>6 DEF InFlight, LockFree
<1>11. ~MergeFails
  BY <1>2 DEF MergeFails
<1>12. ASSUME (\E id \in Ids : Delete(id)) \/ CloseStart \/ CloseEnd
              \/ (\E r \in Readers : Reader(r)) \/ UNCHANGED vars
       PROVE  mergePc' # "failed" /\ files' = segments' \cup InFlight'
  <2>1. UNCHANGED <<segments, files, flushing, mergePc, mergeJob, merged>>
    BY <1>12 DEF Delete, CloseStart, CloseEnd, Reader, SearchCall, SearchSnapshot, SearchReturn,
                 vars, writeVars, mergeVars
  <2> QED BY <1>2, <2>1 DEF InFlight, LockFree
<1> QED BY <1>1, <1>3, <1>4, <1>5, <1>6, <1>7, <1>8, <1>9, <1>10, <1>11, <1>12
        DEF Next, Writer, Merger

\* While nothing fails and the index is open, a merge thread at rest has left
\* no file behind but those of the live segments (index.py:168-170).
THEOREM NoOrphans == Spec => []NoOrphanFiles
<1>1. Init => OwnedInv
  BY DEF Init, OwnedInv, InFlight, LockFree
<1>2. OwnedInv => NoOrphanFiles
  BY DEF OwnedInv, NoOrphanFiles, InFlight
<1> QED BY <1>1, <1>2, NextOwned, Inductive, PTL DEF Spec
-----------------------------------------------------------------------------
(***************************************************************************)
(* What rests on there being k best, or smallest, members of a finite set: *)
(* the policy always finds a merge when there are too many segments, and   *)
(* the fan-out over segments with its over-fetch returns what one search   *)
(* over all their documents would.                                         *)
(***************************************************************************)

(* Picking the smallest *)

LEMMA LeastNat ==
    ASSUME NEW T, T \subseteq Nat, T # {}
    PROVE  \E x \in T : \A y \in T : x <= y
<1> DEFINE less == OpToRel(<, Nat)
<1>1. IsWellFoundedOn(less, Nat)
  BY NatLessThanWellFounded
<1>2. \A x, y \in Nat : x < y => <<x, y>> \in less
  BY DEF OpToRel
<1> HIDE DEF less
<1>3. PICK x \in T : \A y \in T : <<y, x>> \notin less
  BY <1>1, WFMin
<1>4. ASSUME NEW y \in T PROVE x <= y
  <2>1. x \in Nat /\ y \in Nat
    OBVIOUS
  <2>2. ~(y < x)
    BY <1>2, <1>3, <2>1
  <2> QED BY <2>1, <2>2
<1> QED BY <1>4

\* P holds n members of S, none of them above any other of S.
Smallest(P, S, w, n) ==
    /\ P \subseteq S /\ Cardinality(P) = n
    /\ \A p \in P, s \in S \ P : w[p] <= w[s]

\* What a stable sort and a slice [:n] rely on (merge_policy.py:20-21,
\* segment.py:96-97).
LEMMA SmallestExist ==
    ASSUME NEW S, IsFiniteSet(S), NEW w, \A s \in S : w[s] \in Nat,
           NEW n \in Nat, n <= Cardinality(S)
    PROVE  \E P \in SUBSET S : Smallest(P, S, w, n)
<1> DEFINE Good(m) == \E P \in SUBSET S : Smallest(P, S, w, m)
           bad == {m \in Nat : m <= Cardinality(S) /\ ~Good(m)}
<1>1. Cardinality(S) \in Nat
  BY FS_CardinalityType
<1>2. Good(0)
  BY FS_EmptySet DEF Smallest
<1>3. SUFFICES ASSUME bad # {} PROVE FALSE
  OBVIOUS
<1>4. PICK m \in bad : \A y \in bad : m <= y
  <2>1. bad \subseteq Nat
    OBVIOUS
  <2> HIDE DEF bad
  <2> QED BY <1>3, <2>1, LeastNat
<1>5. m \in Nat /\ m <= Cardinality(S) /\ ~Good(m) /\ m # 0
  BY <1>2, <1>4
<1>6. Good(m - 1)
  <2>1. m - 1 \in Nat /\ m - 1 <= Cardinality(S) /\ ~(m <= m - 1)
    BY <1>1, <1>5
  <2>2. m - 1 \notin bad
    BY <1>4, <2>1
  <2> QED BY <2>1, <2>2
<1>7. PICK P \in SUBSET S : Smallest(P, S, w, m - 1)
  BY <1>6
<1> DEFINE rest == S \ P
           weights == {w[s] : s \in rest}
<1>8. rest # {}
  <2>1. Cardinality(P) # Cardinality(S)
    BY <1>1, <1>5, <1>7 DEF Smallest
  <2> QED BY <2>1
<1>9. PICK x \in weights : \A y \in weights : x <= y
  <2>1. weights \subseteq Nat /\ weights # {}
    BY <1>8
  <2> HIDE DEF weights
  <2> QED BY <2>1, LeastNat
<1>10. PICK s \in rest : w[s] = x
  OBVIOUS
<1>11. \A t \in rest : w[s] <= w[t]
  BY <1>9, <1>10
<1>12. Cardinality(P \cup {s}) = m
  <2>1. IsFiniteSet(P)
    BY FS_Subset
  <2>2. Cardinality(P \cup {s}) = Cardinality(P) + 1
    BY <1>10, <2>1, FS_AddElement
  <2> QED BY <1>5, <1>7, <2>2 DEF Smallest
<1>13. \A p \in P \cup {s}, t \in S \ (P \cup {s}) : w[p] <= w[t]
  BY <1>7, <1>11 DEF Smallest
<1>14. Smallest(P \cup {s}, S, w, m)
  BY <1>7, <1>10, <1>12, <1>13 DEF Smallest
<1>15. P \cup {s} \in SUBSET S
  BY <1>10
<1> QED BY <1>5, <1>14, <1>15
-----------------------------------------------------------------------------
(* The merge policy *)

\* Over its budget, maybe_merge has a plan (merge_policy.py:17-21).
LEMMA PlanExists ==
    ASSUME NEW segs, IsFiniteSet(segs), \A s \in segs : Cardinality(s.docs) \in Nat,
           Cardinality(segs) > MaxSegments
    PROVE  MergePlans(segs) # {}
<1> DEFINE size == IF MergeFactor < Cardinality(segs) THEN MergeFactor ELSE Cardinality(segs)
           w == [s \in segs |-> Cardinality(s.docs)]
<1>1. Cardinality(segs) \in Nat
  BY FS_CardinalityType
<1>2. size \in Nat /\ size <= Cardinality(segs)
  BY <1>1, ConstantsAssumption
<1>3. \A s \in segs : w[s] = Cardinality(s.docs) /\ w[s] \in Nat
  OBVIOUS
<1>4. ~(Cardinality(segs) <= MaxSegments)
  BY <1>1, ConstantsAssumption
<1>5. ASSUME NEW P \in SUBSET segs, Cardinality(P) = size,
             \A p \in P, s \in segs \ P : SmallerFirst(p, s)
      PROVE  P \in MergePlans(segs)
  BY <1>4, <1>5 DEF MergePlans
<1> HIDE DEF size, w
<1>6. PICK P \in SUBSET segs : Smallest(P, segs, w, size)
  BY <1>2, <1>3, SmallestExist
<1>7. \A p \in P, s \in segs \ P : SmallerFirst(p, s)
  BY <1>3, <1>6 DEF Smallest, SmallerFirst
<1> QED BY <1>5, <1>6, <1>7 DEF Smallest

\* Documents are finitely many, so every live segment has a size.
LEMMA SegmentSizes == IInv => \A s \in segments : Cardinality(s.docs) \in Nat
<1> SUFFICES ASSUME IInv, NEW s \in segments PROVE Cardinality(s.docs) \in Nat
  OBVIOUS
<1>1. Len(log) \in Nat
  BY DEF IInv, TypeOK
<1>2. s.docs \subseteq 1..Len(log)
  BY DEF IInv, DocsConserved, Visible, DocsIn
<1>3. IsFiniteSet(1..Len(log))
  <2>1. 1 \in Nat
    OBVIOUS
  <2> QED BY <1>1, <2>1, RangeSize
<1> QED BY <1>2, <1>3, FS_Subset, FS_CardinalityType

\* After scheduling for a list over budget a merge is pending.
LEMMA ScheduledWhenOver ==
    ASSUME IInv', NEW busy \in BOOLEAN, IsFiniteSet(segments'), ScheduleMerge(segments', busy),
           Cardinality(segments') > MaxSegments
    PROVE  mergeInProgress'
<1>1. \A s \in segments' : Cardinality(s.docs) \in Nat
  <2>1. (\A s \in segments : Cardinality(s.docs) \in Nat)'
    BY SegmentSizes, PTL
  <2> QED BY <2>1
<1>2. MergePlans(segments') # {}
  <2> DEFINE segs == segments'
  <2>1. IsFiniteSet(segs) /\ Cardinality(segs) > MaxSegments
        /\ \A s \in segs : Cardinality(s.docs) \in Nat
    BY <1>1
  <2> HIDE DEF segs
  <2>2. MergePlans(segs) # {}
    BY <2>1, PlanExists
  <2> QED BY <2>2 DEF segs
<1> QED BY <1>2 DEF ScheduleMerge, MayMerge

BudgetInv == IsFiniteSet(segments) /\ OverBudgetIsMerging

LEMMA NextBudget == IInv /\ IInv' /\ OwnedInv /\ BudgetInv /\ [Next]_vars => BudgetInv'
<1> SUFFICES ASSUME IInv, IInv', OwnedInv, BudgetInv, [Next]_vars PROVE BudgetInv'
  OBVIOUS
<1>1. CASE FlushSucceeds
  <2>1. segments' = segments \cup {flushing} /\ ScheduleMerge(segments', mergeInProgress)
    BY <1>1 DEF FlushSucceeds
  <2>2. mergeInProgress \in BOOLEAN
    BY DEF IInv, TypeOK
  <2>3. IsFiniteSet(segments')
    BY <2>1, FS_AddElement DEF BudgetInv
  <2>4. Cardinality(segments') > MaxSegments => mergeInProgress'
    BY <2>1, <2>2, <2>3, ScheduledWhenOver
  <2> QED BY <2>3, <2>4 DEF BudgetInv, OverBudgetIsMerging
<1>2. CASE MergeSwap
  <2>1. /\ segments' = (segments \ mergeJob.plan) \cup {merged}
        /\ ScheduleMerge(segments', FALSE)
    BY <1>2 DEF MergeSwap
  <2>2. IsFiniteSet(segments')
    <3>1. IsFiniteSet(segments \ mergeJob.plan)
      BY FS_Difference DEF BudgetInv
    <3> QED BY <2>1, <3>1, FS_AddElement
  <2>3. Cardinality(segments') > MaxSegments => mergeInProgress'
    BY <2>1, <2>2, ScheduledWhenOver
  <2> QED BY <2>2, <2>3 DEF BudgetInv, OverBudgetIsMerging
<1>3. CASE UNCHANGED <<segments, mergeInProgress>>
  <2>1. closing' = "open" /\ failures' = 0 => closing = "open" /\ failures = 0
    BY StillCalm DEF IInv
  <2> QED BY <1>3, <2>1 DEF BudgetInv, OverBudgetIsMerging
<1>4. CASE MergeFails
  <2>1. ~(closing = "open" /\ failures = 0) /\ UNCHANGED <<segments, closing, failures>>
    BY <1>4 DEF MergeFails, OwnedInv
  <2> QED BY <2>1 DEF BudgetInv, OverBudgetIsMerging
<1>5. ASSUME Writer, ~FlushSucceeds PROVE UNCHANGED <<segments, mergeInProgress>>
  BY <1>5 DEF Writer, Add, Flush, FlushFails, Delete
<1>6. ASSUME Merger, ~MergeSwap, ~MergeFails PROVE UNCHANGED <<segments, mergeInProgress>>
  BY <1>6 DEF Merger, MergeStart, MergeRead, MergeBuilds, MergeBuildFails, MergeDelete, writeVars
<1>7. ASSUME CloseStart \/ CloseEnd \/ (\E r \in Readers : Reader(r)) \/ UNCHANGED vars
      PROVE  UNCHANGED <<segments, mergeInProgress>>
  BY <1>7 DEF CloseStart, CloseEnd, Reader, SearchCall, SearchSnapshot, SearchReturn, vars,
              writeVars
<1> QED BY <1>1, <1>2, <1>3, <1>4, <1>5, <1>6, <1>7 DEF Next

\* An index that starts within its budget never exceeds it, while nothing has
\* failed, without a merge on its way (index.py:113-117, 162-166).
THEOREM OverBudgetMerges ==
    ASSUME Cardinality(InitSegments) <= MaxSegments
    PROVE  Spec => []OverBudgetIsMerging
<1>1. Init => BudgetInv
  <2> SUFFICES ASSUME Init PROVE BudgetInv
    OBVIOUS
  <2>1. segments = InitSegments /\ IsFiniteSet(segments)
    BY InitSegmentsAssumption DEF Init
  <2>2. Cardinality(segments) \in Nat
    BY <2>1, FS_CardinalityType
  <2>3. ~(Cardinality(segments) > MaxSegments)
    BY <2>1, <2>2, ConstantsAssumption
  <2> QED BY <2>1, <2>3 DEF BudgetInv, OverBudgetIsMerging
<1>2. IInv /\ IInv' /\ OwnedInv /\ BudgetInv /\ [Next]_vars => BudgetInv'
  BY NextBudget
<1>3. Init => OwnedInv
  BY DEF Init, OwnedInv, InFlight, LockFree
<1>4. BudgetInv => OverBudgetIsMerging
  BY DEF BudgetInv
<1> QED BY <1>1, <1>2, <1>3, <1>4, NextOwned, Inductive, PTL DEF Spec
-----------------------------------------------------------------------------
(* The fan-out *)

Matching(S) == {d \in S : Score[d] > 0}
Better(S, d) == {e \in Matching(S) : Score[e] > Score[d]}

\* Scores are numbers, and no two documents of S that match have the same.
Scored(S) ==
    /\ \A d \in S : Score[d] \in Nat
    /\ \A d, e \in Matching(S) : Score[d] = Score[e] => d = e

LEMMA TopKMeans ==
    ASSUME NEW S, NEW k
    PROVE  TopK(S, k) = {d \in Matching(S) : Cardinality(Better(S, d)) < k}
BY DEF TopK, Matching, Better

LEMMA BetterFinite ==
    ASSUME NEW S, IsFiniteSet(S), NEW d
    PROVE  IsFiniteSet(Matching(S)) /\ IsFiniteSet(Better(S, d))
           /\ Cardinality(Better(S, d)) \in Nat /\ Cardinality(Matching(S)) \in Nat
<1>1. Matching(S) \in SUBSET S /\ Better(S, d) \in SUBSET S
  BY DEF Matching, Better
<1> QED BY <1>1, FS_Subset, FS_CardinalityType

\* With k matching documents or more, a top-k list is full.
LEMMA TopKFull ==
    ASSUME NEW S, IsFiniteSet(S), Scored(S), NEW k \in Nat, k <= Cardinality(Matching(S))
    PROVE  Cardinality(TopK(S, k)) = k
<1> DEFINE M == Matching(S)
           w == [d \in M |-> Score[d]]
           others == Cardinality(M) - k
<1>1. IsFiniteSet(M) /\ Cardinality(M) \in Nat
  BY BetterFinite
<1>2. others \in Nat /\ others <= Cardinality(M)
  BY <1>1
<1>3. \A d \in M : w[d] = Score[d] /\ w[d] \in Nat
  BY DEF Scored, Matching
<1>4. \A d, e \in M : Score[d] = Score[e] => d = e
  BY DEF Scored
<1>5. \A d \in M : Better(S, d) = {e \in M : Score[e] > Score[d]}
  BY DEF Better
<1>6. TopK(S, k) = {d \in M : Cardinality(Better(S, d)) < k}
  BY TopKMeans
<1> HIDE DEF M, w
<1>7. PICK Q \in SUBSET M : Smallest(Q, M, w, others)
  BY <1>1, <1>2, <1>3, SmallestExist
<1>8. IsFiniteSet(M \ Q) /\ Cardinality(M \ Q) = k
  <2>1. M \cap Q = Q
    OBVIOUS
  <2>2. Cardinality(Q) = Cardinality(M) - k
    BY <1>7 DEF Smallest
  <2>3. IsFiniteSet(M \ Q) /\ Cardinality(M \ Q) = Cardinality(M) - Cardinality(M \cap Q)
    BY <1>1, FS_Difference
  <2> QED BY <1>1, <2>1, <2>2, <2>3
<1>9. \A d \in M \ Q, e \in Q : Score[d] > Score[e]
  <2> SUFFICES ASSUME NEW d \in M \ Q, NEW e \in Q PROVE Score[d] > Score[e]
    OBVIOUS
  <2>1. Score[e] <= Score[d]
    BY <1>3, <1>7 DEF Smallest
  <2>2. Score[e] # Score[d]
    BY <1>4
  <2> QED BY <1>3, <2>1, <2>2
<1>10. ASSUME NEW d \in M \ Q PROVE Cardinality(Better(S, d)) < k
  <2>1. Better(S, d) \subseteq (M \ Q) \ {d}
    <3> SUFFICES ASSUME NEW e \in Better(S, d) PROVE e \in (M \ Q) \ {d}
      OBVIOUS
    <3>1. e \in M /\ Score[e] > Score[d] /\ Score[e] \in Nat /\ Score[d] \in Nat
      BY <1>3, <1>5
    <3>2. ~(Score[d] > Score[e])
      BY <3>1
    <3> QED BY <1>9, <3>1, <3>2
  <2>2. /\ IsFiniteSet((M \ Q) \ {d})
        /\ Cardinality((M \ Q) \ {d}) = Cardinality(M \ Q) - 1
    BY <1>8, FS_RemoveElement
  <2>3. Cardinality(Better(S, d)) <= Cardinality((M \ Q) \ {d})
    BY <2>1, <2>2, FS_Subset
  <2>4. Cardinality(Better(S, d)) \in Nat
    BY BetterFinite
  <2> QED BY <1>8, <2>2, <2>3, <2>4
<1>11. ASSUME NEW d \in Q PROVE ~(Cardinality(Better(S, d)) < k)
  <2>1. M \ Q \subseteq Better(S, d)
    BY <1>5, <1>9
  <2>2. Cardinality(M \ Q) <= Cardinality(Better(S, d))
    BY <2>1, BetterFinite, FS_Subset
  <2>3. Cardinality(Better(S, d)) \in Nat
    BY BetterFinite
  <2> QED BY <1>8, <2>2, <2>3
<1>12. TopK(S, k) = M \ Q
  BY <1>6, <1>7, <1>10, <1>11
<1> QED BY <1>8, <1>12

\* What is not in a top-k list is beaten by all of it, and it is full.
LEMMA OutsideTopK ==
    ASSUME NEW S, IsFiniteSet(S), Scored(S), NEW k \in Nat,
           NEW d \in Matching(S), d \notin TopK(S, k)
    PROVE  Cardinality(TopK(S, k)) = k /\ \A e \in TopK(S, k) : Score[e] > Score[d]
<1>1. /\ Cardinality(Better(S, d)) \in Nat /\ Cardinality(Matching(S)) \in Nat
      /\ IsFiniteSet(Matching(S))
  BY BetterFinite
<1>2. k <= Cardinality(Better(S, d))
  BY <1>1, TopKMeans
<1>3. Cardinality(Better(S, d)) <= Cardinality(Matching(S))
  <2>1. Better(S, d) \in SUBSET Matching(S)
    BY DEF Better
  <2> QED BY <1>1, <2>1, FS_Subset
<1>4. Cardinality(TopK(S, k)) = k
  BY <1>1, <1>2, <1>3, TopKFull
<1>5. ASSUME NEW e \in TopK(S, k), ~(Score[e] > Score[d]) PROVE FALSE
  <2>1. e \in Matching(S) /\ Cardinality(Better(S, e)) < k
    BY TopKMeans
  <2>2. Score[e] \in Nat /\ Score[d] \in Nat /\ \A f \in Matching(S) : Score[f] \in Nat
    BY <2>1 DEF Scored, Matching
  <2>3. Better(S, d) \subseteq Better(S, e)
    BY <1>5, <2>2 DEF Better
  <2>4. IsFiniteSet(Better(S, e)) /\ Cardinality(Better(S, e)) \in Nat
    BY BetterFinite
  <2>5. Cardinality(Better(S, d)) <= Cardinality(Better(S, e))
    BY <2>3, <2>4, FS_Subset
  <2> QED BY <1>1, <1>2, <2>1, <2>4, <2>5
<1> QED BY <1>4, <1>5

\* The documents a tombstone suppresses are no more than the tombstones, when
\* no external id is in the index twice.
LEMMA SuppressedFew ==
    ASSUME NEW S, NEW ext, NEW T, IsFiniteSet(T), \A d \in S : ext[d] \in T,
           \A d, e \in S : ext[d] = ext[e] => d = e
    PROVE  IsFiniteSet(S) /\ Cardinality(S) <= Cardinality(T)
<1> DEFINE f == [d \in S |-> ext[d]]
<1>1. f \in Injection(S, T)
  BY DEF Injection, IsInjective
<1> QED BY <1>1, FS_Injection

\* Every one of the best k live documents is among the hits its segment is
\* asked for: the over-fetch makes up for the tombstones (segment.py:76).
LEMMA OverFetchSuffices ==
    ASSUME NEW docs, IsFiniteSet(docs), NEW s \in SUBSET docs, NEW ext, NEW T, IsFiniteSet(T),
           \A d, e \in docs : ext[d] = ext[e] => d = e, NEW k \in Nat,
           NEW d \in s, d \in TopK({e \in docs : ext[e] \notin T}, k)
    PROVE  d \in TopK(s, OverFetch(k, T))
<1> DEFINE live == {e \in docs : ext[e] \notin T}
           ahead == {e \in Better(s, d) : ext[e] \notin T}
           dead == {e \in Better(s, d) : ext[e] \in T}
<1>1. d \in Matching(live) /\ Cardinality(Better(live, d)) < k
  BY TopKMeans
<1>2. d \in Matching(s)
  BY <1>1 DEF Matching
<1>3. IsFiniteSet(s) /\ IsFiniteSet(live)
  <2>1. live \in SUBSET docs
    OBVIOUS
  <2> HIDE DEF live
  <2> QED BY <2>1, FS_Subset
<1>4. /\ IsFiniteSet(Better(live, d)) /\ Cardinality(Better(live, d)) \in Nat
      /\ IsFiniteSet(Better(s, d)) /\ Cardinality(Better(s, d)) \in Nat
  BY <1>3, BetterFinite
<1>5. IsFiniteSet(ahead) /\ Cardinality(ahead) <= Cardinality(Better(live, d))
  <2>1. ahead \in SUBSET Better(live, d)
    BY DEF Better, Matching
  <2> HIDE DEF ahead, live
  <2> QED BY <1>4, <2>1, FS_Subset
<1>6. IsFiniteSet(dead) /\ Cardinality(dead) <= Cardinality(T)
  <2>1. \A e \in dead : ext[e] \in T /\ e \in docs
    BY DEF Better, Matching
  <2> HIDE DEF dead
  <2>2. \A e, f \in dead : ext[e] = ext[f] => e = f
    BY <2>1
  <2> QED BY <2>1, <2>2, SuppressedFew
<1>7. Better(s, d) = ahead \cup dead /\ ahead \cap dead = {}
  OBVIOUS
<1>8. Cardinality(Better(s, d)) = Cardinality(ahead) + Cardinality(dead)
  <2> HIDE DEF ahead, dead
  <2>1. Cardinality(ahead \cap dead) = 0
    BY <1>7, FS_EmptySet
  <2>2. Cardinality(ahead) \in Nat /\ Cardinality(dead) \in Nat
    BY <1>5, <1>6, FS_CardinalityType
  <2>3. Cardinality(ahead \cup dead)
           = Cardinality(ahead) + Cardinality(dead) - Cardinality(ahead \cap dead)
    BY <1>5, <1>6, FS_Union
  <2> QED BY <1>7, <2>1, <2>2, <2>3
<1>9. /\ Cardinality(T) \in Nat /\ Cardinality(ahead) \in Nat /\ Cardinality(dead) \in Nat
  BY <1>5, <1>6, FS_CardinalityType
<1>10. Cardinality(Better(s, d)) < OverFetch(k, T)
  <2> HIDE DEF ahead, dead, live
  <2>1. Cardinality(ahead) < k
    BY <1>1, <1>4, <1>5, <1>9 DEF live
  <2> QED BY <1>6, <1>8, <1>9, <2>1 DEF OverFetch
<1> QED BY <1>2, <1>10, TopKMeans

\* The fan-out with over-fetch, filter and merge returns what one search over
\* all documents that are not deleted would, for any division into segments,
\* any tombstones and any k - given that no external id is indexed twice
\* (segment.py:45-97).
THEOREM FanOutIsExact ==
    ASSUME NEW segs, IsFiniteSet(UNION segs), Scored(UNION segs),
           NEW ext, \A d, e \in UNION segs : ext[d] = ext[e] => d = e,
           NEW T, IsFiniteSet(T), NEW k \in Nat
    PROVE  SegmentSetSearch(segs, T, ext, k) = TopK({d \in UNION segs : ext[d] \notin T}, k)
<1> DEFINE docs == UNION segs
           live == {d \in docs : ext[d] \notin T}
           hits == UNION {TopK(s, OverFetch(k, T)) : s \in segs}
           kept == {d \in hits : ext[d] \notin T}
<1>1. SegmentSetSearch(segs, T, ext, k) = TopK(kept, k)
  BY DEF SegmentSetSearch, MergeHits
<1>2. kept \subseteq live
  <2>1. \A s \in segs : TopK(s, OverFetch(k, T)) \subseteq s
    BY TopKSubset
  <2> QED BY <2>1
<1>3. live \in SUBSET docs /\ kept \in SUBSET docs
  BY <1>2
<1>4. IsFiniteSet(live) /\ IsFiniteSet(kept)
  <2> HIDE DEF live, kept
  <2> QED BY <1>3, FS_Subset
<1>5. Scored(live)
  BY <1>3 DEF Scored, Matching
<1>6. TopK(live, k) \subseteq kept
  <2> SUFFICES ASSUME NEW d \in TopK(live, k) PROVE d \in kept
    OBVIOUS
  <2>1. d \in live
    BY TopKSubset
  <2>2. PICK s \in segs : d \in s
    BY <2>1
  <2>3. s \in SUBSET docs /\ d \in TopK({e \in docs : ext[e] \notin T}, k)
    OBVIOUS
  <2>4. d \in TopK(s, OverFetch(k, T))
    <3> HIDE DEF docs
    <3> QED BY <2>2, <2>3, OverFetchSuffices DEF docs
  <2> QED BY <2>1, <2>2, <2>4
<1> HIDE DEF live, kept
<1>7. Matching(kept) \subseteq Matching(live)
  BY <1>2 DEF Matching
<1>8. ASSUME NEW d \in TopK(live, k) PROVE d \in TopK(kept, k)
  <2>1. d \in Matching(live) /\ Cardinality(Better(live, d)) < k
    BY <1>8, TopKMeans
  <2>2. d \in Matching(kept)
    BY <1>6, <1>8, <2>1 DEF Matching
  <2>3. Better(kept, d) \in SUBSET Better(live, d)
    BY <1>7 DEF Better
  <2>4. IsFiniteSet(Better(live, d)) /\ Cardinality(Better(live, d)) \in Nat
        /\ Cardinality(Better(kept, d)) \in Nat
    BY <1>4, BetterFinite
  <2>5. Cardinality(Better(kept, d)) <= Cardinality(Better(live, d))
    BY <2>3, <2>4, FS_Subset
  <2> QED BY <2>1, <2>2, <2>4, <2>5, TopKMeans
<1>9. ASSUME NEW d \in TopK(kept, k), d \notin TopK(live, k) PROVE FALSE
  <2>1. d \in Matching(kept) /\ Cardinality(Better(kept, d)) < k
    BY <1>9, TopKMeans
  <2>2. d \in Matching(live)
    BY <1>7, <2>1
  <2>3. /\ Cardinality(TopK(live, k)) = k
        /\ \A e \in TopK(live, k) : Score[e] > Score[d]
    BY <1>4, <1>5, <1>9, <2>2, OutsideTopK
  <2>4. TopK(live, k) \in SUBSET Better(kept, d)
    <3>1. \A e \in TopK(live, k) : Score[e] > 0
      BY TopKMeans DEF Matching
    <3> QED BY <1>6, <2>3, <3>1 DEF Better, Matching
  <2>5. IsFiniteSet(Better(kept, d)) /\ Cardinality(Better(kept, d)) \in Nat
    BY <1>4, BetterFinite
  <2>6. k <= Cardinality(Better(kept, d))
    BY <2>3, <2>4, <2>5, FS_Subset
  <2> QED BY <2>1, <2>5, <2>6
<1>10. TopK(kept, k) = TopK(live, k)
  BY <1>8, <1>9
<1> QED BY <1>1, <1>10 DEF live
-----------------------------------------------------------------------------
(* Searches miss nothing *)

\* Callers add every external id once, the scores are distinct.
SearchAssumptions ==
    /\ ~ReAdd
    /\ \A d, e \in 1..Len(InitLog) : InitLog[d] = InitLog[e] => d = e
    /\ Len(InitLog) <= MaxDocs
    /\ Scored(1..MaxDocs)

LogInv ==
    /\ Len(log) <= MaxDocs
    /\ \A d, e \in 1..Len(log) : log[d] = log[e] => d = e
    /\ IsFiniteSet(tombstones)

Live(r) == {d \in DocsIn(snapshot[r].segments) : log[d] \notin snapshot[r].tombstones}

\* What a search copied has all that was visible at its call and was deleted
\* by nobody since; its answer is the best of that.
CompleteInv == \A r \in Readers :
    /\ readerPc[r] = "waiting" => called[r].docs \subseteq Visible
    /\ readerPc[r] \in {"searching", "done"} =>
          /\ called[r].docs \subseteq DocsIn(snapshot[r].segments)
          /\ DocsIn(snapshot[r].segments) \subseteq 1..Len(log)
          /\ snapshot[r].tombstones \subseteq tombstones
    /\ readerPc[r] = "done" => result[r] = TopK(Live(r), K)

LEMMA NextLog ==
    ASSUME SearchAssumptions, IInv, LogInv, [Next]_vars
    PROVE  /\ LogInv' /\ tombstones \subseteq tombstones'
           /\ 1..Len(log) \subseteq 1..Len(log') /\ \A d \in 1..Len(log) : log'[d] = log[d]
<1>1. log \in Seq(Ids) /\ Len(log) \in Nat
  BY DEF IInv, TypeOK
<1>2. ASSUME NEW id \in Ids, NEW due \in BOOLEAN, Add(id, due)
      PROVE  /\ LogInv' /\ tombstones \subseteq tombstones'
             /\ 1..Len(log) \subseteq 1..Len(log') /\ \A d \in 1..Len(log) : log'[d] = log[d]
  <2>1. /\ log' = Append(log, id) /\ Len(log) < MaxDocs /\ tombstones' = tombstones
        /\ \A d \in DOMAIN log : log[d] # id
    BY <1>2 DEF Add, SearchAssumptions
  <2>2. /\ Len(log') = Len(log) + 1 /\ log'[Len(log) + 1] = id
        /\ \A d \in 1..Len(log) : log'[d] = log[d] /\ log[d] # id
    BY <1>1, <2>1
  <2>3. Len(log') <= MaxDocs
    BY <1>1, <2>1, <2>2, ConstantsAssumption
  <2>4. \A d, e \in 1..Len(log') : log'[d] = log'[e] => d = e
    <3> SUFFICES ASSUME NEW d \in 1..(Len(log) + 1), NEW e \in 1..(Len(log) + 1),
                        log'[d] = log'[e]
                 PROVE  d = e
      BY <2>2
    <3>1. CASE d \in 1..Len(log) /\ e \in 1..Len(log)
      BY <2>2, <3>1 DEF LogInv
    <3>2. CASE d = Len(log) + 1 \/ e = Len(log) + 1
      BY <1>1, <2>2, <3>2
    <3> QED BY <1>1, <3>1, <3>2
  <2> QED BY <1>1, <2>1, <2>2, <2>3, <2>4 DEF LogInv
<1>3. ASSUME NEW id \in Ids, Delete(id)
      PROVE  LogInv' /\ log' = log /\ tombstones \subseteq tombstones'
  <2>1. log' = log /\ tombstones' = tombstones \cup {id}
    BY <1>3 DEF Delete
  <2>2. IsFiniteSet(tombstones')
    BY <2>1, FS_AddElement DEF LogInv
  <2> QED BY <2>1, <2>2 DEF LogInv
<1>4. CASE UNCHANGED <<log, tombstones>>
  BY <1>4 DEF LogInv
<1>5. ASSUME Writer, \A id \in Ids : ~Delete(id) /\ \A due \in BOOLEAN : ~Add(id, due)
      PROVE  UNCHANGED <<log, tombstones>>
  BY <1>5 DEF Writer, Flush, FlushSucceeds, FlushFails
<1>6. ASSUME Merger PROVE UNCHANGED <<log, tombstones>>
  BY <1>6 DEF Merger, MergeStart, MergeRead, MergeBuilds, MergeBuildFails, MergeFails, MergeSwap,
              MergeDelete, writeVars
<1>7. ASSUME CloseStart \/ CloseEnd \/ (\E r \in Readers : Reader(r)) \/ UNCHANGED vars
      PROVE  UNCHANGED <<log, tombstones>>
  BY <1>7 DEF CloseStart, CloseEnd, Reader, SearchCall, SearchSnapshot, SearchReturn, vars,
              writeVars
<1> QED BY <1>2, <1>3, <1>4, <1>5, <1>6, <1>7 DEF Next

\* Steps of others: what is visible, the log and the tombstones only grow.
LEMMA OthersComplete ==
    ASSUME IInv, CompleteInv, UNCHANGED readVars, Visible \subseteq Visible',
           tombstones \subseteq tombstones', 1..Len(log) \subseteq 1..Len(log'),
           \A d \in 1..Len(log) : log'[d] = log[d]
    PROVE  CompleteInv'
<1>1. ASSUME NEW r \in Readers, readerPc[r] = "done" PROVE Live(r)' = Live(r)
  <2>1. DocsIn(snapshot[r].segments) \subseteq 1..Len(log)
    BY <1>1 DEF CompleteInv
  <2> QED BY <2>1 DEF Live, readVars
<1> QED BY <1>1 DEF CompleteInv, readVars

LEMMA ReaderComplete ==
    ASSUME SearchAssumptions, IInv, LogInv, CompleteInv, NEW r \in Readers, Reader(r)
    PROVE  CompleteInv'
<1>0. UNCHANGED <<log, tombstones, segments>> /\ Visible' = Visible
  BY DEF Reader, SearchCall, SearchSnapshot, SearchReturn, writeVars, Visible
<1>t. /\ readerPc \in [Readers -> {"idle", "waiting", "searching", "done", "raised"}]
      /\ snapshot \in [Readers -> [segments : SUBSET Segment, tombstones : SUBSET Ids]]
      /\ called \in [Readers -> [docs : SUBSET Nat, deleted : SUBSET Ids]]
      /\ result \in [Readers -> SUBSET Nat]
  BY DEF IInv, TypeOK
<1>1. ASSUME NEW q \in Readers, q # r,
             readerPc'[q] = readerPc[q], snapshot'[q] = snapshot[q],
             called'[q] = called[q], result'[q] = result[q]
      PROVE  /\ readerPc'[q] = "waiting" => called'[q].docs \subseteq Visible'
             /\ readerPc'[q] \in {"searching", "done"} =>
                   /\ called'[q].docs \subseteq DocsIn(snapshot'[q].segments)
                   /\ DocsIn(snapshot'[q].segments) \subseteq 1..Len(log')
                   /\ snapshot'[q].tombstones \subseteq tombstones'
             /\ readerPc'[q] = "done" =>
                   result'[q] = TopK({d \in DocsIn(snapshot'[q].segments) :
                                         log'[d] \notin snapshot'[q].tombstones}, K)
  BY <1>0, <1>1 DEF CompleteInv, Live
<1>2. \A q \in Readers : q # r =>
        /\ readerPc'[q] = readerPc[q] /\ snapshot'[q] = snapshot[q]
        /\ called'[q] = called[q] /\ result'[q] = result[q]
  BY <1>t DEF Reader, SearchCall, SearchSnapshot, SearchReturn
<1>3. ASSUME /\ readerPc'[r] = "waiting" => called'[r].docs \subseteq Visible'
             /\ readerPc'[r] \in {"searching", "done"} =>
                   /\ called'[r].docs \subseteq DocsIn(snapshot'[r].segments)
                   /\ DocsIn(snapshot'[r].segments) \subseteq 1..Len(log')
                   /\ snapshot'[r].tombstones \subseteq tombstones'
             /\ readerPc'[r] = "done" =>
                   result'[r] = TopK({d \in DocsIn(snapshot'[r].segments) :
                                         log'[d] \notin snapshot'[r].tombstones}, K)
      PROVE  CompleteInv'
  BY <1>1, <1>2, <1>3 DEF CompleteInv, Live
<1>4. CASE SearchCall(r)
  <2>1. readerPc'[r] = "waiting" /\ called'[r].docs = Visible
    BY <1>t, <1>4 DEF SearchCall
  <2> QED BY <1>0, <1>3, <2>1
<1>5. CASE SearchSnapshot(r)
  <2>1. /\ readerPc[r] = "waiting" /\ readerPc'[r] = "searching" /\ called' = called
        /\ snapshot'[r].segments = segments /\ snapshot'[r].tombstones = tombstones
    BY <1>t, <1>5 DEF SearchSnapshot
  <2>2. called[r].docs \subseteq DocsIn(segments)
    BY <2>1 DEF CompleteInv, Visible
  <2>3. DocsIn(segments) \subseteq 1..Len(log)
    BY DEF IInv, DocsConserved, Visible
  <2> QED BY <1>0, <1>3, <2>1, <2>2, <2>3
<1>6. CASE SearchReturn(r)
  <2> DEFINE copied == {s.docs : s \in snapshot[r].segments}
             T == snapshot[r].tombstones
             found == SegmentSetSearch(copied, T, log, K)
  <2>1. /\ readerPc[r] = "searching" /\ UNCHANGED <<snapshot, called>>
        /\ \/ readerPc'[r] = "raised"
           \/ readerPc'[r] = "done" /\ result'[r] = found
    BY <1>t, <1>6 DEF SearchReturn
  <2>2. /\ called[r].docs \subseteq DocsIn(snapshot[r].segments)
        /\ DocsIn(snapshot[r].segments) \subseteq 1..Len(log) /\ T \subseteq tombstones
    BY <2>1 DEF CompleteInv
  <2>3. UNION copied = DocsIn(snapshot[r].segments)
    BY DEF DocsIn
  <2>4. IsFiniteSet(UNION copied) /\ IsFiniteSet(T)
    <3>1. Len(log) \in Nat /\ 1 \in Nat
      BY DEF IInv, TypeOK
    <3>2. IsFiniteSet(1..Len(log))
      BY <3>1, RangeSize
    <3> HIDE DEF copied, T
    <3> QED BY <2>2, <2>3, <3>2, FS_Subset DEF LogInv
  <2>5. Scored(UNION copied)
    <3>1. UNION copied \subseteq 1..MaxDocs
      <4>1. Len(log) \in Nat /\ MaxDocs \in Nat /\ Len(log) <= MaxDocs
        BY ConstantsAssumption DEF IInv, TypeOK, LogInv
      <4> HIDE DEF copied
      <4> QED BY <2>2, <2>3, <4>1
    <3> HIDE DEF copied
    <3> QED BY <3>1 DEF SearchAssumptions, Scored, Matching
  <2>6. \A d, e \in UNION copied : log[d] = log[e] => d = e
    <3> HIDE DEF copied
    <3> QED BY <2>2, <2>3 DEF LogInv
  <2>7. found = TopK({d \in UNION copied : log[d] \notin T}, K)
    <3> HIDE DEF copied, T
    <3>1. K \in Nat /\ IsFiniteSet(T) /\ IsFiniteSet(UNION copied)
      BY <2>4, ConstantsAssumption
    <3>2. SegmentSetSearch(copied, T, log, K) = TopK({d \in UNION copied : log[d] \notin T}, K)
      BY <3>1, <2>5, <2>6, FanOutIsExact
    <3> QED BY <3>2 DEF found
  <2>8. found = TopK({d \in DocsIn(snapshot[r].segments) : log[d] \notin T}, K)
    <3> HIDE DEF copied, found
    <3> QED BY <2>3, <2>7
  <2> HIDE DEF found
  <2> QED BY <1>0, <1>3, <2>1, <2>2, <2>8
<1> QED BY <1>4, <1>5, <1>6 DEF Reader

LEMMA NextComplete ==
    SearchAssumptions /\ IInv /\ LogInv /\ CompleteInv /\ [Next]_vars => CompleteInv'
<1> SUFFICES ASSUME SearchAssumptions, IInv, LogInv, CompleteInv, [Next]_vars
             PROVE  CompleteInv'
  OBVIOUS
<1>1. ASSUME UNCHANGED readVars PROVE CompleteInv'
  BY <1>1, NextLog, VisibleStep, OthersComplete
<1>2. ASSUME NEW r \in Readers, Reader(r) PROVE CompleteInv'
  BY <1>2, ReaderComplete
<1>3. ASSUME Writer \/ Merger \/ CloseStart \/ CloseEnd \/ UNCHANGED vars
      PROVE  UNCHANGED readVars
  BY <1>3 DEF Writer, Add, Flush, FlushSucceeds, FlushFails, Delete, Merger, MergeStart,
              MergeRead, MergeBuilds, MergeBuildFails, MergeFails, MergeSwap, MergeDelete,
              CloseStart, CloseEnd, vars
<1> QED BY <1>1, <1>2, <1>3 DEF Next

\* A finished search has returned every document that was visible at its call,
\* matches and is still not deleted, or K better ones - whatever flushes,
\* merges and deletions came in between (index.py:173-182, segment.py:45-97).
THEOREM SearchesComplete ==
    ASSUME SearchAssumptions
    PROVE  Spec => []SearchComplete
<1>1. Init => LogInv /\ CompleteInv
  BY FS_EmptySet DEF Init, LogInv, CompleteInv, SearchAssumptions
<1>2. IInv /\ LogInv /\ [Next]_vars => LogInv'
  BY NextLog
<1>3. IInv /\ LogInv /\ CompleteInv /\ [Next]_vars => CompleteInv'
  BY NextComplete
<1>4. IInv /\ LogInv /\ CompleteInv => SearchComplete
  <2> SUFFICES ASSUME IInv, LogInv, CompleteInv, NEW r \in Readers, readerPc[r] = "done",
                      NEW d \in called[r].docs \ result[r], Score[d] > 0,
                      log[d] \notin tombstones
               PROVE  /\ Cardinality(result[r]) = K
                      /\ \A e \in result[r] : Score[e] > Score[d]
    BY DEF SearchComplete
  <2>1. /\ called[r].docs \subseteq DocsIn(snapshot[r].segments)
        /\ DocsIn(snapshot[r].segments) \subseteq 1..Len(log)
        /\ snapshot[r].tombstones \subseteq tombstones
        /\ result[r] = TopK(Live(r), K)
    BY DEF CompleteInv
  <2>2. Live(r) \in SUBSET (1..Len(log)) /\ d \in Matching(Live(r))
    BY <2>1 DEF Live, Matching
  <2>3. IsFiniteSet(Live(r))
    <3>1. Len(log) \in Nat /\ 1 \in Nat
      BY DEF IInv, TypeOK
    <3>2. IsFiniteSet(1..Len(log))
      BY <3>1, RangeSize
    <3> QED BY <2>2, <3>2, FS_Subset
  <2>4. Scored(Live(r))
    <3>1. Len(log) \in Nat /\ MaxDocs \in Nat /\ Len(log) <= MaxDocs
      BY ConstantsAssumption DEF IInv, TypeOK, LogInv
    <3>2. Live(r) \subseteq 1..MaxDocs
      BY <2>2, <3>1
    <3> QED BY <3>2 DEF SearchAssumptions, Scored, Matching
  <2>5. d \notin TopK(Live(r), K)
    BY <2>1
  <2> QED BY <2>1, <2>2, <2>3, <2>4, <2>5, OutsideTopK, ConstantsAssumption
<1> QED BY <1>1, <1>2, <1>3, <1>4, Inductive, PTL DEF Spec
=============================================================================
