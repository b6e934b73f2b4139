------------------------- MODULE ShardedExperiment -------------------------
(***************************************************************************)
(* The measurement scripts of src/py/server and src/py/nrt that work on a  *)
(* sharded corpus: hedging.py, tail_latency.py, throughput_knee.py,        *)
(* cache_sensitivity.py and segment_sweep.py, with what they stand on:     *)
(* partition_corpus.py, build_shards.py and the write order of the index   *)
(* builder, shard_cluster.py, process.py and client.py.                    *)
(*                                                                         *)
(* A script goes through phases.  A phase splits the corpus, builds one    *)
(* index per shard, starts one or two clusters of server processes,        *)
(* measures, and stops them.  What is on disk is reused by the next run of *)
(* the script; a crash (the host, or an interrupt of the process group)    *)
(* leaves the disk as it is and no process alive.                          *)
(***************************************************************************)
EXTENDS Naturals, Sequences, FiniteSets

CONSTANTS
    N,           \* number of shards of a sharded phase
    MaxReruns    \* bound on how often a script is started again

ASSUME ExperimentAssumption == N \in Nat \ {0, 1} /\ MaxReruns \in Nat

\* What a phase needs: n shards, made by the script or built beforehand (one
\* index), and the clusters it enters, the inner one last.
Phase(n, made, clusters) == [n |-> n, made |-> made, clusters |-> clusters]
One == Phase(1, FALSE, <<"primary">>)
Sharded == Phase(N, TRUE, <<"primary">>)

\* Warm-up, baseline, hedged.
HedgingPlan == <<Sharded, Sharded, Phase(N, TRUE, <<"primary", "replica">>)>>

\* The unsharded index, then n shards of the same corpus.
TailLatencyPlan == <<One, Sharded>>

\* A fresh server per point, on one index.
ThroughputKneePlan == <<One, One>>
CacheSensitivityPlan == <<One, One>>

\* Segments of a fixed slice of the corpus, searched in process.
SegmentSweepPlan == <<Phase(1, TRUE, <<>>), Phase(N, TRUE, <<>>)>>

Plan == [hedging |-> HedgingPlan, tail_latency |-> TailLatencyPlan,
         throughput_knee |-> ThroughputKneePlan,
         cache_sensitivity |-> CacheSensitivityPlan,
         segment_sweep |-> SegmentSweepPlan]

Scripts == DOMAIN Plan
Sizes == {1, N}
Shards == {s \in Sizes \X (1..N) : s[2] <= s[1]}

\* A server process: the phase that starts it, its cluster, its shard.  The
\* port depends on the last two only.
Servers == (1..3) \X {"primary", "replica"} \X (1..N)

VARIABLES
    script,
    phase,     \* the phase it is in
    step,      \* "slice", "partition", "build", "start", "measure", "stop";
               \* or how it ended: "finished", "raised", "crashed"
    cursor,    \* the shard that is written or built next
    writing,   \* the file open for writing: "none", "slice", "tsv", "index", "terms"
    slice,     \* the fixed slice: "absent", "partial", "whole"
    tsv,       \* per shard, its file: "absent", "partial", "short" or "whole"
    index,     \* per shard, its index: "absent", "started" before index.terms,
               \* "torn" while it is written; "short" if made from less than
               \* the whole shard, or "whole"
    proc,      \* per server: "off", "loading", "serving"
    enter,     \* per server, its __enter__: "none", "waiting", "ok", "ending", "failed"
    up,        \* how many clusters of the phase have been entered
    failing,   \* an exception is on its way out of the script
    struck,    \* shards whose file or index.terms a crash caught half written
               \* where the next run cannot tell
    reruns

diskVars == <<slice, tsv, index>>
writerVars == <<cursor, writing>>
serverVars == <<proc, enter, up>>
controlVars == <<script, phase, step, failing, struck, reruns>>
vars == <<controlVars, writerVars, diskVars, serverVars>>

This == Plan[script][phase]
Count == This.n
Shard == <<Count, cursor>>

\* A phase reuses the shards of the one before; n = 1 was built beforehand
\* where the script does not make it.
Prepares(p) ==
    /\ Plan[script][p].made
    /\ p = 1 \/ Plan[script][p - 1].n # Plan[script][p].n

FirstStep(p) ==
    IF ~Prepares(p) THEN "start"
    ELSE IF p = 1 /\ script = "segment_sweep" THEN "slice" ELSE "partition"
-----------------------------------------------------------------------------
(* The fixed slice of segment_sweep.py *)

SkipSlice ==
    /\ step = "slice" /\ writing = "none" /\ slice # "absent"
    /\ step' = "partition"
    /\ UNCHANGED <<script, phase, failing, struck, reruns, writerVars, diskVars, serverVars>>

OpenSlice ==
    /\ step = "slice" /\ writing = "none" /\ slice = "absent"
    /\ slice' = "partial" /\ writing' = "slice"
    /\ UNCHANGED <<controlVars, cursor, tsv, index, serverVars>>

CloseSlice ==
    /\ writing = "slice"
    /\ slice' = "whole" /\ writing' = "none"
    /\ step' = "partition"
    /\ UNCHANGED <<script, phase, failing, struck, reruns, cursor, tsv, index, serverVars>>
-----------------------------------------------------------------------------
(* partition() *)

BugAllShardsExist == \E i \in 1..Count : tsv[<<Count, i>>] # "absent"

AllShardsExist == \A i \in 1..Count : tsv[<<Count, i>>] # "absent"

SkipPartition ==
    /\ step = "partition" /\ writing = "none" /\ cursor = 1 /\ AllShardsExist
    /\ step' = "build"
    /\ UNCHANGED <<script, phase, failing, struck, reruns, writerVars, diskVars, serverVars>>

\* write_text: the file is created or truncated, then filled.
OpenShard ==
    /\ step = "partition" /\ writing = "none"
    /\ ~(cursor = 1 /\ AllShardsExist)
    /\ tsv' = [tsv EXCEPT ![Shard] = "partial"]
    /\ writing' = "tsv"
    /\ UNCHANGED <<controlVars, cursor, slice, index, serverVars>>

CloseShard ==
    /\ writing = "tsv"
    /\ tsv' = [tsv EXCEPT ![Shard] =
                  IF script = "segment_sweep" /\ slice = "partial" THEN "short" ELSE "whole"]
    /\ writing' = "none"
    /\ cursor' = IF cursor = Count THEN 1 ELSE cursor + 1
    /\ step' = IF cursor = Count THEN "build" ELSE step
    /\ UNCHANGED <<script, phase, failing, struck, reruns, slice, index, serverVars>>
-----------------------------------------------------------------------------
(* build_shards(), and the builder it runs *)

IsBuilt(s) == index[s] \in {"torn", "short", "whole"}

NextShard ==
    /\ cursor' = IF cursor = Count THEN 1 ELSE cursor + 1
    /\ step' = IF cursor = Count THEN "start" ELSE step

\* build_index was never made: build_shards() looks before it looks at a shard.
NoBuilder ==
    /\ step = "build" /\ writing = "none" /\ cursor = 1
    /\ step' = "raised"
    /\ UNCHANGED <<script, phase, failing, struck, reruns, writerVars, diskVars, serverVars>>

SkipBuild ==
    /\ step = "build" /\ writing = "none" /\ IsBuilt(Shard)
    /\ NextShard
    /\ UNCHANGED <<script, phase, failing, struck, reruns, writing, diskVars, serverVars>>

\* index.docs, index.docids and index.post are written in place.
StartBuild ==
    /\ step = "build" /\ writing = "none" /\ ~IsBuilt(Shard)
    /\ index' = [index EXCEPT ![Shard] = "started"]
    /\ writing' = "index"
    /\ UNCHANGED <<controlVars, cursor, slice, tsv, serverVars>>

OpenTerms ==
    /\ writing = "index"
    /\ index' = [index EXCEPT ![Shard] = "torn"]
    /\ writing' = "terms"
    /\ UNCHANGED <<controlVars, cursor, slice, tsv, serverVars>>

FinishBuild ==
    /\ writing = "terms"
    /\ index' = [index EXCEPT ![Shard] = IF tsv[Shard] = "whole" THEN "whole" ELSE "short"]
    /\ writing' = "none"
    /\ NextShard
    /\ UNCHANGED <<script, phase, failing, struck, reruns, slice, tsv, serverVars>>

\* The builder exits with an error: check=True raises.
BuildFails ==
    /\ writing = "index"
    /\ writing' = "none"
    /\ step' = "raised"
    /\ UNCHANGED <<script, phase, failing, struck, reruns, cursor, diskVars, serverVars>>
-----------------------------------------------------------------------------
(* ServerProcess *)

\* The servers of the k-th cluster of the phase.
Cluster(k) == {s \in Servers : s[1] = phase /\ s[2] = This.clusters[k] /\ s[3] <= Count}
Entering == up + 1
InStart(s) == step = "start" /\ up < Len(This.clusters) /\ s \in Cluster(Entering)

Popen(s) ==
    /\ InStart(s) /\ enter[s] = "none"
    /\ proc' = [proc EXCEPT ![s] = "loading"]
    /\ enter' = [enter EXCEPT ![s] = "waiting"]
    /\ UNCHANGED <<controlVars, writerVars, diskVars, up>>

Listen(s) ==
    /\ proc[s] = "loading"
    /\ proc' = [proc EXCEPT ![s] = "serving"]
    /\ UNCHANGED <<controlVars, writerVars, diskVars, enter, up>>

\* The index does not load, or the port is taken.
Die(s) ==
    /\ proc[s] = "loading"
    /\ proc' = [proc EXCEPT ![s] = "off"]
    /\ UNCHANGED <<controlVars, writerVars, diskVars, enter, up>>

\* The channel is ready: something listens on the port.
Ready(s) ==
    /\ enter[s] = "waiting"
    /\ \E q \in Servers : q[2] = s[2] /\ q[3] = s[3] /\ proc[q] = "serving"
    /\ enter' = [enter EXCEPT ![s] = "ok"]
    /\ UNCHANGED <<controlVars, writerVars, diskVars, proc, up>>

BugTimeOut(s) ==
    /\ enter[s] = "waiting" /\ proc[s] # "off"
    /\ enter' = [enter EXCEPT ![s] = "ending"]
    /\ UNCHANGED <<controlVars, writerVars, diskVars, proc, up>>

TimeOut(s) ==
    /\ enter[s] = "waiting"
    /\ enter' = [enter EXCEPT ![s] = "ending"]
    /\ UNCHANGED <<controlVars, writerVars, diskVars, proc, up>>

\* terminate() without wait().
BugReap(s) ==
    /\ enter[s] = "ending"
    /\ enter' = [enter EXCEPT ![s] = IF step = "start" THEN "failed" ELSE "none"]
    /\ UNCHANGED <<controlVars, writerVars, diskVars, proc, up>>

\* __exit__ has terminated the process, or killed it after five seconds, and
\* waited for it.
Reap(s) ==
    /\ enter[s] = "ending"
    /\ proc' = [proc EXCEPT ![s] = "off"]
    /\ enter' = [enter EXCEPT ![s] = IF step = "start" THEN "failed" ELSE "none"]
    /\ UNCHANGED <<controlVars, writerVars, diskVars, up>>
-----------------------------------------------------------------------------
(* ShardCluster *)

Joined(k) == \A s \in Cluster(k) : enter[s] \in {"ok", "failed"}

ClusterUp ==
    /\ step = "start" /\ up < Len(This.clusters) /\ Joined(Entering)
    /\ \A s \in Cluster(Entering) : enter[s] = "ok"
    /\ up' = up + 1
    /\ UNCHANGED <<controlVars, writerVars, diskVars, proc, enter>>

\* Without the tear-down: the cluster forgets the servers that started.
BugClusterFails ==
    /\ step = "start" /\ up < Len(This.clusters) /\ Joined(Entering)
    /\ \E s \in Cluster(Entering) : enter[s] = "failed"
    /\ step' = "stop" /\ failing' = TRUE
    /\ enter' = [s \in Servers |-> IF s \in Cluster(Entering) THEN "none" ELSE enter[s]]
    /\ UNCHANGED <<script, phase, struck, reruns, writerVars, diskVars, proc, up>>

\* One server failed; all threads are joined.  Those that started are stopped
\* and the exception leaves through the clusters entered before.
ClusterFails ==
    /\ step = "start" /\ up < Len(This.clusters) /\ Joined(Entering)
    /\ \E s \in Cluster(Entering) : enter[s] = "failed"
    /\ step' = "stop" /\ failing' = TRUE
    /\ UNCHANGED <<script, phase, struck, reruns, writerVars, diskVars, serverVars>>

\* All clusters are up (segment_sweep has none): the clients connect and the
\* open-loop run begins.
BeginMeasure ==
    /\ step = "start" /\ up = Len(This.clusters)
    /\ step' = "measure"
    /\ UNCHANGED <<script, phase, failing, struck, reruns, writerVars, diskVars, serverVars>>

\* The repeats are over and the broker is closed; or a client does not
\* connect in time, or there is no sample to take a percentile of.
EndMeasure(raises) ==
    /\ step = "measure"
    /\ step' = "stop" /\ failing' = raises
    /\ UNCHANGED <<script, phase, struck, reruns, writerVars, diskVars, serverVars>>

\* Innermost first.
Terminate(s) ==
    /\ step = "stop" /\ enter[s] = "ok"
    /\ s[2] = "primary" => \A q \in Servers : q[2] = "replica" => enter[q] \notin {"ok", "ending"}
    /\ enter' = [enter EXCEPT ![s] = "ending"]
    /\ UNCHANGED <<controlVars, writerVars, diskVars, proc, up>>

Stopped == \A s \in Servers : enter[s] \in {"none", "failed"}

\* The with-statement is left: the next phase, the result file, or the
\* exception.
PhaseOver ==
    /\ step = "stop" /\ Stopped
    /\ enter' = [s \in Servers |-> "none"] /\ up' = 0
    /\ LET last == phase = Len(Plan[script])
       IN  /\ phase' = IF failing \/ last THEN phase ELSE phase + 1
           /\ step' = IF failing THEN "raised"
                      ELSE IF last THEN "finished" ELSE FirstStep(phase + 1)
    /\ UNCHANGED <<script, failing, struck, reruns, writerVars, diskVars, proc>>
-----------------------------------------------------------------------------
(* Crash and rerun *)

Working == step \notin {"finished", "raised", "crashed"}

\* The shards of which the next run will take a half-written file for a whole
\* one: every file of partition() exists, or index.terms does, or the slice.
Undetected ==
    CASE writing = "slice" -> Shards
      [] writing = "tsv" /\ AllShardsExist -> {Shard}
      [] writing = "terms" -> {Shard}
      [] OTHER -> {}

Crash ==
    /\ Working
    /\ step' = "crashed"
    /\ struck' = struck \cup Undetected
    /\ writing' = "none"
    /\ proc' = [s \in Servers |-> "off"]
    /\ enter' = [s \in Servers |-> "none"]
    /\ up' = 0
    /\ UNCHANGED <<script, phase, failing, reruns, cursor, diskVars>>

Rerun ==
    /\ step \in {"raised", "crashed"} /\ reruns < MaxReruns
    /\ reruns' = reruns + 1
    /\ phase' = 1 /\ cursor' = 1 /\ failing' = FALSE
    /\ step' = FirstStep(1)
    /\ UNCHANGED <<script, struck, writing, diskVars, serverVars>>
-----------------------------------------------------------------------------
Init ==
    /\ script \in Scripts
    /\ phase = 1 /\ cursor = 1 /\ writing = "none" /\ failing = FALSE
    /\ step = FirstStep(1)
    /\ slice = "absent"
    /\ tsv = [s \in Shards |-> "absent"]
    /\ index = [s \in Shards |->
                   IF s[1] = 1 /\ ~\E p \in DOMAIN Plan[script] : Plan[script][p].n = 1
                                                                 /\ Plan[script][p].made
                   THEN "whole" ELSE "absent"]
    /\ proc = [s \in Servers |-> "off"]
    /\ enter = [s \in Servers |-> "none"]
    /\ up = 0
    /\ struck = {}
    /\ reruns = 0

Disk ==
    \/ SkipSlice \/ OpenSlice \/ CloseSlice
    \/ SkipPartition \/ OpenShard \/ CloseShard
    \/ NoBuilder \/ SkipBuild \/ StartBuild \/ OpenTerms \/ FinishBuild \/ BuildFails
Phases == ClusterUp \/ ClusterFails \/ BeginMeasure \/ (\E b \in BOOLEAN : EndMeasure(b)) \/ PhaseOver
Server(s) == Popen(s) \/ Listen(s) \/ Die(s) \/ Ready(s) \/ TimeOut(s) \/ Reap(s) \/ Terminate(s)

Next == Disk \/ Phases \/ (\E s \in Servers : Server(s)) \/ Crash \/ Rerun

Spec == Init /\ [][Next]_vars

\* The script and the processes run; waits have timeouts.
FairSpec ==
    /\ Spec
    /\ WF_vars(Disk) /\ WF_vars(Phases)
    /\ \A s \in Servers : WF_vars(Server(s))
-----------------------------------------------------------------------------
TypeOK ==
    /\ script \in Scripts /\ phase \in DOMAIN Plan[script]
    /\ step \in {"slice", "partition", "build", "start", "measure", "stop",
                 "finished", "raised", "crashed"}
    /\ cursor \in 1..N /\ writing \in {"none", "slice", "tsv", "index", "terms"}
    /\ slice \in {"absent", "partial", "whole"}
    /\ tsv \in [Shards -> {"absent", "partial", "short", "whole"}]
    /\ index \in [Shards -> {"absent", "started", "torn", "short", "whole"}]
    /\ proc \in [Servers -> {"off", "loading", "serving"}]
    /\ enter \in [Servers -> {"none", "waiting", "ok", "ending", "failed"}]
    /\ up \in 0..2 /\ failing \in BOOLEAN /\ struck \subseteq Shards
    /\ reruns \in 0..MaxReruns
-----------------------------------------------------------------------------
(* Safety *)

Live == {s \in Servers : proc[s] # "off"}

\* However a script ends, none of its servers outlives it: one that failed
\* among several started at once takes the others with it, and the clusters
\* entered before (shard_cluster.py:33-47, process.py:53-73).
NoStrayServers == ~Working => Live = {}

\* A measurement talks to the servers of its own phase: every port is
\* answered by one live process, of this phase, although phases share ports
\* and readiness only says that something listens
\* (hedging.py:86-113, process.py:54).
OwnServersAnswer ==
    step = "measure" =>
        /\ Live = UNION {Cluster(k) : k \in DOMAIN This.clusters}
        /\ \A s \in Live : proc[s] = "serving"

\* Whatever was interrupted before, a measurement runs on complete indexes of
\* complete shards, but for the shards a crash struck where the exists()
\* checks are blind: in the last shard file, in index.terms, in the slice
\* (partition_corpus.py:29, build_shards.py:24).
ResumedWhole ==
    step = "measure" =>
        \A i \in 1..Count : <<Count, i>> \in struck \/ index[<<Count, i>>] = "whole"
-----------------------------------------------------------------------------
(* Liveness *)

\* A script that is not interrupted ends: every server is ready or times out,
\* and every process that is told to stop is waited for until it has.
ScriptEnds == Working ~> ~Working
=============================================================================
