---------------------- MODULE ShardedExperimentProofs ----------------------
(***************************************************************************)
(* Proofs about ShardedExperiment, for any number of shards and reruns.    *)
(***************************************************************************)
EXTENDS ShardedExperiment, TLAPS

(* What the plans have in common *)

LEMMA TupleFacts ==
    ASSUME NEW x, NEW y, NEW z
    PROVE  /\ Len(<<x, y>>) = 2 /\ DOMAIN <<x, y>> = 1..2
           /\ \A p \in 1..2 : <<x, y>>[p] = x \/ <<x, y>>[p] = y
           /\ Len(<<x, y, z>>) = 3 /\ DOMAIN <<x, y, z>> = 1..3
           /\ \A p \in 1..3 : <<x, y, z>>[p] = x \/ <<x, y, z>>[p] = y \/ <<x, y, z>>[p] = z
<1>1. \A p \in 1..2 : p = 1 \/ p = 2
  OBVIOUS
<1>2. \A p \in 1..3 : p = 1 \/ p = 2 \/ p = 3
  OBVIOUS
<1> QED
  BY <1>1, <1>2

\* A phase that does not make its shards needs one that was built beforehand,
\* and a script that has such a phase never makes a single shard itself.
LEMMA PlanFacts ==
    ASSUME NEW sc \in Scripts
    PROVE  /\ Len(Plan[sc]) \in 1..3 /\ DOMAIN Plan[sc] = 1..Len(Plan[sc])
           /\ \A p \in DOMAIN Plan[sc] :
                /\ Plan[sc][p].n \in Sizes
                /\ Plan[sc][p].made \in BOOLEAN
                /\ Plan[sc][p].clusters \in {<<>>, <<"primary">>, <<"primary", "replica">>}
                /\ ~Plan[sc][p].made => Plan[sc][p].n = 1
                /\ \A q \in DOMAIN Plan[sc] :
                      ~Plan[sc][p].made /\ Plan[sc][q].made => Plan[sc][q].n = N
<1> DEFINE Fits(ph) ==
             /\ ph.n \in Sizes /\ ph.made \in BOOLEAN
             /\ ph.clusters \in {<<>>, <<"primary">>, <<"primary", "replica">>}
             /\ ~ph.made => ph.n = 1
           Agree(ph, other) == ~ph.made /\ other.made => other.n = N
           Both == Phase(N, TRUE, <<"primary", "replica">>)
           Whole == Phase(1, TRUE, <<>>)
           Parts == Phase(N, TRUE, <<>>)
<1>1. Fits(Sharded) /\ Fits(One) /\ Fits(Both) /\ Fits(Whole) /\ Fits(Parts)
  BY DEF Sharded, One, Phase, Sizes
<1>2. /\ \A ph : Agree(Sharded, ph) /\ Agree(Both, ph) /\ Agree(Whole, ph) /\ Agree(Parts, ph)
      /\ Agree(One, One) /\ Agree(One, Sharded)
  BY DEF Sharded, One, Phase
<1> HIDE DEF Fits, Agree, Both, Whole, Parts
<1> DEFINE AllFit(plan) ==
             /\ Len(plan) \in 1..3 /\ DOMAIN plan = 1..Len(plan)
             /\ \A p \in DOMAIN plan : Fits(plan[p]) /\ \A q \in DOMAIN plan : Agree(plan[p], plan[q])
<1>3. AllFit(HedgingPlan)
  <2>1. HedgingPlan = <<Sharded, Sharded, Both>>
    BY DEF HedgingPlan, Both
  <2>2. /\ Len(HedgingPlan) = 3 /\ DOMAIN HedgingPlan = 1..3
        /\ \A p \in 1..3 : HedgingPlan[p] = Sharded \/ HedgingPlan[p] = Both
    BY <2>1, TupleFacts
  <2> QED
    BY <1>1, <1>2, <2>2
<1>4. AllFit(TailLatencyPlan)
  <2>1. /\ Len(TailLatencyPlan) = 2 /\ DOMAIN TailLatencyPlan = 1..2
        /\ \A p \in 1..2 : TailLatencyPlan[p] = One \/ TailLatencyPlan[p] = Sharded
    BY TupleFacts DEF TailLatencyPlan
  <2> QED
    BY <1>1, <1>2, <2>1
<1>5. AllFit(ThroughputKneePlan) /\ AllFit(CacheSensitivityPlan)
  <2>1. /\ Len(<<One, One>>) = 2 /\ DOMAIN <<One, One>> = 1..2
        /\ \A p \in 1..2 : <<One, One>>[p] = One
    BY TupleFacts
  <2>2. AllFit(<<One, One>>)
    BY <1>1, <1>2, <2>1
  <2> QED
    BY <2>2 DEF ThroughputKneePlan, CacheSensitivityPlan
<1>6. AllFit(SegmentSweepPlan)
  <2>1. SegmentSweepPlan = <<Whole, Parts>>
    BY DEF SegmentSweepPlan, Whole, Parts
  <2>2. /\ Len(SegmentSweepPlan) = 2 /\ DOMAIN SegmentSweepPlan = 1..2
        /\ \A p \in 1..2 : SegmentSweepPlan[p] = Whole \/ SegmentSweepPlan[p] = Parts
    BY <2>1, TupleFacts
  <2> QED
    BY <1>1, <1>2, <2>2
<1> HIDE DEF AllFit
<1>7. AllFit(Plan[sc])
  BY <1>3, <1>4, <1>5, <1>6 DEF Scripts, Plan
<1> QED
  BY <1>7 DEF AllFit, Fits, Agree

\* A shard is known by its two numbers, a server by its three.
LEMMA ShardFacts ==
    /\ \A s \in Shards : s = <<s[1], s[2]>> /\ s[1] \in Sizes /\ s[2] \in 1..N /\ s[2] <= s[1]
    /\ \A n \in Sizes : \A i \in 1..n : /\ <<n, i>> \in Shards
                                        /\ <<n, i>>[1] = n /\ <<n, i>>[2] = i
BY ExperimentAssumption DEF Shards, Sizes

LEMMA ServerFacts ==
    \A s, q \in Servers : s[1] = q[1] /\ s[2] = q[2] /\ s[3] = q[3] => s = q
BY DEF Servers
-----------------------------------------------------------------------------
(* The inductive invariant *)

\* What is written belongs to the step; the cursor walks the shards only while
\* they are partitioned or built, in phases that make them.
Control ==
    /\ writing = "slice" => step = "slice"
    /\ writing = "tsv" => step = "partition"
    /\ writing \in {"index", "terms"} => step = "build"
    /\ step \in {"partition", "build"} => cursor \in 1..Count
    /\ step \in {"slice", "start", "measure", "stop"} => cursor = 1
    /\ step \in {"slice", "partition", "build"} => This.made

\* A live server is one that somebody is entering, has entered or is stopping,
\* of this phase; those of the clusters entered are up.
Processes ==
    /\ \A s \in Servers :
          /\ proc[s] # "off" => enter[s] \in {"waiting", "ok", "ending"}
          /\ enter[s] = "ok" => proc[s] = "serving"
          /\ enter[s] # "none" => \E k \in 1..Len(This.clusters) : k <= up + 1 /\ s \in Cluster(k)
    /\ step \in {"start", "measure"} =>
          \A k \in 1..up : \A s \in Cluster(k) : enter[s] = "ok"
    /\ up <= Len(This.clusters)
    /\ step = "measure" => up = Len(This.clusters)
    /\ step \notin {"start", "measure", "stop"} =>
          up = 0 /\ \A s \in Servers : enter[s] = "none"

Good(s) == s \in struck \/ index[s] = "whole"

\* Files that are not whole are being written, or a crash is remembered, or the
\* partition they belong to lacks a later file, which will have it redone.
Slices == slice = "partial" => writing = "slice" \/ Shards \subseteq struck
Texts ==
    \A s \in Shards :
        /\ tsv[s] = "short" => s \in struck
        /\ tsv[s] = "partial" =>
              \/ s \in struck \/ (writing = "tsv" /\ s = Shard)
              \/ \E t \in Shards : t[1] = s[1] /\ t[2] > s[2] /\ tsv[t] = "absent"
Partitioned ==
    /\ step = "partition" =>
          \A s \in Shards : s[1] = Count /\ s[2] < cursor =>
              tsv[s] # "absent" /\ (s \in struck \/ tsv[s] = "whole")
    /\ step = "build" =>
          \A s \in Shards : s[1] = Count => s \in struck \/ tsv[s] = "whole"
Indexes ==
    \A s \in Shards :
        index[s] \in {"torn", "short"} => s \in struck \/ (writing = "terms" /\ s = Shard)
Built ==
    /\ step = "build" => \A s \in Shards : s[1] = Count /\ s[2] < cursor => Good(s)
    /\ step \in {"start", "measure", "stop"} => \A s \in Shards : s[1] = Count => Good(s)
    /\ (\E p \in DOMAIN Plan[script] : ~Plan[script][p].made) => index[<<1, 1>>] = "whole"

IInv == TypeOK /\ Control /\ Processes /\ Slices /\ Texts /\ Partitioned /\ Indexes /\ Built

\* Facts about the current phase.
LEMMA ThisFacts ==
    ASSUME TypeOK
    PROVE  /\ Count \in Sizes /\ Count \in 1..N /\ N \in Nat /\ N > 1
           /\ This.made \in BOOLEAN
           /\ This.clusters \in {<<>>, <<"primary">>, <<"primary", "replica">>}
           /\ Len(This.clusters) \in 0..2 /\ DOMAIN This.clusters = 1..Len(This.clusters)
           /\ ~This.made => Count = 1
           /\ phase \in 1..Len(Plan[script]) /\ Len(Plan[script]) \in 1..3
<1>1. script \in Scripts /\ phase \in DOMAIN Plan[script]
  BY DEF TypeOK
<1>2. /\ Count \in Sizes /\ This.made \in BOOLEAN
      /\ ~This.made => Count = 1
      /\ This.clusters \in {<<>>, <<"primary">>, <<"primary", "replica">>}
      /\ phase \in 1..Len(Plan[script]) /\ Len(Plan[script]) \in 1..3
  BY <1>1, PlanFacts DEF This, Count
<1>3. Len(This.clusters) \in 0..2 /\ DOMAIN This.clusters = 1..Len(This.clusters)
  BY <1>2
<1>4. N \in Nat /\ N > 1 /\ Count \in 1..N
  BY <1>2, ExperimentAssumption DEF Sizes
<1> QED
  BY <1>2, <1>3, <1>4

\* A phase starts with its slice or its partition if it makes its shards anew;
\* if not, they are the last phase's, or were there before.
LEMMA FirstStepFacts ==
    ASSUME NEW p, Plan[script][p].made \in BOOLEAN
    PROVE  /\ FirstStep(p) \in {"slice", "partition", "start"}
           /\ FirstStep(p) # "start" => Plan[script][p].made
           /\ FirstStep(p) = "start" =>
                 \/ ~Plan[script][p].made
                 \/ p # 1 /\ Plan[script][p - 1].n = Plan[script][p].n
BY DEF FirstStep, Prepares

\* The shards of a phase that makes none were built beforehand.
LEMMA BuiltBefore ==
    ASSUME TypeOK, Built, NEW p \in DOMAIN Plan[script], ~Plan[script][p].made
    PROVE  \A s \in Shards : s[1] = Plan[script][p].n => Good(s)
<1>1. Plan[script][p].n = 1
  BY PlanFacts DEF TypeOK
<1>2. ASSUME NEW s \in Shards, s[1] = 1 PROVE s = <<1, 1>>
  BY <1>2, ShardFacts, ExperimentAssumption
<1> QED
  BY <1>1, <1>2 DEF Built, Good

LEMMA InitInv == Init => IInv
<1> SUFFICES ASSUME Init PROVE IInv
  OBVIOUS
<1>1. /\ script \in Scripts /\ phase = 1 /\ 1 \in DOMAIN Plan[script]
      /\ \A p \in DOMAIN Plan[script] : Plan[script][p].made \in BOOLEAN
  BY PlanFacts DEF Init
<1>2. /\ step \in {"slice", "partition", "start"}
      /\ step # "start" => This.made
      /\ step = "start" => ~This.made
  BY <1>1, FirstStepFacts DEF Init, This
<1>3. index \in [Shards -> {"absent", "whole"}] /\ tsv = [s \in Shards |-> "absent"]
  BY DEF Init
<1>4. TypeOK
  <2>1. 1 \in 1..N /\ 0 \in 0..MaxReruns
    BY ExperimentAssumption
  <2>2. /\ proc \in [Servers -> {"off", "loading", "serving"}]
        /\ enter \in [Servers -> {"none", "waiting", "ok", "ending", "failed"}]
    BY DEF Init
  <2>3. /\ tsv \in [Shards -> {"absent", "partial", "short", "whole"}]
        /\ index \in [Shards -> {"absent", "started", "torn", "short", "whole"}]
    BY <1>3
  <2>4. /\ cursor \in 1..N /\ up \in 0..2 /\ reruns \in 0..MaxReruns
        /\ writing = "none" /\ slice = "absent" /\ failing = FALSE /\ struck = {}
    BY <2>1 DEF Init
  <2> QED
    BY <1>1, <1>2, <2>2, <2>3, <2>4 DEF TypeOK
<1>5. Control
  BY <1>2, <1>4, ThisFacts DEF Init, Control
<1>6. Processes
  BY <1>2, <1>4, ThisFacts DEF Init, Processes
<1>7. Slices /\ Texts /\ Indexes
  BY <1>3 DEF Init, Slices, Texts, Indexes
<1>8. Partitioned
  BY <1>2, ShardFacts DEF Init, Partitioned
<1>9. Built
  <2>1. ASSUME NEW p \in DOMAIN Plan[script], ~Plan[script][p].made PROVE index[<<1, 1>>] = "whole"
    <3>1. \A q \in DOMAIN Plan[script] : ~(Plan[script][q].n = 1 /\ Plan[script][q].made)
      BY <1>1, <2>1, PlanFacts, ExperimentAssumption
    <3>2. <<1, 1>> \in Shards /\ <<1, 1>>[1] = 1
      BY ShardFacts, ExperimentAssumption DEF Sizes
    <3> QED
      BY <3>1, <3>2 DEF Init
  <2>2. step = "start" => \A s \in Shards : s[1] = Count => Good(s)
    <3> SUFFICES ASSUME step = "start", NEW s \in Shards, s[1] = Count PROVE Good(s)
      OBVIOUS
    <3>1. ~This.made /\ Count = 1
      BY <1>2, <1>4, ThisFacts
    <3>2. s = <<1, 1>>
      BY <3>1, ShardFacts, ExperimentAssumption
    <3> QED
      BY <1>1, <2>1, <3>1, <3>2 DEF Good, This
  <2> QED
    BY <1>2, <2>1, <2>2 DEF Built
<1> QED
  BY <1>4, <1>5, <1>6, <1>7, <1>8, <1>9 DEF IInv
-----------------------------------------------------------------------------
(* The steps on the disk *)

\* No server is touched before the shards are built.
LEMMA NoServers ==
    ASSUME IInv, step \in {"slice", "partition", "build"},
           step' \in {"slice", "partition", "build", "start", "raised"},
           UNCHANGED <<script, phase, serverVars>>
    PROVE  Processes'
<1>1. /\ up = 0 /\ \A s \in Servers : enter[s] = "none"
      /\ \A s \in Servers : proc[s] = "off"
  BY DEF IInv, Processes, TypeOK
<1>2. up' = 0 /\ (\A s \in Servers : enter'[s] = "none") /\ \A s \in Servers : proc'[s] = "off"
  BY <1>1 DEF serverVars
<1>3. Len(This.clusters) >= 0 /\ This' = This
  BY ThisFacts DEF IInv, This
<1> QED
  BY <1>2, <1>3 DEF Processes

LEMMA SkipSliceStep == ASSUME IInv, SkipSlice PROVE IInv'
<1>1. Processes'
  BY NoServers DEF SkipSlice
<1>2. This' = This /\ Count' = Count /\ Shard' = Shard
  BY DEF SkipSlice, writerVars, This, Count, Shard
<1>3. TypeOK' /\ Control'
  BY <1>2, ThisFacts DEF IInv, SkipSlice, writerVars, diskVars, serverVars, TypeOK, Control
<1>4. Slices' /\ Texts' /\ Indexes'
  BY <1>2 DEF IInv, SkipSlice, writerVars, diskVars, Slices, Texts, Indexes
<1>5. Partitioned' /\ Built'
  BY <1>2, ShardFacts DEF IInv, SkipSlice, writerVars, diskVars, Control, Partitioned, Built, Good
<1> QED
  BY <1>1, <1>3, <1>4, <1>5 DEF IInv

LEMMA OpenSliceStep == ASSUME IInv, OpenSlice PROVE IInv'
<1>1. Processes'
  BY NoServers DEF OpenSlice, controlVars
<1>2. This' = This /\ Count' = Count /\ Shard' = Shard
  BY DEF OpenSlice, controlVars, This, Count, Shard
<1>3. TypeOK' /\ Control'
  BY <1>2 DEF IInv, OpenSlice, controlVars, serverVars, TypeOK, Control
<1>4. Slices' /\ Texts' /\ Indexes'
  BY <1>2 DEF IInv, OpenSlice, controlVars, Slices, Texts, Indexes
<1>5. Partitioned' /\ Built'
  BY <1>2 DEF IInv, OpenSlice, controlVars, Partitioned, Built, Good
<1> QED
  BY <1>1, <1>3, <1>4, <1>5 DEF IInv

LEMMA CloseSliceStep == ASSUME IInv, CloseSlice PROVE IInv'
<1>0. step = "slice"
  BY DEF IInv, Control, CloseSlice
<1>1. Processes'
  BY <1>0, NoServers DEF CloseSlice
<1>2. This' = This /\ Count' = Count /\ Shard' = Shard
  BY DEF CloseSlice, This, Count, Shard
<1>3. TypeOK' /\ Control'
  BY <1>0, <1>2, ThisFacts DEF IInv, CloseSlice, serverVars, TypeOK, Control
<1>4. Slices' /\ Texts' /\ Indexes'
  BY <1>2 DEF IInv, CloseSlice, Slices, Texts, Indexes
<1>5. Partitioned' /\ Built'
  BY <1>0, <1>2, ShardFacts DEF IInv, CloseSlice, Control, Partitioned, Built, Good
<1> QED
  BY <1>1, <1>3, <1>4, <1>5 DEF IInv

LEMMA SkipPartitionStep == ASSUME IInv, SkipPartition PROVE IInv'
<1>1. Processes'
  BY NoServers DEF SkipPartition
<1>2. This' = This /\ Count' = Count /\ Shard' = Shard
  BY DEF SkipPartition, writerVars, This, Count, Shard
<1>3. TypeOK' /\ Control'
  BY <1>2 DEF IInv, SkipPartition, writerVars, diskVars, serverVars, TypeOK, Control
<1>4. Slices' /\ Texts' /\ Indexes'
  BY <1>2 DEF IInv, SkipPartition, writerVars, diskVars, Slices, Texts, Indexes
<1>5. Built'
  BY <1>2, ShardFacts DEF IInv, SkipPartition, writerVars, diskVars, Built, Good
<1>6. Partitioned'
  <2> SUFFICES ASSUME NEW s \in Shards, s[1] = Count PROVE s \in struck \/ tsv[s] = "whole"
    BY <1>2 DEF SkipPartition, diskVars, Partitioned
  <2>1. \A t \in Shards : t[1] = Count => tsv[t] # "absent"
    <3> SUFFICES ASSUME NEW t \in Shards, t[1] = Count PROVE tsv[t] # "absent"
      OBVIOUS
    <3>1. t = <<Count, t[2]>> /\ t[2] \in 1..Count
      BY ShardFacts, ThisFacts DEF IInv
    <3> QED
      BY <3>1 DEF SkipPartition, AllShardsExist
  <2>2. tsv[s] \in {"absent", "partial", "short", "whole"}
    BY DEF IInv, TypeOK
  <2> QED
    BY <2>1, <2>2 DEF IInv, Texts, SkipPartition
<1> QED
  BY <1>1, <1>3, <1>4, <1>5, <1>6 DEF IInv

\* The shard the cursor is at.
LEMMA ShardHere ==
    ASSUME IInv, step \in {"partition", "build"}
    PROVE  /\ Shard \in Shards /\ Shard[1] = Count /\ Shard[2] = cursor
           /\ cursor \in 1..Count /\ Count \in 1..N /\ N \in Nat
           /\ \A s \in Shards : s[1] = Count => s[2] \in 1..Count
           /\ \A s \in Shards : s[1] = Count /\ s[2] = cursor => s = Shard
           /\ \A s \in Shards : s[2] \in Nat
<1>1. Count \in Sizes /\ Count \in 1..N /\ N \in Nat /\ cursor \in 1..Count
  BY ThisFacts DEF IInv, Control
<1>2. Shard \in Shards /\ Shard[1] = Count /\ Shard[2] = cursor
  BY <1>1, ShardFacts DEF Shard
<1>3. ASSUME NEW s \in Shards PROVE s[2] \in Nat /\ (s[1] = Count => s[2] \in 1..Count)
  <2>1. s[2] \in 1..N /\ s[2] <= s[1] /\ s[1] \in Sizes
    BY ShardFacts
  <2> QED
    BY <1>1, <2>1
<1>4. ASSUME NEW s \in Shards, s[1] = Count, s[2] = cursor PROVE s = Shard
  BY <1>4, ShardFacts DEF Shard
<1> QED
  BY <1>1, <1>2, <1>3, <1>4

LEMMA OpenShardStep == ASSUME IInv, OpenShard PROVE IInv'
<1>0. /\ step = "partition" /\ Shard \in Shards
      /\ tsv \in [Shards -> {"absent", "partial", "short", "whole"}]
      /\ tsv' = [tsv EXCEPT ![Shard] = "partial"]
  BY ShardHere DEF IInv, TypeOK, OpenShard
<1>1. Processes'
  BY NoServers DEF OpenShard, controlVars
<1>2. This' = This /\ Count' = Count /\ Shard' = Shard
  BY DEF OpenShard, controlVars, This, Count, Shard
<1>3. TypeOK'
  BY <1>0 DEF IInv, OpenShard, controlVars, serverVars, TypeOK
<1>4. Control'
  BY <1>2 DEF IInv, OpenShard, controlVars, Control
<1>5. Slices' /\ Indexes' /\ Built'
  BY <1>2 DEF IInv, OpenShard, controlVars, Slices, Indexes, Built, Good
<1>6. Partitioned'
  <2> SUFFICES ASSUME NEW s \in Shards, s[1] = Count, s[2] < cursor
               PROVE  tsv'[s] # "absent" /\ (s \in struck \/ tsv'[s] = "whole")
    BY <1>0, <1>2 DEF OpenShard, controlVars, Partitioned
  <2>1. s # Shard
    BY <1>0, ShardHere
  <2> QED
    BY <1>0, <2>1 DEF IInv, Partitioned
<1>7. Texts'
  <2>1. ASSUME NEW s \in Shards, tsv'[s] = "short" PROVE s \in struck'
    BY <1>0, <2>1 DEF IInv, Texts, OpenShard, controlVars
  <2>2. ASSUME NEW s \in Shards, tsv'[s] = "partial"
        PROVE  \/ s \in struck' \/ (writing' = "tsv" /\ s = Shard')
               \/ \E t \in Shards : t[1] = s[1] /\ t[2] > s[2] /\ tsv'[t] = "absent"
    <3>1. CASE s = Shard
      BY <1>2, <3>1 DEF OpenShard
    <3>2. CASE s # Shard /\ s \notin struck
      <4>1. PICK t \in Shards : t[1] = s[1] /\ t[2] > s[2] /\ tsv[t] = "absent"
        BY <1>0, <2>2, <3>2 DEF IInv, Texts, OpenShard
      <4>2. t # Shard
        <5> SUFFICES ASSUME t = Shard PROVE FALSE
          OBVIOUS
        <5>1. s[1] = Count /\ s[2] < cursor
          BY <1>0, <4>1, ShardHere
        <5>2. tsv[s] = "whole"
          BY <1>0, <3>2, <5>1 DEF IInv, Partitioned
        <5> QED
          BY <1>0, <2>2, <3>2, <5>2
      <4> QED
        BY <1>0, <4>1, <4>2
    <3> QED
      BY <3>1, <3>2 DEF OpenShard, controlVars
  <2> QED
    BY <2>1, <2>2 DEF Texts
<1> QED
  BY <1>1, <1>3, <1>4, <1>5, <1>6, <1>7 DEF IInv

LEMMA CloseShardStep == ASSUME IInv, CloseShard PROVE IInv'
<1> DEFINE v == IF script = "segment_sweep" /\ slice = "partial" THEN "short" ELSE "whole"
<1>0. /\ step = "partition" /\ Shard \in Shards
      /\ tsv \in [Shards -> {"absent", "partial", "short", "whole"}]
      /\ tsv' = [tsv EXCEPT ![Shard] = v]
      /\ v \in {"short", "whole"} /\ (v = "short" => slice = "partial")
      /\ step' \in {"partition", "build"} /\ (step' = "build" <=> cursor = Count)
      /\ cursor' = IF cursor = Count THEN 1 ELSE cursor + 1
      /\ This.made
  BY ShardHere DEF IInv, TypeOK, CloseShard, Control
<1> HIDE DEF v
<1>1. Processes'
  BY <1>0, NoServers DEF CloseShard
<1>2. This' = This /\ Count' = Count
  BY DEF CloseShard, This, Count
<1>3. cursor' \in 1..Count /\ cursor' \in 1..N
  BY <1>0, ShardHere
<1>4. TypeOK'
  BY <1>0, <1>3 DEF IInv, CloseShard, serverVars, TypeOK
<1>5. Control'
  BY <1>0, <1>2, <1>3 DEF CloseShard, Control
<1>6. Slices'
  BY DEF IInv, CloseShard, Slices
<1>7. Indexes'
  BY DEF IInv, CloseShard, Indexes
<1>8. v = "short" => Shards \subseteq struck
  BY <1>0 DEF IInv, CloseShard, Slices
<1>9. \A s \in Shards : s[1] = Count /\ s[2] <= cursor =>
          tsv'[s] # "absent" /\ (s \in struck \/ tsv'[s] = "whole")
  <2> SUFFICES ASSUME NEW s \in Shards, s[1] = Count, s[2] <= cursor
               PROVE  tsv'[s] # "absent" /\ (s \in struck \/ tsv'[s] = "whole")
    OBVIOUS
  <2>1. CASE s = Shard
    BY <1>0, <1>8, <2>1
  <2>2. CASE s # Shard
    <3>1. s[2] < cursor
      BY <1>0, <2>2, ShardHere
    <3> QED
      BY <1>0, <2>2, <3>1 DEF IInv, Partitioned
  <2> QED
    BY <2>1, <2>2
<1>10. Partitioned'
  <2>1. CASE step' = "build"
    <3>1. \A s \in Shards : s[1] = Count => s[2] <= cursor
      BY <1>0, <2>1, ShardHere
    <3> QED
      BY <1>2, <1>9, <2>1, <3>1 DEF CloseShard, Partitioned
  <2>2. CASE step' = "partition"
    <3>1. \A s \in Shards : s[1] = Count /\ s[2] < cursor' => s[2] <= cursor
      BY <1>0, <2>2, ShardHere
    <3> QED
      BY <1>2, <1>9, <2>2, <3>1 DEF CloseShard, Partitioned
  <2> QED
    BY <1>0, <2>1, <2>2
<1>11. Built'
  <2>1. \A s \in Shards : ~(s[2] < 1)
    BY <1>0, ShardFacts, ShardHere
  <2> QED
    BY <1>0, <1>2, <2>1 DEF IInv, CloseShard, Built, Good
<1>12. Texts'
  <2>1. ASSUME NEW s \in Shards, tsv'[s] = "short" PROVE s \in struck'
    BY <1>0, <1>8, <2>1 DEF IInv, Texts, CloseShard
  <2>2. ASSUME NEW s \in Shards, tsv'[s] = "partial", s \notin struck
        PROVE  \E t \in Shards : t[1] = s[1] /\ t[2] > s[2] /\ tsv'[t] = "absent"
    <3>1. s # Shard /\ tsv[s] = "partial"
      BY <1>0, <2>2
    <3>2. PICK t \in Shards : t[1] = s[1] /\ t[2] > s[2] /\ tsv[t] = "absent"
      BY <2>2, <3>1 DEF IInv, Texts
    <3>3. t # Shard
      <4> SUFFICES ASSUME t = Shard PROVE FALSE
        OBVIOUS
      <4>1. s[1] = Count /\ s[2] < cursor
        BY <1>0, <3>2, ShardHere
      <4> QED
        BY <1>0, <2>2, <3>1, <4>1 DEF IInv, Partitioned
    <3> QED
      BY <1>0, <3>2, <3>3
  <2> QED
    BY <2>1, <2>2 DEF Texts, CloseShard
<1> QED
  BY <1>1, <1>4, <1>5, <1>6, <1>7, <1>10, <1>11, <1>12 DEF IInv

\* The index that was built beforehand is not the one that is being built.
LEMMA MadeElsewhere ==
    ASSUME IInv, step = "build", NEW p \in DOMAIN Plan[script], ~Plan[script][p].made
    PROVE  Shard # <<1, 1>> /\ <<1, 1>> \in Shards
<1>1. This.made /\ phase \in DOMAIN Plan[script]
  BY DEF IInv, Control, TypeOK
<1>2. Count = N
  BY <1>1, PlanFacts DEF IInv, TypeOK, Count, This
<1> QED
  BY <1>2, ShardHere, ShardFacts, ExperimentAssumption DEF Sizes

LEMMA NoBuilderStep == ASSUME IInv, NoBuilder PROVE IInv'
<1>1. Processes'
  BY NoServers DEF NoBuilder
<1>2. This' = This /\ Count' = Count /\ Shard' = Shard
  BY DEF NoBuilder, writerVars, This, Count, Shard
<1>3. TypeOK' /\ Control'
  BY <1>2 DEF IInv, NoBuilder, writerVars, diskVars, serverVars, TypeOK, Control
<1>4. Slices' /\ Texts' /\ Indexes'
  BY <1>2 DEF IInv, NoBuilder, writerVars, diskVars, Slices, Texts, Indexes
<1>5. Partitioned' /\ Built'
  BY <1>2 DEF IInv, NoBuilder, writerVars, diskVars, Partitioned, Built, Good
<1> QED
  BY <1>1, <1>3, <1>4, <1>5 DEF IInv

LEMMA BuildFailsStep == ASSUME IInv, BuildFails PROVE IInv'
<1>0. step = "build"
  BY DEF IInv, Control, BuildFails
<1>1. Processes'
  BY <1>0, NoServers DEF BuildFails
<1>2. This' = This /\ Count' = Count /\ Shard' = Shard
  BY DEF BuildFails, This, Count, Shard
<1>3. TypeOK' /\ Control'
  BY <1>2 DEF IInv, BuildFails, diskVars, serverVars, TypeOK, Control
<1>4. Slices' /\ Texts' /\ Indexes'
  BY <1>2 DEF IInv, BuildFails, diskVars, Slices, Texts, Indexes
<1>5. Partitioned' /\ Built'
  BY <1>2 DEF IInv, BuildFails, diskVars, Partitioned, Built, Good
<1> QED
  BY <1>1, <1>3, <1>4, <1>5 DEF IInv

LEMMA StartBuildStep == ASSUME IInv, StartBuild PROVE IInv'
<1>0. /\ step = "build" /\ Shard \in Shards /\ ~IsBuilt(Shard)
      /\ index \in [Shards -> {"absent", "started", "torn", "short", "whole"}]
      /\ index' = [index EXCEPT ![Shard] = "started"]
      /\ This.made
  BY ShardHere DEF IInv, TypeOK, Control, StartBuild
<1>1. Processes'
  BY <1>0, NoServers DEF StartBuild, controlVars
<1>2. This' = This /\ Count' = Count /\ Shard' = Shard
  BY DEF StartBuild, controlVars, This, Count, Shard
<1>3. TypeOK' /\ Control'
  BY <1>0, <1>2 DEF IInv, StartBuild, controlVars, serverVars, TypeOK, Control
<1>4. Slices' /\ Texts' /\ Indexes' /\ Partitioned'
  BY <1>0, <1>2 DEF IInv, StartBuild, controlVars, Slices, Texts, Indexes, Partitioned
<1>5. Built'
  <2>1. index[Shard] # "whole"
    BY <1>0 DEF IsBuilt
  <2>2. \A s \in Shards : Good(s) => Good(s)'
    BY <1>0, <2>1 DEF Good, StartBuild, controlVars
  <2>3. <<1, 1>> \in Shards
    BY ShardFacts, ExperimentAssumption DEF Sizes
  <2> QED
    BY <1>0, <1>2, <2>1, <2>2, <2>3 DEF IInv, StartBuild, controlVars, Built
<1> QED
  BY <1>1, <1>3, <1>4, <1>5 DEF IInv

LEMMA OpenTermsStep == ASSUME IInv, OpenTerms PROVE IInv'
<1>0. /\ step = "build" /\ Shard \in Shards /\ writing = "index"
      /\ index \in [Shards -> {"absent", "started", "torn", "short", "whole"}]
      /\ index' = [index EXCEPT ![Shard] = "torn"]
  BY ShardHere DEF IInv, TypeOK, Control, OpenTerms
<1>1. Processes'
  BY <1>0, NoServers DEF OpenTerms, controlVars
<1>2. This' = This /\ Count' = Count /\ Shard' = Shard
  BY DEF OpenTerms, controlVars, This, Count, Shard
<1>3. TypeOK' /\ Control'
  BY <1>0, <1>2 DEF IInv, OpenTerms, controlVars, serverVars, TypeOK, Control
<1>4. Slices' /\ Texts' /\ Indexes' /\ Partitioned'
  BY <1>0, <1>2 DEF IInv, OpenTerms, controlVars, Slices, Texts, Indexes, Partitioned
<1>5. Built'
  <2>1. \A s \in Shards : s[1] = Count /\ s[2] < cursor => s # Shard
    BY <1>0, ShardHere
  <2>2. ASSUME NEW p \in DOMAIN Plan[script], ~Plan[script][p].made PROVE index'[<<1, 1>>] = "whole"
    BY <1>0, <2>2, MadeElsewhere DEF IInv, Built
  <2> QED
    BY <1>0, <1>2, <2>1, <2>2 DEF IInv, OpenTerms, controlVars, Built, Good
<1> QED
  BY <1>1, <1>3, <1>4, <1>5 DEF IInv

\* What SkipBuild and FinishBuild share: the shard at the cursor is sound, and
\* the cursor moves on.
LEMMA NextShardSteps ==
    ASSUME IInv, step = "build", NextShard, writing' = "none",
           UNCHANGED <<script, phase, failing, struck, reruns, slice, tsv, serverVars>>,
           index' \in [Shards -> {"absent", "started", "torn", "short", "whole"}],
           \A s \in Shards : s # Shard => index'[s] = index[s],
           Shard \in struck \/ index'[Shard] = "whole", writing # "none" => writing = "terms"
    PROVE  IInv'
<1>0. /\ step' \in {"build", "start"} /\ (step' = "start" <=> cursor = Count)
      /\ cursor' = IF cursor = Count THEN 1 ELSE cursor + 1
      /\ This.made
  BY DEF IInv, Control, NextShard
<1>1. Processes'
  BY <1>0, NoServers
<1>2. This' = This /\ Count' = Count
  BY DEF This, Count
<1>3. cursor' \in 1..Count /\ cursor' \in 1..N /\ Shard \in Shards
  BY <1>0, ShardHere
<1>4. TypeOK'
  BY <1>0, <1>3 DEF IInv, serverVars, TypeOK
<1>5. Control'
  BY <1>0, <1>2, <1>3 DEF Control
<1>6. Slices' /\ Texts'
  BY DEF IInv, Slices, Texts, Control
<1>7. Partitioned'
  BY <1>0, <1>2 DEF IInv, Partitioned
<1>8. Indexes'
  <2> SUFFICES ASSUME NEW s \in Shards, index'[s] \in {"torn", "short"} PROVE s \in struck
    BY DEF Indexes
  <2>1. CASE s = Shard
    BY <2>1 DEF Good
  <2>2. CASE s # Shard
    BY <2>2 DEF IInv, Indexes
  <2> QED
    BY <2>1, <2>2
<1>9. \A s \in Shards : s[1] = Count /\ s[2] <= cursor => Good(s)'
  <2> SUFFICES ASSUME NEW s \in Shards, s[1] = Count, s[2] <= cursor PROVE Good(s)'
    OBVIOUS
  <2>1. CASE s = Shard
    BY <2>1 DEF Good
  <2>2. CASE s # Shard
    <3>1. s[2] < cursor
      BY <2>2, ShardHere
    <3> QED
      BY <2>2, <3>1 DEF IInv, Built, Good
  <2> QED
    BY <2>1, <2>2
<1>10. Built'
  <2>1. step' = "start" => \A s \in Shards : s[1] = Count => s[2] <= cursor
    BY <1>0, ShardHere
  <2>2. step' = "build" => \A s \in Shards : s[1] = Count /\ s[2] < cursor' => s[2] <= cursor
    BY <1>0, ShardHere
  <2>3. ASSUME NEW p \in DOMAIN Plan[script], ~Plan[script][p].made PROVE index'[<<1, 1>>] = "whole"
    BY <2>3, MadeElsewhere DEF IInv, Built
  <2> QED
    BY <1>0, <1>2, <1>9, <2>1, <2>2, <2>3 DEF Built
<1> QED
  BY <1>1, <1>4, <1>5, <1>6, <1>7, <1>8, <1>10 DEF IInv

LEMMA SkipBuildStep == ASSUME IInv, SkipBuild PROVE IInv'
<1>1. /\ step = "build" /\ Shard \in Shards /\ writing = "none" /\ NextShard
      /\ index \in [Shards -> {"absent", "started", "torn", "short", "whole"}]
      /\ UNCHANGED <<script, phase, failing, struck, reruns, writing, slice, tsv, index, serverVars>>
  BY ShardHere DEF IInv, TypeOK, SkipBuild, diskVars
<1>2. struck' = struck /\ index'[Shard] = index[Shard] /\ IsBuilt(Shard)
  BY <1>1 DEF SkipBuild
<1>3. Shard \in struck \/ index[Shard] = "whole"
  BY <1>1, <1>2 DEF IInv, Indexes, IsBuilt
<1>4. \A s \in Shards : index'[s] = index[s]
  BY <1>1
<1>5. writing' = "none"
  BY <1>1
<1> QED
  BY <1>1, <1>3, <1>4, <1>5, NextShardSteps

LEMMA FinishBuildStep == ASSUME IInv, FinishBuild PROVE IInv'
<1>1. /\ step = "build" /\ Shard \in Shards /\ writing = "terms" /\ NextShard
      /\ index \in [Shards -> {"absent", "started", "torn", "short", "whole"}]
      /\ index' = [index EXCEPT ![Shard] = IF tsv[Shard] = "whole" THEN "whole" ELSE "short"]
      /\ UNCHANGED <<script, phase, failing, struck, reruns, slice, tsv, serverVars>>
      /\ writing' = "none"
  BY ShardHere DEF IInv, TypeOK, Control, FinishBuild
<1>2. Shard \in struck \/ index'[Shard] = "whole"
  BY <1>1, ShardHere DEF IInv, Partitioned
<1>3. /\ index' \in [Shards -> {"absent", "started", "torn", "short", "whole"}]
      /\ \A s \in Shards : s # Shard => index'[s] = index[s]
  BY <1>1
<1> QED
  BY <1>1, <1>2, <1>3, NextShardSteps
-----------------------------------------------------------------------------
(* The steps of the servers and of the clusters *)

\* They leave the files alone.
LEMMA NoFiles ==
    ASSUME IInv, step \in {"start", "measure", "stop"}, step' \in {"start", "measure", "stop"},
           UNCHANGED <<script, phase, struck, reruns, writerVars, diskVars>>
    PROVE  /\ Control' /\ Slices' /\ Texts' /\ Partitioned' /\ Indexes' /\ Built'
           /\ This' = This /\ Count' = Count
           /\ \A k : Cluster(k)' = Cluster(k)
<1>1. This' = This /\ Count' = Count /\ Shard' = Shard /\ \A k : Cluster(k)' = Cluster(k)
  BY DEF writerVars, This, Count, Shard, Cluster
<1>2. Control'
  BY <1>1 DEF IInv, writerVars, Control
<1>3. Slices' /\ Texts' /\ Indexes'
  BY <1>1 DEF IInv, writerVars, diskVars, Slices, Texts, Indexes
<1>4. Partitioned' /\ Built'
  BY <1>1 DEF IInv, writerVars, diskVars, Partitioned, Built, Good
<1> QED
  BY <1>1, <1>2, <1>3, <1>4

\* A server that somebody is at exists only while the clusters do.
LEMMA Entered ==
    ASSUME IInv, NEW s \in Servers, enter[s] # "none"
    PROVE  step \in {"start", "measure", "stop"}
BY DEF IInv, Processes

\* A server moves, and nothing else does.
LEMMA OneServerMoves ==
    ASSUME IInv, NEW s \in Servers, step \in {"start", "measure", "stop"},
           UNCHANGED <<controlVars, writerVars, diskVars, up>>,
           NEW v \in {"off", "loading", "serving"}, proc' = [proc EXCEPT ![s] = v],
           NEW w \in {"none", "waiting", "ok", "ending", "failed"}, enter' = [enter EXCEPT ![s] = w],
           v # "off" => w \in {"waiting", "ok", "ending"},
           w = "ok" => v = "serving",
           \/ w = "none" \/ enter[s] # "none"
           \/ up < Len(This.clusters) /\ s \in Cluster(up + 1),
           step \in {"start", "measure"} => w = "ok" \/ enter[s] # "ok"
    PROVE  IInv'
<1>0. /\ enter \in [Servers -> {"none", "waiting", "ok", "ending", "failed"}]
      /\ proc \in [Servers -> {"off", "loading", "serving"}]
      /\ step' = step /\ up' = up /\ up \in 0..2
  BY DEF IInv, TypeOK, controlVars
<1>1. /\ Control' /\ Slices' /\ Texts' /\ Partitioned' /\ Indexes' /\ Built'
      /\ This' = This /\ Count' = Count /\ \A k : Cluster(k)' = Cluster(k)
  BY <1>0, NoFiles DEF controlVars
<1>2. TypeOK'
  BY <1>0 DEF IInv, TypeOK, controlVars, writerVars, diskVars
<1>3. Processes'
  <2>1. ASSUME NEW q \in Servers
        PROVE  /\ proc'[q] # "off" => enter'[q] \in {"waiting", "ok", "ending"}
               /\ enter'[q] = "ok" => proc'[q] = "serving"
               /\ enter'[q] # "none" => \E k \in 1..Len(This.clusters) : k <= up + 1 /\ q \in Cluster(k)
    <3>1. CASE q = s
      <4>1. enter[s] = "none" /\ w # "none" => up + 1 \in 1..Len(This.clusters) /\ s \in Cluster(up + 1)
        BY <1>0, ThisFacts DEF IInv
      <4>2. enter[s] # "none" => \E k \in 1..Len(This.clusters) : k <= up + 1 /\ s \in Cluster(k)
        BY DEF IInv, Processes
      <4>3. w # "none" => \E k \in 1..Len(This.clusters) : k <= up + 1 /\ s \in Cluster(k)
        BY <1>0, <4>1, <4>2
      <4> QED
        BY <1>0, <3>1, <4>3
    <3>2. CASE q # s
      BY <1>0, <3>2 DEF IInv, Processes
    <3> QED
      BY <3>1, <3>2
  <2>2. ASSUME step \in {"start", "measure"}, NEW k \in 1..up, NEW q \in Cluster(k)
        PROVE  enter'[q] = "ok"
    <3>1. enter[q] = "ok" /\ q \in Servers
      BY <1>0, <2>2 DEF IInv, Processes, Cluster
    <3> QED
      BY <1>0, <2>2, <3>1
  <2> QED
    BY <1>0, <1>1, <2>1, <2>2 DEF IInv, Processes
<1> QED
  BY <1>1, <1>2, <1>3 DEF IInv

LEMMA ServerSteps == ASSUME IInv, NEW s \in Servers, Server(s) PROVE IInv'
<1>0. /\ enter \in [Servers -> {"none", "waiting", "ok", "ending", "failed"}]
      /\ proc \in [Servers -> {"off", "loading", "serving"}]
      /\ proc[s] # "off" => enter[s] \in {"waiting", "ok", "ending"}
      /\ enter[s] = "ok" => proc[s] = "serving"
      /\ enter[s] # "none" => step \in {"start", "measure", "stop"}
  BY Entered DEF IInv, TypeOK, Processes
<1>1. proc = [proc EXCEPT ![s] = proc[s]] /\ enter = [enter EXCEPT ![s] = enter[s]]
  BY <1>0
<1>2. CASE Popen(s)
  BY <1>0, <1>2, OneServerMoves DEF Popen, InStart, Entering
<1>3. CASE Listen(s)
  BY <1>0, <1>1, <1>3, OneServerMoves DEF Listen
<1>4. CASE Die(s)
  BY <1>0, <1>1, <1>4, OneServerMoves DEF Die
<1>5. CASE Ready(s)
  <2>1. PICK q \in Servers : q[2] = s[2] /\ q[3] = s[3] /\ proc[q] = "serving"
    BY <1>5 DEF Ready
  <2>2. enter[q] # "none" /\ enter[s] = "waiting"
    BY <1>5, <2>1 DEF IInv, Processes, Ready
  <2>3. q[1] = phase /\ s[1] = phase
    BY <2>2 DEF IInv, Processes, Cluster
  <2>4. q = s
    BY <2>1, <2>3, ServerFacts
  <2>5. proc[s] = "serving" /\ proc' = proc /\ enter' = [enter EXCEPT ![s] = "ok"]
    BY <1>5, <2>1, <2>4 DEF Ready
  <2> QED
    BY <1>0, <1>1, <1>5, <2>2, <2>5, OneServerMoves DEF Ready
<1>6. CASE TimeOut(s)
  BY <1>0, <1>1, <1>6, OneServerMoves DEF TimeOut
<1>7. CASE Reap(s)
  <2> DEFINE w == IF step = "start" THEN "failed" ELSE "none"
  <2>1. /\ w \in {"none", "failed"} /\ enter[s] = "ending"
        /\ enter' = [enter EXCEPT ![s] = w] /\ proc' = [proc EXCEPT ![s] = "off"]
    BY <1>7 DEF Reap
  <2> HIDE DEF w
  <2> QED
    BY <1>0, <1>7, <2>1, OneServerMoves DEF Reap
<1>8. CASE Terminate(s)
  BY <1>0, <1>1, <1>8, OneServerMoves DEF Terminate
<1> QED
  BY <1>2, <1>3, <1>4, <1>5, <1>6, <1>7, <1>8 DEF Server

LEMMA ClusterUpStep == ASSUME IInv, ClusterUp PROVE IInv'
<1>0. /\ step = "start" /\ step' = "start" /\ up \in 0..2 /\ up' = up + 1
      /\ up < Len(This.clusters) /\ Len(This.clusters) \in 0..2
      /\ \A s \in Cluster(up + 1) : enter[s] = "ok"
      /\ proc' = proc /\ enter' = enter
  BY ThisFacts DEF IInv, TypeOK, ClusterUp, Entering, controlVars
<1>1. /\ Control' /\ Slices' /\ Texts' /\ Partitioned' /\ Indexes' /\ Built'
      /\ This' = This /\ Count' = Count /\ \A k : Cluster(k)' = Cluster(k)
  BY <1>0, NoFiles DEF ClusterUp, controlVars
<1>2. TypeOK'
  <2>1. \A a, b \in 0..2 : a < b => a + 1 \in 0..2
    OBVIOUS
  <2>2. up' \in 0..2
    BY <1>0, <2>1
  <2> QED
    BY <1>0, <2>2 DEF IInv, TypeOK, ClusterUp, controlVars, writerVars, diskVars
<1>3. Processes'
  <2>1. ASSUME NEW k \in 1..(up + 1), NEW s \in Cluster(k) PROVE enter[s] = "ok"
    <3>1. CASE k = up + 1
      BY <1>0, <2>1, <3>1
    <3>2. CASE k \in 1..up
      BY <1>0, <2>1, <3>2 DEF IInv, Processes
    <3> QED
      BY <1>0, <3>1, <3>2
  <2>2. \A k \in 1..Len(This.clusters) : k <= up + 1 => k <= up' + 1
    BY <1>0
  <2>3. ASSUME NEW s \in Servers, enter[s] # "none"
        PROVE  \E k \in 1..Len(This.clusters) : k <= up' + 1 /\ s \in Cluster(k)
    BY <2>2, <2>3 DEF IInv, Processes
  <2> QED
    BY <1>0, <1>1, <2>1, <2>3 DEF IInv, Processes
<1> QED
  BY <1>1, <1>2, <1>3 DEF IInv

LEMMA LeaveStartStep ==
    ASSUME IInv, ClusterFails \/ BeginMeasure \/ \E b \in BOOLEAN : EndMeasure(b)
    PROVE  IInv'
<1>0. /\ step \in {"start", "measure"} /\ step' \in {"measure", "stop"}
      /\ step' = "measure" => step = "start" /\ up = Len(This.clusters)
      /\ failing' \in BOOLEAN
      /\ UNCHANGED <<script, phase, struck, reruns, writerVars, diskVars, serverVars>>
  BY DEF IInv, TypeOK, ClusterFails, BeginMeasure, EndMeasure
<1>1. /\ Control' /\ Slices' /\ Texts' /\ Partitioned' /\ Indexes' /\ Built'
      /\ This' = This /\ Count' = Count /\ \A k : Cluster(k)' = Cluster(k)
  BY <1>0, NoFiles
<1>2. TypeOK'
  BY <1>0 DEF IInv, TypeOK, writerVars, diskVars, serverVars
<1>3. Processes'
  BY <1>0, <1>1 DEF IInv, Processes, serverVars
<1> QED
  BY <1>1, <1>2, <1>3 DEF IInv

\* A phase begins, the next one or the first of a rerun, with no process left
\* of what was before.
LEMMA PhaseBegins ==
    ASSUME IInv, NEW p \in DOMAIN Plan[script], phase' = p, step' = FirstStep(p),
           writing = "none", cursor' = 1, up' = 0, failing' \in BOOLEAN, reruns' \in 0..MaxReruns,
           \A s \in Servers : proc[s] = "off",
           enter' = [s \in Servers |-> "none"],
           UNCHANGED <<script, struck, writing, diskVars, proc>>,
           p # 1 /\ Plan[script][p - 1].n = Plan[script][p].n =>
              \A s \in Shards : s[1] = Plan[script][p].n => Good(s)
    PROVE  IInv'
<1>1. /\ script \in Scripts /\ Plan[script][p].made \in BOOLEAN
      /\ Plan[script][p].n \in 1..N /\ Plan[script][p].n >= 1
      /\ Len(Plan[script][p].clusters) >= 0
  BY PlanFacts, ExperimentAssumption DEF IInv, TypeOK, Sizes
<1>2. This' = Plan[script][p] /\ Count' = Plan[script][p].n
  BY DEF This, Count
<1>3. /\ step' \in {"slice", "partition", "start"}
      /\ step' # "start" => Plan[script][p].made
      /\ step' = "start" =>
            ~Plan[script][p].made \/ (p # 1 /\ Plan[script][p - 1].n = Plan[script][p].n)
  BY <1>1, FirstStepFacts
<1>4. TypeOK'
  <2>1. /\ cursor' \in 1..N /\ up' \in 0..2
        /\ enter' \in [Servers -> {"none", "waiting", "ok", "ending", "failed"}]
    BY ExperimentAssumption
  <2> QED
    BY <1>3, <2>1 DEF IInv, TypeOK, diskVars
<1>5. Control'
  <2>1. 1 \in 1..Plan[script][p].n
    BY <1>1
  <2> QED
    BY <1>2, <1>3, <2>1 DEF Control
<1>6. Processes'
  BY <1>1, <1>2, <1>3 DEF Processes
<1>7. Slices' /\ Texts' /\ Indexes'
  BY DEF IInv, diskVars, Slices, Texts, Indexes
<1>8. Partitioned'
  BY <1>2, <1>3, ShardFacts DEF Partitioned
<1>9. Built'
  <2>1. step' = "start" => \A s \in Shards : s[1] = Plan[script][p].n => Good(s)
    BY <1>3, BuiltBefore DEF IInv
  <2> QED
    BY <1>2, <1>3, <2>1 DEF IInv, Built, Good, diskVars
<1> QED
  BY <1>4, <1>5, <1>6, <1>7, <1>8, <1>9 DEF IInv

LEMMA PhaseOverStep == ASSUME IInv, PhaseOver PROVE IInv'
<1>0. /\ step = "stop" /\ cursor = 1 /\ writing = "none" /\ script \in Scripts
      /\ phase \in 1..Len(Plan[script]) /\ Len(Plan[script]) \in 1..3
      /\ DOMAIN Plan[script] = 1..Len(Plan[script])
      /\ enter' = [s \in Servers |-> "none"] /\ up' = 0
      /\ failing \in BOOLEAN /\ failing' = failing /\ reruns \in 0..MaxReruns /\ reruns' = reruns
      /\ UNCHANGED <<script, struck, cursor, writing, diskVars, proc>>
  BY ThisFacts, PlanFacts DEF IInv, TypeOK, Control, PhaseOver, writerVars
<1>1. \A s \in Servers : proc[s] = "off"
  BY <1>0 DEF IInv, TypeOK, Processes, PhaseOver, Stopped
<1>2. CASE failing \/ phase = Len(Plan[script])
  <2>1. phase' = phase /\ step' \in {"raised", "finished"}
    BY <1>2 DEF PhaseOver
  <2>2. This' = This /\ Count' = Count
    BY <1>0, <2>1 DEF This, Count
  <2>3. TypeOK'
    <3>1. /\ up' \in 0..2
          /\ enter' \in [Servers -> {"none", "waiting", "ok", "ending", "failed"}]
      BY <1>0
    <3> QED
      BY <1>0, <2>1, <3>1 DEF IInv, TypeOK, diskVars
  <2>4. Control' /\ Slices' /\ Texts' /\ Indexes'
    BY <1>0, <2>1 DEF IInv, Control, Slices, Texts, Indexes, diskVars
  <2>5. Processes'
    BY <1>0, <1>1, <2>1, <2>2, ThisFacts DEF IInv, Processes
  <2>6. Partitioned' /\ Built'
    BY <1>0, <2>1 DEF IInv, Partitioned, Built, diskVars
  <2> QED
    BY <2>3, <2>4, <2>5, <2>6 DEF IInv
<1>3. CASE ~failing /\ phase # Len(Plan[script])
  <2> DEFINE p == phase + 1
  <2>1. phase' = p /\ step' = FirstStep(p)
    BY <1>3 DEF PhaseOver
  <2>2. p \in DOMAIN Plan[script] /\ p - 1 = phase
    BY <1>0, <1>3
  <2>3. \A s \in Shards : s[1] = Plan[script][phase].n => Good(s)
    BY <1>0 DEF IInv, Built, Count, This
  <2> HIDE DEF p
  <2>4. Plan[script][p - 1].n = Plan[script][p].n =>
           \A s \in Shards : s[1] = Plan[script][p].n => Good(s)
    BY <2>2, <2>3
  <2> QED
    BY <1>0, <1>1, <2>1, <2>2, <2>4, PhaseBegins
<1> QED
  BY <1>2, <1>3

LEMMA RerunStep == ASSUME IInv, Rerun PROVE IInv'
<1>1. /\ step \in {"raised", "crashed"} /\ writing = "none" /\ up = 0
      /\ \A s \in Servers : enter[s] = "none" /\ proc[s] = "off"
      /\ 1 \in DOMAIN Plan[script]
      /\ reruns' \in 0..MaxReruns
  <2>1. 1 \in DOMAIN Plan[script]
    BY PlanFacts DEF IInv, TypeOK
  <2>2. reruns' \in 0..MaxReruns
    BY ExperimentAssumption DEF IInv, TypeOK, Rerun
  <2>3. step \in {"raised", "crashed"} /\ writing = "none"
    BY DEF IInv, TypeOK, Control, Rerun
  <2> QED
    BY <2>1, <2>2, <2>3 DEF IInv, TypeOK, Processes
<1>2. enter' = [s \in Servers |-> "none"]
  <2>1. enter \in [Servers -> {"none", "waiting", "ok", "ending", "failed"}] /\ enter' = enter
    BY DEF IInv, TypeOK, Rerun, serverVars
  <2> QED
    BY <1>1, <2>1
<1>3. /\ phase' = 1 /\ step' = FirstStep(1) /\ cursor' = 1 /\ failing' = FALSE /\ up' = 0
      /\ UNCHANGED <<script, struck, writing, diskVars, proc>>
  BY <1>1 DEF Rerun, serverVars
<1> QED
  BY <1>1, <1>2, <1>3, PhaseBegins

LEMMA CrashStep == ASSUME IInv, Crash PROVE IInv'
<1>0. /\ step' = "crashed" /\ writing' = "none" /\ up' = 0
      /\ proc' = [s \in Servers |-> "off"] /\ enter' = [s \in Servers |-> "none"]
      /\ struck' = struck \cup Undetected
      /\ UNCHANGED <<script, phase, failing, reruns, cursor, diskVars>>
  BY DEF Crash
<1>1. This' = This /\ Count' = Count
  BY <1>0 DEF This, Count
<1>2. /\ writing = "slice" => Undetected = Shards
      /\ writing = "tsv" /\ AllShardsExist => Undetected = {Shard}
      /\ writing = "terms" => Undetected = {Shard}
      /\ writing \notin {"slice", "tsv", "terms"} => Undetected = {}
      /\ writing = "tsv" /\ ~AllShardsExist => Undetected = {}
  BY DEF Undetected
<1>3. writing \in {"tsv", "terms"} => Shard \in Shards
  BY ShardHere DEF IInv, Control
<1>4. TypeOK'
  <2>1. struck' \subseteq Shards
    BY <1>0, <1>2, <1>3 DEF IInv, TypeOK
  <2>2. /\ up' \in 0..2
        /\ proc' \in [Servers -> {"off", "loading", "serving"}]
        /\ enter' \in [Servers -> {"none", "waiting", "ok", "ending", "failed"}]
    BY <1>0
  <2> QED
    BY <1>0, <2>1, <2>2 DEF IInv, TypeOK, diskVars
<1>5. Control'
  BY <1>0 DEF Control
<1>6. Processes'
  BY <1>0, <1>1, ThisFacts DEF IInv, Processes
<1>7. Slices'
  BY <1>0, <1>2 DEF IInv, Slices, diskVars
<1>8. Indexes'
  BY <1>0, <1>2 DEF IInv, Indexes, diskVars
<1>9. Partitioned' /\ Built'
  BY <1>0 DEF IInv, Partitioned, Built, Good, diskVars
<1>10. Texts'
  <2>1. ASSUME NEW s \in Shards, tsv[s] = "partial", s \notin struck'
        PROVE  \E t \in Shards : t[1] = s[1] /\ t[2] > s[2] /\ tsv[t] = "absent"
    <3>1. CASE writing = "tsv" /\ s = Shard
      <4>1. ~AllShardsExist /\ step = "partition"
        BY <1>0, <1>2, <2>1, <3>1 DEF IInv, Control
      <4>2. PICK i \in 1..Count : tsv[<<Count, i>>] = "absent"
        BY <4>1 DEF AllShardsExist
      <4>3. <<Count, i>> \in Shards /\ <<Count, i>>[1] = Count /\ <<Count, i>>[2] = i
        BY ShardFacts, ThisFacts DEF IInv
      <4>4. ~(i < cursor)
        BY <4>1, <4>2, <4>3 DEF IInv, Partitioned
      <4>5. i # cursor
        BY <2>1, <3>1, <4>2 DEF Shard
      <4>6. s[1] = Count /\ s[2] = cursor /\ cursor \in Nat /\ i \in Nat
        BY <3>1, <4>1, ShardHere
      <4> QED
        BY <4>2, <4>3, <4>4, <4>5, <4>6
    <3>2. CASE ~(writing = "tsv" /\ s = Shard)
      BY <1>0, <2>1, <3>2 DEF IInv, Texts
    <3> QED
      BY <3>1, <3>2
  <2> QED
    BY <1>0, <2>1 DEF IInv, Texts, diskVars
<1> QED
  BY <1>4, <1>5, <1>6, <1>7, <1>8, <1>9, <1>10 DEF IInv

LEMMA StutterStep == ASSUME IInv, UNCHANGED vars PROVE IInv'
<1>1. This' = This /\ Count' = Count /\ Shard' = Shard /\ \A k : Cluster(k)' = Cluster(k)
  BY DEF vars, controlVars, writerVars, This, Count, Shard, Cluster
<1> QED
  BY <1>1 DEF IInv, vars, controlVars, writerVars, diskVars, serverVars, TypeOK, Control, Processes,
              Slices, Texts, Partitioned, Indexes, Built, Good

LEMMA Inductive == IInv /\ [Next]_vars => IInv'
<1> SUFFICES ASSUME IInv, [Next]_vars PROVE IInv'
  OBVIOUS
<1>1. CASE Disk
  BY <1>1, SkipSliceStep, OpenSliceStep, CloseSliceStep, SkipPartitionStep, OpenShardStep,
     CloseShardStep, NoBuilderStep, SkipBuildStep, StartBuildStep, OpenTermsStep, FinishBuildStep,
     BuildFailsStep DEF Disk
<1>2. CASE Phases
  BY <1>2, ClusterUpStep, LeaveStartStep, PhaseOverStep DEF Phases
<1>3. ASSUME NEW s \in Servers, Server(s) PROVE IInv'
  BY <1>3, ServerSteps
<1>4. CASE Crash
  BY <1>4, CrashStep
<1>5. CASE Rerun
  BY <1>5, RerunStep
<1>6. CASE UNCHANGED vars
  BY <1>6, StutterStep
<1> QED
  BY <1>1, <1>2, <1>3, <1>4, <1>5, <1>6 DEF Next

LEMMA Always == Spec => []IInv
BY InitInv, Inductive, PTL DEF Spec
-----------------------------------------------------------------------------
(* Theorems *)

\* Every variable keeps its type: the cursor stays within the shards, and no
\* more clusters are up than the phase has.
THEOREM TypeCorrect == Spec => []TypeOK
<1>1. IInv => TypeOK
  BY DEF IInv
<1> QED
  BY <1>1, Always, PTL

\* A script that has ended, in whatever way, has left no server running: for
\* any number of shards, whichever of the servers started together fail.
THEOREM NoStrayServersHolds == Spec => []NoStrayServers
<1>1. IInv => NoStrayServers
  BY DEF IInv, TypeOK, Processes, NoStrayServers, Live, Working
<1> QED
  BY <1>1, Always, PTL

\* Readiness only says that something listens on a port; it is always the
\* server this phase has just started.
THEOREM OwnServersAnswerHolds == Spec => []OwnServersAnswer
<1>1. ASSUME IInv, step = "measure"
      PROVE  /\ Live = UNION {Cluster(k) : k \in DOMAIN This.clusters}
             /\ \A s \in Live : proc[s] = "serving"
  <2>1. /\ up = Len(This.clusters) /\ DOMAIN This.clusters = 1..up
        /\ \A k \in 1..up : \A s \in Cluster(k) : s \in Servers /\ enter[s] = "ok"
    BY <1>1, ThisFacts DEF IInv, Processes, Cluster
  <2>2. ASSUME NEW s \in Live
        PROVE  proc[s] = "serving" /\ \E k \in 1..up : s \in Cluster(k)
    <3>1. s \in Servers /\ enter[s] # "none"
      BY <1>1 DEF IInv, Processes, Live
    <3>2. PICK k \in 1..Len(This.clusters) : s \in Cluster(k)
      BY <1>1, <3>1 DEF IInv, Processes
    <3>3. enter[s] = "ok"
      BY <2>1, <3>2
    <3> QED
      BY <1>1, <2>1, <3>1, <3>2, <3>3 DEF IInv, Processes
  <2>3. ASSUME NEW k \in 1..up, NEW s \in Cluster(k) PROVE s \in Live
    BY <1>1, <2>1, <2>3 DEF IInv, Processes, Live
  <2> QED
    BY <2>1, <2>2, <2>3
<1>2. IInv => OwnServersAnswer
  BY <1>1 DEF OwnServersAnswer
<1> QED
  BY <1>2, Always, PTL

\* Whatever crashes came before, a measurement has complete indexes, except of
\* shards whose last file or index.terms a crash has cut short.
THEOREM ResumedWholeHolds == Spec => []ResumedWhole
<1>1. ASSUME IInv, step = "measure", NEW i \in 1..Count
      PROVE  <<Count, i>> \in struck \/ index[<<Count, i>>] = "whole"
  <2>1. <<Count, i>> \in Shards /\ <<Count, i>>[1] = Count
    BY <1>1, ThisFacts, ShardFacts DEF IInv
  <2> QED
    BY <1>1, <2>1 DEF IInv, Built, Good
<1>2. IInv => ResumedWhole
  BY <1>1 DEF ResumedWhole
<1> QED
  BY <1>2, Always, PTL
=============================================================================
