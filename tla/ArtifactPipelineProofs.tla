----------------------- MODULE ArtifactPipelineProofs -----------------------
(***************************************************************************)
(* Proofs about ArtifactPipeline: the properties of its run for every set  *)
(* of editions and campaigns, and for any number of scripts out of order   *)
(* and of interrupts.                                                      *)
(***************************************************************************)
EXTENDS ArtifactPipeline, TLAPS

(* The scripts *)

LEMMA ScriptsAre ==
    Scripts = {"export", "lucene", "tantivy", "latency", "cascade_bm25", "query_cost", "report",
               "phase1_report", "subset", "encode", "ground_truth", "ann_sweep", "fusion",
               "dense_report", "encode_candidates", "phase4_driver", "rank_report"}
BY DEF Scripts, Steps

\* t is step i of script s.
IsStep(s, i, t) == s \in Scripts /\ i \in DOMAIN Steps[s] /\ t = Steps[s][i]

\* Every step of every script, as a table.
LEMMA StepTable ==
    ASSUME NEW s, NEW i, NEW t, IsStep(s, i, t)
    PROVE  \/ /\ s = "export" /\ Len(Steps[s]) = 3
              /\ <<i, t>> \in {<<1, ExportQueries>>, <<2, ExportDocs>>, <<3, ExportTsv>>}
           \/ /\ s = "lucene" /\ Len(Steps[s]) = 3
              /\ <<i, t>> \in {<<1, LuceneIndex>>, <<2, LuceneSearch>>, <<3, AppendManifest>>}
           \/ /\ s = "tantivy" /\ Len(Steps[s]) = 3
              /\ <<i, t>> \in {<<1, TantivyIndex>>, <<2, TantivySearch>>, <<3, AppendManifest>>}
           \/ /\ s = "latency" /\ Len(Steps[s]) = 1
              /\ <<i, t>> \in {<<1, Step("latency", {"tantivy_index"})>>}
           \/ /\ s = "cascade_bm25" /\ Len(Steps[s]) = 5
              /\ <<i, t>> \in {<<1, CascadeIndex>>, <<2, CascadeSearch("run_dl")>>,
                               <<3, AppendManifest>>, <<4, CascadeSearch("run_dev")>>,
                               <<5, AppendManifest>>}
           \/ /\ s = "query_cost" /\ Len(Steps[s]) = 1
              /\ <<i, t>> \in {<<1, Step("query_cost", {"cascade_index"})>>}
           \/ /\ s = "report" /\ Len(Steps[s]) = 5
              /\ <<i, t>> \in {<<1, EvaluateRun("lucene_eval", "lucene_run")>>,
                               <<2, EvaluateRun("tantivy_eval", "tantivy_run")>>,
                               <<3, EvaluateRun("cascade_dl_eval", "run_dl")>>,
                               <<4, EvaluateRun("cascade_dev_eval", "run_dev")>>,
                               <<5, Step("baselines", Evaluations)>>}
           \/ /\ s = "phase1_report" /\ Len(Steps[s]) = 3
              /\ <<i, t>> \in {<<1, EvaluateRun("cascade_dl_eval", "run_dl")>>,
                               <<2, EvaluateRun("cascade_dev_eval", "run_dev")>>,
                               <<3, Step("phase1", CascadeEvaluations \cup {"query_cost"})>>}
           \/ s = "subset" /\ Len(Steps[s]) = 1 /\ <<i, t>> \in {<<1, WriteSubset>>}
           \/ /\ s = "encode" /\ Len(Steps[s]) = 3
              /\ <<i, t>> \in {<<1, EncodePassages>>, <<2, SaveDocids>>, <<3, EncodeQueries>>}
           \/ /\ s = "ground_truth" /\ Len(Steps[s]) = 2
              /\ <<i, t>> \in {<<1, Step("gt_dev", Dense)>>, <<2, Step("gt_dl", Dense)>>}
           \/ /\ s = "ann_sweep" /\ Len(Steps[s]) = 1
              /\ <<i, t>> \in {<<1, Step("sweep", Dense \cup {"gt_dev"})>>}
           \/ /\ s = "fusion" /\ Len(Steps[s]) = 1
              /\ <<i, t>> \in {<<1, Step("fusion", FusionRuns)>>}
           \/ /\ s = "dense_report" /\ Len(Steps[s]) = 1
              /\ <<i, t>> \in {<<1, Step("phase3", {"sweep", "fusion"})>>}
           \/ /\ s = "encode_candidates" /\ Len(Steps[s]) = 2
              /\ <<i, t>> \in {<<1, CollectTexts>>, <<2, DenseScores>>}
           \/ /\ s = "phase4_driver" /\ Len(Steps[s]) = 4
              /\ <<i, t>> \in {<<1, PrerankAndConsistency>>, <<2, Batching>>, <<3, Precision>>,
                               <<4, QueueDisciplines>>}
           \/ /\ s = "rank_report" /\ Len(Steps[s]) = 1
              /\ <<i, t>> \in {
                               <<1, Step("phase4", {"prerank", "batching", "precision", "queue"})>>}
<1>1. CASE s \in {"export", "lucene", "tantivy", "latency"}
  BY <1>1 DEF IsStep, Steps, Export, Lucene, Tantivy, Latency
<1>2. CASE s \in {"cascade_bm25", "query_cost", "report", "phase1_report"}
  BY <1>2 DEF IsStep, Steps, CascadeBm25, QueryCost, Report, Phase1Report
<1>3. CASE s \in {"subset", "encode", "ground_truth", "ann_sweep"}
  BY <1>3 DEF IsStep, Steps, Subset, Encode, GroundTruth, AnnSweep
<1>4. CASE s \in {"fusion", "dense_report", "encode_candidates", "phase4_driver", "rank_report"}
  BY <1>4 DEF IsStep, Steps, Fusion, DenseReport, EncodeCandidates, Phase4Driver, RankReport
<1> QED BY <1>1, <1>2, <1>3, <1>4, ScriptsAre DEF IsStep

\* What each file is made from.
MadeFrom(f, reads) ==
    \/ f \in {"topics", "jsonl", "tsv", "queries", "manifest", "subset", "tantivy_index"} /\ reads = {}
    \/ f = "lucene_index" /\ reads = {"jsonl"}
    \/ f = "lucene_run" /\ reads = {"lucene_index", "topics"}
    \/ f \in {"tantivy_run", "latency"} /\ reads = {"tantivy_index"}
    \/ f = "cascade_index" /\ reads = {"tsv"}
    \/ f \in {"run_dl", "run_dev", "query_cost"} /\ reads = {"cascade_index"}
    \/ f = "lucene_eval" /\ reads = {"manifest", "lucene_run"}
    \/ f = "tantivy_eval" /\ reads = {"manifest", "tantivy_run"}
    \/ f = "cascade_dl_eval" /\ reads = {"manifest", "run_dl"}
    \/ f = "cascade_dev_eval" /\ reads = {"manifest", "run_dev"}
    \/ f = "baselines" /\ reads = {"lucene_eval", "tantivy_eval", "cascade_dl_eval", "cascade_dev_eval"}
    \/ f = "phase1" /\ reads = {"cascade_dl_eval", "cascade_dev_eval", "query_cost"}
    \/ f \in {"embeddings", "docids"} /\ reads = {"subset"}
    \/ f \in {"gt_dev", "gt_dl"} /\ reads = Dense
    \/ f = "sweep" /\ reads = Dense \cup {"gt_dev"}
    \/ f = "fusion" /\ reads = {"manifest", "run_dl", "gt_dl"}
    \/ f = "phase3" /\ reads = {"sweep", "fusion"}
    \/ f \in {"texts", "scores"} /\ reads = {"run_dev", "run_dl"}
    \/ f \in {"prerank", "precision"} /\ reads = Candidates
    \/ f \in {"batching", "queue"} /\ reads = {"texts"}
    \/ f = "phase4" /\ reads = {"prerank", "batching", "precision", "queue"}

LEMMA StepReads ==
    ASSUME NEW s, NEW i, NEW t, IsStep(s, i, t)
    PROVE  /\ t = [file |-> t.file, reads |-> t.reads]
           /\ MadeFrom(t.file, t.reads)
<1>1. CASE s = "export"
  BY <1>1, StepTable DEF MadeFrom, Step, ExportQueries, ExportDocs, ExportTsv
<1>2. CASE s = "lucene"
  BY <1>2, StepTable DEF MadeFrom, Step, LuceneIndex, LuceneSearch, AppendManifest
<1>3. CASE s = "tantivy"
  BY <1>3, StepTable DEF MadeFrom, Step, TantivyIndex, TantivySearch, AppendManifest
<1>4. CASE s = "latency"
  BY <1>4, StepTable DEF MadeFrom, Step
<1>5. CASE s = "cascade_bm25"
  BY <1>5, StepTable DEF MadeFrom, Step, CascadeIndex, CascadeSearch, AppendManifest
<1>6. CASE s = "query_cost"
  BY <1>6, StepTable DEF MadeFrom, Step
<1>7. CASE s = "report"
  BY <1>7, StepTable DEF MadeFrom, Step, EvaluateRun, Evaluations, CascadeEvaluations
<1>8. CASE s = "phase1_report"
  BY <1>8, StepTable DEF MadeFrom, Step, EvaluateRun, CascadeEvaluations
<1>9. CASE s = "subset"
  BY <1>9, StepTable DEF MadeFrom, Step, WriteSubset
<1>10. CASE s = "encode"
  BY <1>10, StepTable DEF MadeFrom, Step, EncodePassages, SaveDocids, EncodeQueries
<1>11. CASE s = "ground_truth"
  BY <1>11, StepTable DEF MadeFrom, Step
<1>12. CASE s = "ann_sweep"
  BY <1>12, StepTable DEF MadeFrom, Step
<1>13. CASE s = "fusion"
  BY <1>13, StepTable DEF MadeFrom, Step, FusionRuns
<1>14. CASE s = "dense_report"
  BY <1>14, StepTable DEF MadeFrom, Step
<1>15. CASE s = "encode_candidates"
  BY <1>15, StepTable DEF MadeFrom, Step, CollectTexts, DenseScores
<1>16. CASE s = "phase4_driver"
  BY <1>16, StepTable DEF MadeFrom, Step, PrerankAndConsistency, Batching, Precision, QueueDisciplines, RequestPairs
<1>17. CASE s = "rank_report"
  BY <1>17, StepTable DEF MadeFrom, Step
<1> QED
  BY <1>1, <1>2, <1>3, <1>4, <1>5, <1>6, <1>7, <1>8, <1>9, <1>10, <1>11, <1>12,
     <1>13, <1>14, <1>15, <1>16, <1>17, ScriptsAre DEF IsStep

\* Who writes the files that are told apart below.
LEMMA Writers ==
    ASSUME NEW s, NEW i, NEW t, IsStep(s, i, t)
    PROVE  /\ t.file \in Indexes => i = 1 /\ i < Len(Steps[s])
           /\ t.file = "embeddings" <=> (s = "encode" /\ i = 1)
           /\ t.file = "docids" <=> (s = "encode" /\ i = 2)
           /\ t.file = "subset" => s = "subset"
           /\ t.file = "cascade_index" => s = "cascade_bm25" /\ i = 1
           /\ t.file = "run_dl" <=> (s = "cascade_bm25" /\ i = 2)
           /\ t.file = "run_dev" <=> (s = "cascade_bm25" /\ i = 4)
           /\ t.file \in {"gt_dev", "gt_dl"} => s = "ground_truth"
           /\ t.file = "sweep" => s = "ann_sweep"
           /\ t.file \in {"prerank", "precision"} => s = "phase4_driver"
           /\ t.file \in Evaluations => s \in {"report", "phase1_report"} /\ i < Len(Steps[s])
           /\ s = "encode" <=> t.file \in {"embeddings", "docids", "queries"}
           /\ s = "cascade_bm25" => Len(Steps[s]) = 5
           /\ s = "encode" => Len(Steps[s]) = 3
<1>1. CASE s = "export"
  BY <1>1, StepTable DEF Indexes, Evaluations, CascadeEvaluations, Step, ExportQueries, ExportDocs, ExportTsv
<1>2. CASE s = "lucene"
  <2>1. /\ Len(Steps[s]) = 3
        /\ <<i, t.file>> \in {<<1, "lucene_index">>, <<2, "lucene_run">>, <<3, "manifest">>}
    BY <1>2, StepTable DEF Step, LuceneIndex, LuceneSearch, AppendManifest
  <2> QED BY <1>2, <2>1 DEF Indexes, Evaluations, CascadeEvaluations
<1>3. CASE s = "tantivy"
  BY <1>3, StepTable DEF Indexes, Evaluations, CascadeEvaluations, Step, TantivyIndex, TantivySearch, AppendManifest
<1>4. CASE s = "latency"
  BY <1>4, StepTable DEF Indexes, Evaluations, CascadeEvaluations, Step
<1>5. CASE s = "cascade_bm25"
  <2>1. /\ Len(Steps[s]) = 5
        /\ <<i, t.file>> \in {<<1, "cascade_index">>, <<2, "run_dl">>, <<3, "manifest">>,
                              <<4, "run_dev">>, <<5, "manifest">>}
    BY <1>5, StepTable DEF Step, CascadeIndex, CascadeSearch, AppendManifest
  <2> QED BY <1>5, <2>1 DEF Indexes, Evaluations, CascadeEvaluations
<1>6. CASE s = "query_cost"
  BY <1>6, StepTable DEF Indexes, Evaluations, CascadeEvaluations, Step
<1>7. CASE s = "report"
  BY <1>7, StepTable DEF Indexes, Evaluations, CascadeEvaluations, Step, EvaluateRun
<1>8. CASE s = "phase1_report"
  BY <1>8, StepTable DEF Indexes, Evaluations, CascadeEvaluations, Step, EvaluateRun
<1>9. CASE s = "subset"
  BY <1>9, StepTable DEF Indexes, Evaluations, CascadeEvaluations, Step, WriteSubset
<1>10. CASE s = "encode"
  BY <1>10, StepTable DEF Indexes, Evaluations, CascadeEvaluations, Step, EncodePassages, SaveDocids, EncodeQueries
<1>11. CASE s = "ground_truth"
  BY <1>11, StepTable DEF Indexes, Evaluations, CascadeEvaluations, Step
<1>12. CASE s = "ann_sweep"
  BY <1>12, StepTable DEF Indexes, Evaluations, CascadeEvaluations, Step
<1>13. CASE s = "fusion"
  BY <1>13, StepTable DEF Indexes, Evaluations, CascadeEvaluations, Step, FusionRuns
<1>14. CASE s = "dense_report"
  BY <1>14, StepTable DEF Indexes, Evaluations, CascadeEvaluations, Step
<1>15. CASE s = "encode_candidates"
  BY <1>15, StepTable DEF Indexes, Evaluations, CascadeEvaluations, Step, CollectTexts, DenseScores
<1>16. CASE s = "phase4_driver"
  BY <1>16, StepTable DEF Indexes, Evaluations, CascadeEvaluations, Step, PrerankAndConsistency, Batching, Precision, QueueDisciplines, RequestPairs
<1>17. CASE s = "rank_report"
  BY <1>17, StepTable DEF Indexes, Evaluations, CascadeEvaluations, Step
<1> QED
  BY <1>1, <1>2, <1>3, <1>4, <1>5, <1>6, <1>7, <1>8, <1>9, <1>10, <1>11, <1>12,
     <1>13, <1>14, <1>15, <1>16, <1>17, ScriptsAre DEF IsStep

LEMMA Lengths ==
    ASSUME NEW s \in Scripts
    PROVE  DOMAIN Steps[s] = 1..Len(Steps[s]) /\ Len(Steps[s]) \in Nat /\ Len(Steps[s]) >= 1
<1>1. CASE s = "export"
  BY <1>1 DEF Steps, Export
<1>2. CASE s = "lucene"
  BY <1>2 DEF Steps, Lucene
<1>3. CASE s = "tantivy"
  BY <1>3 DEF Steps, Tantivy
<1>4. CASE s = "latency"
  BY <1>4 DEF Steps, Latency
<1>5. CASE s = "cascade_bm25"
  BY <1>5 DEF Steps, CascadeBm25
<1>6. CASE s = "query_cost"
  BY <1>6 DEF Steps, QueryCost
<1>7. CASE s = "report"
  BY <1>7 DEF Steps, Report
<1>8. CASE s = "phase1_report"
  BY <1>8 DEF Steps, Phase1Report
<1>9. CASE s = "subset"
  BY <1>9 DEF Steps, Subset
<1>10. CASE s = "encode"
  BY <1>10 DEF Steps, Encode
<1>11. CASE s = "ground_truth"
  BY <1>11 DEF Steps, GroundTruth
<1>12. CASE s = "ann_sweep"
  BY <1>12 DEF Steps, AnnSweep
<1>13. CASE s = "fusion"
  BY <1>13 DEF Steps, Fusion
<1>14. CASE s = "dense_report"
  BY <1>14 DEF Steps, DenseReport
<1>15. CASE s = "encode_candidates"
  BY <1>15 DEF Steps, EncodeCandidates
<1>16. CASE s = "phase4_driver"
  BY <1>16 DEF Steps, Phase4Driver
<1>17. CASE s = "rank_report"
  BY <1>17 DEF Steps, RankReport
<1> QED
  BY <1>1, <1>2, <1>3, <1>4, <1>5, <1>6, <1>7, <1>8, <1>9, <1>10, <1>11, <1>12,
     <1>13, <1>14, <1>15, <1>16, <1>17, ScriptsAre

\* Step i of script s writes f.
Writes(s, i, f) == s \in Scripts /\ i \in DOMAIN Steps[s] /\ Steps[s][i].file = f

LEMMA WritesAre ==
    /\ Writes("export", 1, "topics") /\ Writes("export", 2, "jsonl")
    /\ Writes("export", 3, "tsv") /\ Writes("lucene", 1, "lucene_index")
    /\ Writes("lucene", 2, "lucene_run") /\ Writes("lucene", 3, "manifest")
    /\ Writes("tantivy", 1, "tantivy_index") /\ Writes("tantivy", 2, "tantivy_run")
    /\ Writes("latency", 1, "latency") /\ Writes("cascade_bm25", 1, "cascade_index")
    /\ Writes("cascade_bm25", 2, "run_dl") /\ Writes("cascade_bm25", 4, "run_dev")
    /\ Writes("query_cost", 1, "query_cost") /\ Writes("report", 1, "lucene_eval")
    /\ Writes("report", 2, "tantivy_eval") /\ Writes("report", 3, "cascade_dl_eval")
    /\ Writes("report", 4, "cascade_dev_eval") /\ Writes("report", 5, "baselines")
    /\ Writes("phase1_report", 3, "phase1") /\ Writes("subset", 1, "subset")
    /\ Writes("encode", 1, "embeddings") /\ Writes("encode", 2, "docids")
    /\ Writes("encode", 3, "queries") /\ Writes("ground_truth", 1, "gt_dev")
    /\ Writes("ground_truth", 2, "gt_dl") /\ Writes("ann_sweep", 1, "sweep")
    /\ Writes("fusion", 1, "fusion") /\ Writes("dense_report", 1, "phase3")
    /\ Writes("encode_candidates", 1, "texts") /\ Writes("encode_candidates", 2, "scores")
    /\ Writes("phase4_driver", 1, "prerank") /\ Writes("phase4_driver", 2, "batching")
    /\ Writes("phase4_driver", 3, "precision") /\ Writes("phase4_driver", 4, "queue")
    /\ Writes("rank_report", 1, "phase4")
<1>1. /\ Writes("export", 1, "topics") /\ Writes("export", 2, "jsonl") /\ Writes("export", 3, "tsv")
  BY ScriptsAre DEF Writes, Steps, Export, ExportQueries, ExportDocs, ExportTsv, Step
<1>2. /\ Writes("lucene", 1, "lucene_index") /\ Writes("lucene", 2, "lucene_run")
      /\ Writes("lucene", 3, "manifest")
  BY ScriptsAre DEF Writes, Steps, Lucene, LuceneIndex, LuceneSearch, AppendManifest, Step
<1>3. /\ Writes("tantivy", 1, "tantivy_index") /\ Writes("tantivy", 2, "tantivy_run")
      /\ Writes("latency", 1, "latency")
  BY ScriptsAre DEF Writes, Steps, Tantivy, TantivyIndex, TantivySearch, Latency, Step
<1>4. /\ Writes("cascade_bm25", 1, "cascade_index") /\ Writes("cascade_bm25", 2, "run_dl")
      /\ Writes("cascade_bm25", 4, "run_dev") /\ Writes("query_cost", 1, "query_cost")
  BY ScriptsAre DEF Writes, Steps, CascadeBm25, CascadeIndex, CascadeSearch, QueryCost, Step
<1>5. /\ Writes("report", 1, "lucene_eval") /\ Writes("report", 2, "tantivy_eval")
      /\ Writes("report", 3, "cascade_dl_eval") /\ Writes("report", 4, "cascade_dev_eval")
      /\ Writes("report", 5, "baselines") /\ Writes("phase1_report", 3, "phase1")
  BY ScriptsAre DEF Writes, Steps, Report, Phase1Report, EvaluateRun, Step
<1>6. /\ Writes("subset", 1, "subset") /\ Writes("encode", 1, "embeddings")
      /\ Writes("encode", 2, "docids") /\ Writes("encode", 3, "queries")
  BY ScriptsAre DEF Writes, Steps, Subset, WriteSubset, Encode, EncodePassages, SaveDocids,
                    EncodeQueries, Step
<1>7. /\ Writes("ground_truth", 1, "gt_dev") /\ Writes("ground_truth", 2, "gt_dl")
       /\ Writes("ann_sweep", 1, "sweep") /\ Writes("fusion", 1, "fusion")
       /\ Writes("dense_report", 1, "phase3")
  BY ScriptsAre DEF Writes, Steps, GroundTruth, AnnSweep, Fusion, DenseReport, Step
<1>8. /\ Writes("encode_candidates", 1, "texts") /\ Writes("encode_candidates", 2, "scores")
       /\ Writes("phase4_driver", 1, "prerank") /\ Writes("phase4_driver", 2, "batching")
       /\ Writes("phase4_driver", 3, "precision") /\ Writes("phase4_driver", 4, "queue")
       /\ Writes("rank_report", 1, "phase4")
  BY ScriptsAre DEF Writes, Steps, EncodeCandidates, CollectTexts, DenseScores, Phase4Driver,
                    PrerankAndConsistency, Batching, Precision, QueueDisciplines, RankReport, Step
<1> QED BY <1>1, <1>2, <1>3, <1>4, <1>5, <1>6, <1>7, <1>8

\* The files are those of the table.
LEMMA FilesAre ==
    /\ \A f \in Files : \E R : MadeFrom(f, R)
    /\ \A f, R : MadeFrom(f, R) => f \in Files
<1>1. ASSUME NEW f \in Files PROVE \E R : MadeFrom(f, R)
  <2>1. PICK s \in Scripts : \E i \in DOMAIN Steps[s] : f = Steps[s][i].file
    BY DEF Files, AllSteps
  <2>i. PICK i \in DOMAIN Steps[s] : f = Steps[s][i].file
    BY <2>1
  <2>2. IsStep(s, i, Steps[s][i])
    BY DEF IsStep
  <2>3. MadeFrom(Steps[s][i].file, Steps[s][i].reads)
    BY <2>2, StepReads
  <2> QED BY <2>i, <2>3
<1>2. ASSUME NEW f, NEW R, MadeFrom(f, R) PROVE f \in Files
  <2>1. \A s, i, g : Writes(s, i, g) => g \in Files
    BY DEF Files, AllSteps, Writes
  <2> QED BY <1>2, <2>1, WritesAre DEF MadeFrom
<1> QED BY <1>1, <1>2

\* No step reads what it writes, and what it reads is written by some step.
LEMMA ReadsAre ==
    ASSUME NEW f, NEW R, MadeFrom(f, R)
    PROVE  R \subseteq Files /\ f \notin R
<1>1. f \notin R
  BY DEF MadeFrom, Dense, Candidates
<1>2. R \subseteq Files
  <2> SUFFICES ASSUME NEW r \in R PROVE \E S : MadeFrom(r, S)
    BY FilesAre
  <2> DEFINE IsMade(x) == \E S : MadeFrom(x, S)
  <2>1. /\ IsMade("topics") /\ IsMade("jsonl") /\ IsMade("tsv") /\ IsMade("queries") /\ IsMade("manifest")
        /\ IsMade("subset") /\ IsMade("tantivy_index") /\ IsMade("lucene_index") /\ IsMade("lucene_run")
        /\ IsMade("tantivy_run") /\ IsMade("cascade_index") /\ IsMade("run_dl") /\ IsMade("run_dev")
        /\ IsMade("query_cost") /\ IsMade("lucene_eval") /\ IsMade("tantivy_eval")
        /\ IsMade("cascade_dl_eval") /\ IsMade("cascade_dev_eval") /\ IsMade("embeddings") /\ IsMade("docids")
        /\ IsMade("gt_dev") /\ IsMade("gt_dl") /\ IsMade("sweep") /\ IsMade("fusion")
        /\ IsMade("texts") /\ IsMade("scores") /\ IsMade("prerank") /\ IsMade("precision")
        /\ IsMade("batching") /\ IsMade("queue")
    BY DEF MadeFrom
  <2> HIDE DEF IsMade
  <2>2. IsMade(r)
    BY <2>1 DEF MadeFrom, Dense, Candidates
  <2> QED BY <2>2 DEF IsMade
<1> QED BY <1>1, <1>2
-----------------------------------------------------------------------------
(* Types *)

Options == Editions \cup Limits
Data == [state : {"absent", "torn", "flawed", "whole"},
         from : SUBSET ({"corpus", "subset", "limit"} \X Options)]

LEMMA OptionsAre ==
    /\ \A s : Default(s) \in Options
    /\ MaxDetours \in Nat /\ MaxCrashes \in Nat
BY PipelineAssumption DEF Default, Options

\* The marks the scripts' own options leave.
LEMMA MarksAre ==
    ASSUME NEW f, NEW e
    PROVE  /\ f \in {"jsonl", "tsv", "tantivy_index"} => Mark(f, e) = {<<"corpus", e>>}
           /\ f = "subset" => Mark(f, e) = {<<"subset", e>>}
           /\ f \in {"embeddings", "docids"} => Mark(f, e) = {<<"limit", e>>}
           /\ f \notin {"jsonl", "tsv", "tantivy_index", "subset", "embeddings", "docids"}
                => Mark(f, e) = {}
BY DEF Mark, Option

\* A running script is at one of its steps.
LEMMA Running ==
    ASSUME TypeOK, ~Idle
    PROVE  /\ IsStep(script, pos, This) /\ MadeFrom(This.file, This.reads)
           /\ This.file \in Files /\ This.reads \subseteq Files /\ This.file \notin This.reads
           /\ script \in Scripts /\ pos \in 1..Len(Steps[script]) /\ Len(Steps[script]) \in Nat
           /\ disk[This.file] \in Data /\ \A f \in This.reads : disk[f] \in Data
<1>1. IsStep(script, pos, This)
  BY DEF TypeOK, Idle, IsStep, This
<1>2. MadeFrom(This.file, This.reads)
  BY <1>1, StepReads
<1>3. This.file \in Files /\ This.reads \subseteq Files /\ This.file \notin This.reads
  BY <1>2, FilesAre, ReadsAre
<1>4. script \in Scripts /\ pos \in 1..Len(Steps[script]) /\ Len(Steps[script]) \in Nat
  BY Lengths DEF TypeOK, Idle
<1>5. \A f \in Files : disk[f] \in Data
  BY DEF TypeOK, Data, Options
<1> QED BY <1>1, <1>2, <1>3, <1>4, <1>5

LEMMA MadeTyped ==
    ASSUME TypeOK, ~Idle
    PROVE  Made \in Data /\ Made.state \in {"flawed", "whole"}
<1>1. /\ This.file \in Files /\ disk[This.file] \in Data
      /\ This.reads \subseteq Files /\ \A f \in This.reads : disk[f] \in Data
  BY Running
<1>2. edition \in Options
  BY DEF TypeOK, Options
<1>3. Mark(This.file, edition) \subseteq {"corpus", "subset", "limit"} \X Options
  BY <1>2, MarksAre
<1>4. Made.state \in {"flawed", "whole"}
  BY DEF Made
<1>5. Made.from \subseteq {"corpus", "subset", "limit"} \X Options
  <2> SUFFICES ASSUME NEW x \in Made.from PROVE x \in {"corpus", "subset", "limit"} \X Options
    OBVIOUS
  <2>1. \/ x \in disk[This.file].from
        \/ x \in Mark(This.file, edition)
        \/ \E f \in This.reads : x \in disk[f].from
    BY DEF Made
  <2> QED BY <1>1, <1>3, <2>1 DEF Data
<1> QED BY <1>4, <1>5 DEF Made, Data

\* The steps; those that end a script are alike.
LEMMA StepKinds ==
    ASSUME TypeOK, [Next]_vars
    PROVE  \/ UNCHANGED vars
           \/ /\ Idle /\ \E s \in Scripts, e \in Options, f \in BOOLEAN : Start(s, e, f)
              /\ \/ StartNext
                 \/ \E s \in Scripts, e \in Options, f \in BOOLEAN : Detour(s, e, f)
           \/ Skip \/ Open \/ Close
           \/ ~Idle /\ Stop /\ UNCHANGED detours /\ crashes' \in 0..MaxCrashes /\ (Raise \/ Crash)
<1>1. CASE StartNext
  <2>1. Order[passed + 1] \in Scripts
    <3>1. passed \in 0..16
      BY <1>1 DEF StartNext, TypeOK, Order
    <3> QED BY <3>1, ScriptsAre DEF Order
  <2>2. Default(Order[passed + 1]) \in Options
    BY OptionsAre
  <2> QED BY <1>1, <2>1, <2>2 DEF StartNext, Start
<1>2. CASE \E s \in Scripts, e \in Options, f \in BOOLEAN : Detour(s, e, f)
  BY <1>2 DEF Detour, Start
<1>3. CASE Raise
  BY <1>3 DEF Raise, Stop, TypeOK
<1>4. CASE Crash
  BY <1>4, PipelineAssumption DEF Crash, Stop, TypeOK
<1> QED BY <1>1, <1>2, <1>3, <1>4 DEF Next, Options

LEMMA TypeStep == TypeOK /\ [Next]_vars => TypeOK'
<1> SUFFICES ASSUME TypeOK, [Next]_vars PROVE TypeOK'
  OBVIOUS
<1>0. MaxDetours \in Nat /\ MaxCrashes \in Nat
  BY PipelineAssumption
<1>1. CASE UNCHANGED vars
  BY <1>1 DEF TypeOK, vars, Idle
<1>2. CASE /\ Idle /\ \E s \in Scripts, e \in Options, f \in BOOLEAN : Start(s, e, f)
           /\ \/ StartNext
              \/ \E s \in Scripts, e \in Options, f \in BOOLEAN : Detour(s, e, f)
  <2>1. PICK s \in Scripts, e \in Options, f \in BOOLEAN : Start(s, e, f)
    BY <1>2
  <2>2. pos' = 1 /\ 1 \in DOMAIN Steps[s]
    BY <2>1, Lengths DEF Start
  <2>3. detours' \in 0..MaxDetours /\ passed' \in 0..Len(Order)
    <3>1. detours \in 0..MaxDetours /\ passed \in 0..Len(Order) /\ Len(Order) \in Nat
      BY DEF TypeOK, Order
    <3>2. CASE StartNext
      BY <3>1, <3>2 DEF StartNext
    <3>3. CASE \E d \in Scripts, g \in Options, b \in BOOLEAN : Detour(d, g, b)
      <4>1. detours < MaxDetours /\ detours' = detours + 1 /\ passed' = 0
        BY <3>3 DEF Detour
      <4> QED BY <1>0, <3>1, <4>1
    <3> QED BY <1>2, <3>2, <3>3
  <2>4. /\ script' \in Scripts \cup {"none"} /\ pos' \in Nat /\ pos' \in DOMAIN Steps[script']
        /\ open' = FALSE /\ edition' \in Options /\ force' \in BOOLEAN
        /\ UNCHANGED <<disk, campaign, crashes, spoilt>>
    BY <2>1, <2>2 DEF Start
  <2> QED BY <2>3, <2>4 DEF TypeOK, Options
<1>3. CASE Skip
  <2>1. This.file \in Indexes \cup Evaluations /\ ~Idle
    BY <1>3 DEF Skip, Skipped, IndexPresent, RunMissing
  <2>2. pos + 1 \in DOMAIN Steps[script]
    BY <2>1, Running, Writers, Lengths
  <2> QED BY <1>3, <2>1, <2>2, Running DEF Skip, TypeOK, Idle
<1>4. CASE Open
  <2>1. ~Idle
    BY <1>4 DEF Open
  <2>2. disk' \in [Files -> Data]
    <3>1. [state |-> "torn", from |-> Made.from] \in Data
      BY <2>1, MadeTyped DEF Data
    <3>2. disk \in [Files -> Data]
      BY DEF TypeOK, Data, Options
    <3> QED BY <1>4, <3>1, <3>2 DEF Open
  <2> QED BY <1>4, <2>1, <2>2 DEF Open, TypeOK, Data, Options, Idle
<1>5. CASE Close
  <2>1. ~Idle /\ open
    BY <1>5 DEF Close, TypeOK
  <2>2. disk' \in [Files -> Data]
    <3>1. Made \in Data
      BY <2>1, MadeTyped
    <3>2. disk \in [Files -> Data]
      BY DEF TypeOK, Data, Options
    <3>3. disk' = [disk EXCEPT ![This.file] = Made]
      BY <1>5 DEF Close
    <3> QED BY <3>1, <3>2, <3>3
  <2>3. spoilt' \subseteq Files
    BY <1>5, <2>1, Running DEF Close, TypeOK
  <2>4. /\ pos' \in Nat /\ script' \in Scripts \cup {"none"}
        /\ script' # "none" => pos' \in DOMAIN Steps[script']
        /\ passed' \in 0..Len(Order)
    <3>1. CASE pos < Len(Steps[script])
      BY <1>5, <2>1, <3>1, Running, Lengths DEF Close, TypeOK
    <3>2. CASE ~(pos < Len(Steps[script]))
      <4>1. script' = "none" /\ pos' = 1
        BY <1>5, <3>2 DEF Close
      <4>2. passed' = 0 \/ (passed < Len(Order) /\ passed' = passed + 1)
        BY <1>5, <3>2 DEF Close
      <4>3. Len(Order) \in Nat /\ passed \in 0..Len(Order)
        BY DEF TypeOK, Order
      <4>4. passed' \in 0..Len(Order)
        BY <4>2, <4>3
      <4> QED BY <4>1, <4>4
    <3> QED BY <3>1, <3>2
  <2> QED BY <1>5, <2>2, <2>3, <2>4 DEF Close, TypeOK, Data, Options, Idle
<1>6. CASE ~Idle /\ Stop /\ UNCHANGED detours /\ crashes' \in 0..MaxCrashes
  <2>1. Unseen \subseteq Files
    <3>1. ~Idle
      BY <1>6
    <3>2. "docids" \in Files /\ "run_dev" \in Files
      BY FilesAre DEF MadeFrom
    <3> QED BY <3>1, <3>2, Running DEF Unseen
  <2>2. /\ script' = "none" /\ pos' = 1 /\ open' = FALSE /\ passed' = 0
        /\ UNCHANGED <<disk, edition, force, campaign, detours>>
    BY <1>6 DEF Stop
  <2>3. spoilt' \subseteq Files
    BY <1>6, <2>1 DEF Stop, TypeOK
  <2>4. crashes' \in 0..MaxCrashes
    BY <1>6
  <2>5. 0 \in 0..Len(Order)
    BY DEF Order
  <2> QED BY <2>2, <2>3, <2>4, <2>5 DEF TypeOK
<1> QED BY <1>1, <1>2, <1>3, <1>4, <1>5, <1>6, StepKinds
LEMMA InitTyped == Init => TypeOK
<1> SUFFICES ASSUME Init PROVE TypeOK
  OBVIOUS
<1>0. /\ Deployed \in Options /\ NoLimit \in Options /\ Editions \subseteq Options
      /\ MaxDetours \in Nat /\ MaxCrashes \in Nat
  BY PipelineAssumption DEF Options
<1>1. ASSUME NEW f PROVE Whole(f) \in Data
  <2>1. Whole(f).from \subseteq {<<"corpus", Deployed>>, <<"subset", Deployed>>, <<"limit", NoLimit>>}
    BY DEF Whole
  <2>2. Whole(f) = [state |-> "whole", from |-> Whole(f).from]
    BY DEF Whole
  <2>3. Whole(f).from \in SUBSET ({"corpus", "subset", "limit"} \X Options)
    BY <1>0, <2>1
  <2> QED BY <2>2, <2>3 DEF Data
<1>2. ASSUME NEW f, NEW e \in Editions PROVE Reselected(f, e) \in Data
  <2>1. CASE f \in {"jsonl", "tsv", "subset"}
    <3>1. Mark(f, e) \in SUBSET ({"corpus", "subset", "limit"} \X Options)
      BY <1>0, <2>1, MarksAre
    <3> QED BY <2>1, <3>1 DEF Reselected, Data
  <2>2. CASE f \notin {"jsonl", "tsv", "subset"}
    BY <1>1, <2>2 DEF Reselected
  <2> QED BY <2>1, <2>2
<1>3. [state |-> "absent", from |-> {}] \in Data
  BY DEF Data
<1>4. disk \in [Files -> Data]
  <2>1. CASE \E e \in Editions : disk = [f \in Files |-> Reselected(f, e)]
    BY <1>2, <2>1
  <2>2. CASE disk = [f \in Files |-> [state |-> "absent", from |-> {}]]
    BY <1>3, <2>2
  <2> QED BY <2>1, <2>2 DEF Init
<1>5. detours \in 0..MaxDetours /\ crashes \in 0..MaxCrashes /\ passed \in 0..Len(Order)
  BY <1>0 DEF Init, Order
<1>6. script = "none" /\ pos \in Nat /\ open = FALSE /\ edition \in Options /\ force = FALSE
  BY <1>0 DEF Init
<1>7. campaign \in Campaigns /\ spoilt \subseteq Files
  BY DEF Init
<1> QED BY <1>4, <1>5, <1>6, <1>7 DEF TypeOK, Data, Options

\* The variables keep their types, whatever the campaigns and the bounds.
THEOREM TypesHold == Spec => []TypeOK
BY InitTyped, TypeStep, PTL DEF Spec
-----------------------------------------------------------------------------
(* The embeddings *)

\* However often a script is interrupted, the file at the embeddings' path was
\* written to the end.
THEOREM EmbeddingsAreWhole == Spec => []EmbeddingsNeverTorn
<1>0. "embeddings" \in Files
  BY FilesAre DEF MadeFrom
<1>1. Init => EmbeddingsNeverTorn
  <2>1. \A e : Reselected("embeddings", e).state = "whole"
    BY DEF Reselected, Whole
  <2>2. ASSUME Init PROVE disk["embeddings"].state \in {"whole", "absent"}
    <3>1. CASE \E e \in Editions : disk = [f \in Files |-> Reselected(f, e)]
      BY <1>0, <2>1, <3>1
    <3>2. CASE disk = [f \in Files |-> [state |-> "absent", from |-> {}]]
      BY <1>0, <3>2
    <3> QED BY <2>2, <3>1, <3>2 DEF Init
  <2> QED BY <2>2 DEF EmbeddingsNeverTorn
<1>2. TypeOK /\ EmbeddingsNeverTorn /\ [Next]_vars => EmbeddingsNeverTorn'
  <2> SUFFICES ASSUME TypeOK, EmbeddingsNeverTorn, [Next]_vars PROVE EmbeddingsNeverTorn'
    OBVIOUS
  <2>0. DOMAIN disk = Files
    BY DEF TypeOK
  <2>1. CASE UNCHANGED disk
    BY <2>1 DEF EmbeddingsNeverTorn
  <2>2. CASE Open
    BY <1>0, <2>0, <2>2 DEF Open, EmbeddingsNeverTorn
  <2>3. CASE Close
    <3>1. Made.state # "torn"
      BY <2>3, MadeTyped DEF Close, TypeOK
    <3>2. disk' = [disk EXCEPT ![This.file] = Made]
      BY <2>3 DEF Close
    <3> QED BY <1>0, <2>0, <3>1, <3>2 DEF EmbeddingsNeverTorn
  <2> QED BY <2>1, <2>2, <2>3, StepKinds DEF Start, Skip, Stop, vars
<1> QED BY <1>1, <1>2, TypesHold, PTL DEF Spec
-----------------------------------------------------------------------------
(* A pass in order *)

\* The files a forced build of Tantivy's index does not repair, and the report
\* that has them all.
Tantivys == {"tantivy_index", "tantivy_run", "tantivy_eval", "latency", "baselines"}

\* The running script is the next of the pass, with the options of the pass.
Clean ==
    /\ ~Idle /\ passed < Len(Order) /\ script = Order[passed + 1]
    /\ edition = Default(script) /\ (Steps[script][1].file \in Indexes => force)

\* The pass has written f.
Done(f) ==
    \/ \E n \in 1..passed : \E i \in DOMAIN Steps[Order[n]] : Writes(Order[n], i, f)
    \/ Clean /\ \E i \in 1..(pos - 1) : Writes(script, i, f)

PassInv ==
    /\ ~Idle /\ passed > 0 => Clean
    /\ \A f \in Files \ Tantivys : Done(f) /\ ~(open /\ This.file = f) => disk[f] = Whole(f)

LEMMA OrderIs ==
    /\ Len(Order) = 17 /\ \A n \in 1..17 : Order[n] \in Scripts
    /\ Order[1] = "export" /\ Order[2] = "lucene" /\ Order[3] = "tantivy" /\ Order[4] = "latency"
    /\ Order[5] = "cascade_bm25" /\ Order[6] = "query_cost" /\ Order[7] = "report"
    /\ Order[8] = "phase1_report" /\ Order[9] = "subset" /\ Order[10] = "encode"
    /\ Order[11] = "ground_truth" /\ Order[12] = "ann_sweep" /\ Order[13] = "fusion"
    /\ Order[14] = "dense_report" /\ Order[15] = "encode_candidates"
    /\ Order[16] = "phase4_driver" /\ Order[17] = "rank_report"
BY ScriptsAre DEF Order

\* Script n of the order writes f.
Written(n, f) == \E i \in DOMAIN Steps[Order[n]] : Writes(Order[n], i, f)

LEMMA WrittenAre ==
    /\ Written(1, "topics") /\ Written(1, "jsonl") /\ Written(1, "tsv")
    /\ Written(2, "lucene_index") /\ Written(2, "lucene_run") /\ Written(2, "manifest")
    /\ Written(3, "tantivy_index") /\ Written(3, "tantivy_run") /\ Written(5, "cascade_index")
    /\ Written(5, "run_dl") /\ Written(5, "run_dev") /\ Written(6, "query_cost")
    /\ Written(7, "lucene_eval") /\ Written(7, "tantivy_eval") /\ Written(7, "cascade_dl_eval")
    /\ Written(7, "cascade_dev_eval") /\ Written(9, "subset")
    /\ Written(10, "embeddings") /\ Written(10, "docids") /\ Written(10, "queries")
    /\ Written(11, "gt_dev") /\ Written(11, "gt_dl") /\ Written(12, "sweep")
    /\ Written(13, "fusion") /\ Written(15, "texts") /\ Written(15, "scores")
    /\ Written(16, "prerank") /\ Written(16, "batching") /\ Written(16, "precision")
    /\ Written(16, "queue")
<1> DEFINE P(n, i, f) == i \in DOMAIN Steps[Order[n]] /\ Writes(Order[n], i, f)
<1>1. \A n, i, f : P(n, i, f) => Written(n, f)
  BY DEF Written
<1>2. \A n, i, f : n \in 1..17 /\ Writes(Order[n], i, f) => P(n, i, f)
  BY DEF Writes
<1> HIDE DEF P
<1>3. \A n, i, f : n \in 1..17 /\ Writes(Order[n], i, f) => Written(n, f)
  BY <1>1, <1>2
<1>4. Written(1, "topics") /\ Written(1, "jsonl") /\ Written(1, "tsv")
  <2>1. Order[1] = "export"
    BY OrderIs
  <2>2. /\ Writes(Order[1], 1, "topics")
        /\ Writes(Order[1], 2, "jsonl")
        /\ Writes(Order[1], 3, "tsv")
    BY <2>1, WritesAre
  <2> QED BY <1>3, <2>2
<1>5. Written(2, "lucene_index") /\ Written(2, "lucene_run") /\ Written(2, "manifest")
  <2>1. Order[2] = "lucene"
    BY OrderIs
  <2> QED BY <1>3, <2>1, WritesAre
<1>6. Written(3, "tantivy_index") /\ Written(3, "tantivy_run")
  <2>1. Order[3] = "tantivy"
    BY OrderIs
  <2> QED BY <1>3, <2>1, WritesAre
<1>7. Written(5, "cascade_index") /\ Written(5, "run_dl") /\ Written(5, "run_dev")
  <2>1. Order[5] = "cascade_bm25"
    BY OrderIs
  <2> QED BY <1>3, <2>1, WritesAre
<1>8. Written(6, "query_cost")
  <2>1. Order[6] = "query_cost"
    BY OrderIs
  <2> QED BY <1>3, <2>1, WritesAre
<1>9. /\ Written(7, "lucene_eval") /\ Written(7, "tantivy_eval")
      /\ Written(7, "cascade_dl_eval") /\ Written(7, "cascade_dev_eval")
  <2>1. Order[7] = "report"
    BY OrderIs
  <2> QED BY <1>3, <2>1, WritesAre
<1>10. Written(9, "subset")
  <2>1. Order[9] = "subset"
    BY OrderIs
  <2> QED BY <1>3, <2>1, WritesAre
<1>11. Written(10, "embeddings") /\ Written(10, "docids") /\ Written(10, "queries")
  <2>1. Order[10] = "encode"
    BY OrderIs
  <2> QED BY <1>3, <2>1, WritesAre
<1>12. Written(11, "gt_dev") /\ Written(11, "gt_dl")
  <2>1. Order[11] = "ground_truth"
    BY OrderIs
  <2>2. /\ Writes(Order[11], 1, "gt_dev")
        /\ Writes(Order[11], 2, "gt_dl")
    BY <2>1, WritesAre
  <2> QED BY <1>3, <2>2
<1>13. Written(12, "sweep")
  <2>1. Order[12] = "ann_sweep"
    BY OrderIs
  <2> QED BY <1>3, <2>1, WritesAre
<1>14. Written(13, "fusion")
  <2>1. Order[13] = "fusion"
    BY OrderIs
  <2> QED BY <1>3, <2>1, WritesAre
<1>15. Written(15, "texts") /\ Written(15, "scores")
  <2>1. Order[15] = "encode_candidates"
    BY OrderIs
  <2> QED BY <1>3, <2>1, WritesAre
<1>16. /\ Written(16, "prerank") /\ Written(16, "batching")
       /\ Written(16, "precision") /\ Written(16, "queue")
  <2>1. Order[16] = "phase4_driver"
    BY OrderIs
  <2>2. /\ Writes(Order[16], 1, "prerank")
        /\ Writes(Order[16], 2, "batching")
        /\ Writes(Order[16], 3, "precision")
        /\ Writes(Order[16], 4, "queue")
    BY <2>1, WritesAre
  <2> QED BY <1>3, <2>2
<1> QED BY <1>4, <1>5, <1>6, <1>7, <1>8, <1>9, <1>10, <1>11, <1>12, <1>13, <1>14, <1>15, <1>16

\* Everything a script of the order reads, one before it or an earlier step
\* of its own writes.
LEMMA InputsComeFirst ==
    ASSUME NEW n \in 1..17, NEW i, NEW t, IsStep(Order[n], i, t), NEW r \in t.reads
    PROVE  \/ \E m \in 1..(n - 1) : Written(m, r)
           \/ \E j \in 1..(i - 1) : Writes(Order[n], j, r)
<1> DEFINE Earlier(k) == \E m \in 1..(k - 1) : Written(m, r)
<1>0. \A k, m \in 1..17 : m < k /\ Written(m, r) => Earlier(k)
  OBVIOUS
<1> HIDE DEF Earlier
<1>1. CASE n = 1
  BY <1>1, StepTable, OrderIs DEF Step, ExportQueries, ExportDocs, ExportTsv
<1>2. CASE n = 2
  <2>1. Written(1, "jsonl") /\ Written(1, "topics") /\ Writes(Order[2], 1, "lucene_index")
    BY WrittenAre, WritesAre, OrderIs
  <2>2. (i = 1 /\ r = "jsonl") \/ (i = 2 /\ r \in {"lucene_index", "topics"})
    BY <1>2, StepTable, OrderIs DEF Step, LuceneIndex, LuceneSearch, AppendManifest
  <2> QED BY <1>0, <1>2, <2>1, <2>2 DEF Earlier
<1>3. CASE n = 3
  <2>1. Writes(Order[3], 1, "tantivy_index")
    BY WritesAre, OrderIs
  <2>2. i = 2 /\ r = "tantivy_index"
    BY <1>3, StepTable, OrderIs DEF Step, TantivyIndex, TantivySearch, AppendManifest
  <2> QED BY <1>3, <2>1, <2>2
<1>4. CASE n = 4
  <2>1. r = "tantivy_index"
    BY <1>4, StepTable, OrderIs DEF Step
  <2> QED BY <1>4, <2>1, WrittenAre
<1>5. CASE n = 5
  <2>1. Writes(Order[5], 1, "cascade_index") /\ Written(1, "tsv")
    BY WritesAre, WrittenAre, OrderIs
  <2>2. (i = 1 /\ r = "tsv") \/ (i \in {2, 4} /\ r = "cascade_index")
    BY <1>5, StepTable, OrderIs DEF Step, CascadeIndex, CascadeSearch, AppendManifest
  <2> QED BY <1>5, <2>1, <2>2
<1>6. CASE n = 6
  <2>1. r = "cascade_index"
    BY <1>6, StepTable, OrderIs DEF Step
  <2> QED BY <1>6, <2>1, WrittenAre
<1>7. CASE n = 7
  <2>1. /\ Writes(Order[7], 1, "lucene_eval") /\ Writes(Order[7], 2, "tantivy_eval")
        /\ Writes(Order[7], 3, "cascade_dl_eval") /\ Writes(Order[7], 4, "cascade_dev_eval")
    BY WritesAre, OrderIs
  <2>2. \/ r \in {"manifest", "lucene_run", "tantivy_run", "run_dl", "run_dev"}
        \/ i = 5 /\ r \in {"lucene_eval", "tantivy_eval", "cascade_dl_eval", "cascade_dev_eval"}
    BY <1>7, StepTable, OrderIs DEF Step, EvaluateRun, Evaluations, CascadeEvaluations
  <2> QED BY <1>7, <2>1, <2>2, WrittenAre
<1>8. CASE n = 8
  <2>1. r \in {"manifest", "run_dl", "run_dev", "cascade_dl_eval", "cascade_dev_eval", "query_cost"}
    BY <1>8, StepTable, OrderIs DEF Step, EvaluateRun, CascadeEvaluations
  <2> QED BY <1>8, <2>1, WrittenAre
<1>9. CASE n = 9
  BY <1>9, StepTable, OrderIs DEF Step, WriteSubset
<1>10. CASE n = 10
  <2>1. r = "subset"
    BY <1>10, StepTable, OrderIs DEF Step, EncodePassages, SaveDocids, EncodeQueries
  <2> QED BY <1>10, <2>1, WrittenAre
<1>11. CASE n = 11
  <2>1. r \in {"embeddings", "docids", "queries"}
    BY <1>11, StepTable, OrderIs DEF Step, Dense
  <2> QED BY <1>11, <2>1, WrittenAre
<1>12. CASE n = 12
  <2>1. r \in {"embeddings", "docids", "queries", "gt_dev"}
    BY <1>12, StepTable, OrderIs DEF Step, Dense
  <2> QED BY <1>12, <2>1, WrittenAre
<1>13. CASE n = 13
  <2>1. r \in {"manifest", "run_dl", "gt_dl"}
    BY <1>13, StepTable, OrderIs DEF Step, FusionRuns
  <2> QED BY <1>13, <2>1, WrittenAre
<1>14. CASE n = 14
  <2>1. r \in {"sweep", "fusion"}
    BY <1>14, StepTable, OrderIs DEF Step
  <2> QED BY <1>14, <2>1, WrittenAre
<1>15. CASE n = 15
  <2>1. r \in {"run_dl", "run_dev"}
    BY <1>15, StepTable, OrderIs DEF Step, CollectTexts, DenseScores
  <2> QED BY <1>15, <2>1, WrittenAre
<1>16. CASE n = 16
  <2>1. r \in {"run_dl", "run_dev", "scores", "texts"}
    BY <1>16, StepTable, OrderIs
       DEF Step, PrerankAndConsistency, Batching, Precision, QueueDisciplines, RequestPairs, Candidates
  <2> QED BY <1>16, <2>1, WrittenAre
<1>17. CASE n = 17
  <2>1. r \in {"prerank", "batching", "precision", "queue"}
    BY <1>17, StepTable, OrderIs DEF Step
  <2> QED BY <1>17, <2>1, WrittenAre
<1> QED
  BY <1>1, <1>2, <1>3, <1>4, <1>5, <1>6, <1>7, <1>8, <1>9, <1>10, <1>11, <1>12,
     <1>13, <1>14, <1>15, <1>16, <1>17

\* What Whole says, file by file.
LEMMA WholeFrom ==
    ASSUME NEW f
    PROVE  /\ Whole(f).state = "whole" /\ Whole(f) = [state |-> "whole", from |-> Whole(f).from]
           /\ f \in {"topics", "manifest", "queries"} => Whole(f).from = {}
           /\ f = "subset" => Whole(f).from = {<<"subset", Deployed>>}
           /\ f \in {"embeddings", "docids", "gt_dev", "gt_dl", "sweep"}
                => Whole(f).from = {<<"subset", Deployed>>, <<"limit", NoLimit>>}
           /\ f \in {"fusion", "phase3"}
                => Whole(f).from = {<<"corpus", Deployed>>, <<"subset", Deployed>>, <<"limit", NoLimit>>}
           /\ f \notin {"topics", "manifest", "queries", "subset", "embeddings", "docids",
                        "gt_dev", "gt_dl", "sweep", "fusion", "phase3"}
                => Whole(f).from = {<<"corpus", Deployed>>}
BY DEF Whole

\* A step made from what the pass has written writes what the pass should.
LEMMA MadeIsWhole ==
    ASSUME NEW f, NEW R, f = This.file, R = This.reads, MadeFrom(f, R), f \notin Tantivys,
           IsStep(script, pos, This), edition = Default(script), \A r \in R : disk[r] = Whole(r)
    PROVE  Made = Whole(f)
<1>1. ~Added
  BY DEF Added, Tantivys
<1>2. \A r \in R : disk[r].state = "whole" /\ disk[r].from = Whole(r).from
  BY WholeFrom
<1>3. Made.state = "whole" /\ Made = [state |-> "whole", from |-> Made.from]
  BY <1>1, <1>2 DEF Made
<1>4. \A x : x \in Made.from <=> x \in Mark(f, edition) \/ \E g \in R : x \in Whole(g).from
  BY <1>1, <1>2 DEF Made
<1> DEFINE C == <<"corpus", Deployed>>
           S == <<"subset", Deployed>>
           L == <<"limit", NoLimit>>
<1>5. /\ f \in {"jsonl", "tsv"} => Mark(f, edition) = {C}
      /\ f = "subset" => Mark(f, edition) = {S}
      /\ f \in {"embeddings", "docids"} => Mark(f, edition) = {L}
      /\ f \notin {"jsonl", "tsv", "subset", "embeddings", "docids"} => Mark(f, edition) = {}
  <2>1. f \in {"embeddings", "docids"} => edition = NoLimit
    BY Writers DEF Default
  <2>2. f \in {"jsonl", "tsv", "subset"} => edition = Deployed
    BY Writers DEF Default
  <2> QED BY <2>1, <2>2, MarksAre DEF Tantivys
<1>6. \A x : x \in Made.from <=> x \in Whole(f).from
  <2> HIDE DEF C, S, L
  <2>1. /\ Whole("topics").from = {} /\ Whole("manifest").from = {} /\ Whole("queries").from = {}
        /\ Whole("jsonl").from = {C} /\ Whole("tsv").from = {C} /\ Whole("lucene_index").from = {C}
        /\ Whole("lucene_run").from = {C} /\ Whole("cascade_index").from = {C}
        /\ Whole("run_dl").from = {C} /\ Whole("run_dev").from = {C}
        /\ Whole("query_cost").from = {C} /\ Whole("lucene_eval").from = {C}
        /\ Whole("cascade_dl_eval").from = {C} /\ Whole("cascade_dev_eval").from = {C}
        /\ Whole("phase1").from = {C}
        /\ Whole("texts").from = {C} /\ Whole("scores").from = {C} /\ Whole("prerank").from = {C}
        /\ Whole("precision").from = {C} /\ Whole("batching").from = {C}
        /\ Whole("queue").from = {C} /\ Whole("phase4").from = {C} /\ Whole("subset").from = {S}
    BY WholeFrom DEF C, S
  <2>2. /\ Whole("embeddings").from = {S, L} /\ Whole("docids").from = {S, L}
        /\ Whole("gt_dev").from = {S, L} /\ Whole("gt_dl").from = {S, L} /\ Whole("sweep").from = {S, L}
        /\ Whole("fusion").from = {C, S, L} /\ Whole("phase3").from = {C, S, L}
    BY WholeFrom DEF C, S, L
  <2>3. CASE f \in {"topics", "jsonl", "tsv", "queries", "manifest", "subset"}
    BY <1>4, <1>5, <2>1, <2>3 DEF MadeFrom
  <2>4. CASE f \in {"lucene_index", "lucene_run", "cascade_index", "run_dl", "run_dev", "query_cost"}
    BY <1>4, <1>5, <2>1, <2>4 DEF MadeFrom
  <2>5. CASE f \in {"lucene_eval", "cascade_dl_eval", "cascade_dev_eval", "phase1"}
    BY <1>4, <1>5, <2>1, <2>5 DEF MadeFrom
  <2>6. CASE f \in {"embeddings", "docids"}
    BY <1>4, <1>5, <2>1, <2>2, <2>6 DEF MadeFrom
  <2>7. CASE f \in {"gt_dev", "gt_dl", "sweep"}
    BY <1>4, <1>5, <2>1, <2>2, <2>7 DEF MadeFrom, Dense
  <2>8. CASE f \in {"fusion", "phase3"}
    BY <1>4, <1>5, <2>1, <2>2, <2>8 DEF MadeFrom
  <2>9. CASE f \in {"texts", "scores", "prerank", "precision", "batching", "queue", "phase4"}
    BY <1>4, <1>5, <2>1, <2>9 DEF MadeFrom, Candidates
  <2> QED BY <2>3, <2>4, <2>5, <2>6, <2>7, <2>8, <2>9 DEF MadeFrom, Tantivys
<1>7. Made.from = Whole(f).from
  BY <1>6
<1> QED BY <1>3, <1>7, WholeFrom

\* What the running script of the pass reads, the pass has written.
LEMMA ReadsAreDone ==
    ASSUME TypeOK, PassInv, Clean, This.file \notin Tantivys
    PROVE  \A r \in This.reads : disk[r] = Whole(r)
<1>1. ~Idle /\ passed + 1 \in 1..17 /\ script = Order[passed + 1] /\ passed \in 0..16
  BY OrderIs DEF Clean, TypeOK
<1>2. /\ IsStep(script, pos, This) /\ MadeFrom(This.file, This.reads)
      /\ This.reads \subseteq Files /\ This.file \notin This.reads
  BY <1>1, Running
<1>3. ASSUME NEW r \in This.reads PROVE disk[r] = Whole(r)
  <2>1. r \in Files \ Tantivys
    BY <1>2 DEF MadeFrom, Tantivys, Dense, Candidates
  <2>2. \/ \E m \in 1..passed : Written(m, r)
        \/ \E j \in 1..(pos - 1) : Writes(script, j, r)
    <3>1. (passed + 1) - 1 = passed
      BY <1>1
    <3> HIDE DEF This
    <3> QED BY <1>1, <1>2, <3>1, InputsComeFirst
  <2>3. Done(r)
    BY <2>2 DEF Done, Written
  <2>4. This.file # r
    BY <1>2
  <2> QED BY <2>1, <2>3, <2>4 DEF PassInv
<1> QED BY <1>3

LEMMA PassInit == Init => PassInv
<1> SUFFICES ASSUME Init PROVE PassInv
  OBVIOUS
<1>1. Idle /\ passed = 0 /\ 1..passed = {}
  BY DEF Init, Idle
<1>2. ~Clean /\ \A f : ~Done(f)
  BY <1>1 DEF Clean, Done
<1> QED BY <1>1, <1>2 DEF PassInv

LEMMA PassStep == TypeOK /\ PassInv /\ [Next]_vars => PassInv'
<1> SUFFICES ASSUME TypeOK, PassInv, [Next]_vars PROVE PassInv'
  OBVIOUS
<1>0. /\ passed \in 0..17 /\ DOMAIN disk = Files /\ pos \in Nat
      /\ ~Idle => pos \in 1..Len(Steps[script]) /\ Len(Steps[script]) \in Nat /\ script \in Scripts
  BY OrderIs, Running DEF TypeOK
\* With no script of the pass running and none ended, nothing is done.
<1>n. passed' = 0 /\ ~Clean' => PassInv'
  BY DEF PassInv, Done
<1>1. CASE UNCHANGED vars
  BY <1>1 DEF PassInv, Done, Clean, Idle, This, vars
<1>2. CASE Idle /\ StartNext
  <2>1. /\ script' = Order[passed + 1] /\ pos' = 1 /\ open' = FALSE /\ edition' = Default(script') /\ force' = TRUE
        /\ passed < Len(Order) /\ UNCHANGED <<disk, passed>>
    BY <1>2 DEF StartNext, Start
  <2>2. Clean'
    <3>1. script' \in Scripts /\ "none" \notin Scripts
      BY <1>0, <2>1, OrderIs, ScriptsAre
    <3> QED BY <2>1, <3>1 DEF Clean, Idle
  <2>3. ASSUME NEW f, Done(f)' PROVE Done(f)
    <3>1. 1..(pos' - 1) = {}
      BY <2>1
    <3> QED BY <2>1, <2>3, <3>1 DEF Done
  <2>4. ~open
    BY <1>2 DEF TypeOK
  <2> QED BY <2>1, <2>2, <2>3, <2>4 DEF PassInv
<1>3. CASE Idle /\ \E s \in Scripts, e \in Options, f \in BOOLEAN : Detour(s, e, f)
  <2>1. PICK s \in Scripts, e \in Options, f \in BOOLEAN : Detour(s, e, f)
    BY <1>3
  <2>2. /\ script' = s /\ pos' = 1 /\ open' = FALSE /\ passed' = 0 /\ UNCHANGED disk
    BY <2>1 DEF Detour, Start
  <2>3. \A g : ~Done(g)'
    <3>1. 1..(pos' - 1) = {} /\ 1..passed' = {}
      BY <2>2
    <3> QED BY <3>1 DEF Done
  <2> QED BY <2>2, <2>3 DEF PassInv
<1>4. CASE Skip
  <2>1. /\ ~Idle /\ ~open /\ Skipped /\ pos' = pos + 1
        /\ UNCHANGED <<disk, script, open, edition, force, passed>>
    BY <1>4 DEF Skip
  <2>2. /\ This.file \in Files /\ IsStep(script, pos, This) /\ (Clean <=> Clean')
    BY <2>1, Running DEF Clean, Idle
  <2>3. CASE ~Clean
    <3>1. passed' = 0
      BY <1>0, <2>1, <2>3 DEF PassInv
    <3> QED BY <1>n, <2>2, <2>3, <3>1
  <2>4. CASE Clean
    <3>1. This.file \in Tantivys
      <4>1. ~IndexPresent
        <5> SUFFICES ASSUME IndexPresent PROVE FALSE
          OBVIOUS
        <5>1. This.file \in Indexes /\ ~force
          BY DEF IndexPresent
        <5>2. pos = 1
          BY <2>2, <5>1, Writers
        <5> QED BY <2>4, <5>1, <5>2 DEF This, Clean
      <4>2. PICK r \in This.reads : disk[r].state = "absent"
        BY <2>1, <4>1 DEF Skipped, RunMissing, Exists
      <4> SUFFICES ASSUME This.file \notin Tantivys PROVE FALSE
        OBVIOUS
      <4>3. disk[r] = Whole(r)
        BY <2>4, ReadsAreDone
      <4> QED BY <4>2, <4>3, WholeFrom
    <3>2. ASSUME NEW f \in Files \ Tantivys, Done(f)' PROVE Done(f)
      <4>1. ~Writes(script, pos, f)
        BY <3>1 DEF Writes, This
      <4>2. \A i \in 1..(pos' - 1) : i = pos \/ i \in 1..(pos - 1)
        BY <1>0, <2>1
      <4> QED BY <2>1, <2>4, <3>2, <4>1, <4>2 DEF Done
    <3> QED BY <2>1, <2>2, <2>4, <3>2 DEF PassInv
  <2> QED BY <2>3, <2>4
<1>5. CASE Open
  <2>1. /\ ~Idle /\ open' /\ UNCHANGED <<script, pos, edition, force, passed>>
        /\ \A f \in Files : f # This.file => disk'[f] = disk[f]
    BY <1>0, <1>5 DEF Open
  <2>2. This' = This /\ (Clean <=> Clean') /\ (Idle <=> Idle')
    BY <2>1 DEF This, Clean, Idle
  <2>3. \A f : Done(f) <=> Done(f)'
    BY <2>1, <2>2 DEF Done
  <2> QED BY <2>1, <2>2, <2>3 DEF PassInv
<1>6. CASE Close
  <2>1. /\ open /\ ~Idle /\ ~open' /\ UNCHANGED <<edition, force>>
        /\ disk' = [disk EXCEPT ![This.file] = Made]
    BY <1>6 DEF Close, TypeOK
  <2>2. This.file \in Files /\ IsStep(script, pos, This) /\ MadeFrom(This.file, This.reads)
    BY <2>1, Running
  <2>3. CASE ~Clean
    <3>1. passed = 0
      BY <1>0, <2>1, <2>3 DEF PassInv
    <3>2. passed' = 0
      BY <1>6, <2>1, <2>3, <3>1 DEF Close, Clean
    <3>3. ~Clean'
      <4>1. CASE pos < Len(Steps[script])
        BY <1>6, <2>1, <2>3, <3>1, <4>1 DEF Close, Clean, Idle
      <4>2. CASE ~(pos < Len(Steps[script]))
        BY <1>6, <4>2 DEF Close, Clean, Idle
      <4> QED BY <4>1, <4>2
    <3> QED BY <1>n, <3>2, <3>3
  <2>4. CASE Clean
    <3>1. ASSUME NEW f, Done(f)', f # This.file PROVE Done(f)
      <4>1. CASE pos < Len(Steps[script])
        <5>1. script' = script /\ pos' = pos + 1 /\ passed' = passed
          BY <1>6, <4>1 DEF Close
        <5>2. ~Writes(script, pos, f)
          BY <3>1 DEF Writes, This
        <5>3. \A i \in 1..(pos' - 1) : i = pos \/ i \in 1..(pos - 1)
          BY <1>0, <5>1
        <5> QED BY <2>4, <3>1, <5>1, <5>2, <5>3 DEF Done
      <4>2. CASE ~(pos < Len(Steps[script]))
        <5>1. script' = "none" /\ passed' = passed + 1
          BY <1>6, <2>4, <4>2 DEF Close, Clean
        <5>2. PICK n \in 1..(passed + 1) : \E i \in DOMAIN Steps[Order[n]] : Writes(Order[n], i, f)
          BY <3>1, <5>1 DEF Done, Clean, Idle
        <5>3. CASE n \in 1..passed
          BY <5>2, <5>3 DEF Done
        <5>4. CASE n = passed + 1
          <6>1. PICK i \in DOMAIN Steps[script] : Writes(script, i, f)
            BY <2>4, <5>2, <5>4 DEF Clean
          <6>2. i # pos
            BY <3>1, <6>1 DEF Writes, This
          <6>3. DOMAIN Steps[script] = 1..Len(Steps[script]) /\ pos = Len(Steps[script])
            BY <1>0, <2>1, <4>2, Lengths
          <6>4. i \in 1..(pos - 1)
            BY <1>0, <2>1, <6>1, <6>2, <6>3
          <6> QED BY <2>4, <6>1, <6>4 DEF Done
        <5> QED BY <1>0, <5>2, <5>3, <5>4
      <4> QED BY <4>1, <4>2
    <3>2. ASSUME NEW f \in Files \ Tantivys, Done(f)', f # This.file PROVE disk'[f] = Whole(f)
      BY <1>0, <2>1, <3>1, <3>2 DEF PassInv
    <3>3. This.file \notin Tantivys => disk'[This.file] = Whole(This.file)
      <4> SUFFICES ASSUME This.file \notin Tantivys PROVE Made = Whole(This.file)
        BY <1>0, <2>1, <2>2
      <4>1. \A r \in This.reads : disk[r] = Whole(r)
        BY <2>4, ReadsAreDone
      <4>2. edition = Default(script)
        BY <2>4 DEF Clean
      <4> QED BY <2>2, <4>1, <4>2, MadeIsWhole
    <3>4. (~Idle)' => Clean'
      BY <1>6, <2>4 DEF Close, Clean, Idle
    <3> QED BY <3>2, <3>3, <3>4 DEF PassInv
  <2> QED BY <2>3, <2>4
<1>7. CASE Stop
  <2>1. script' = "none" /\ passed' = 0
    BY <1>7 DEF Stop
  <2> QED BY <1>n, <2>1 DEF Clean, Idle
<1> QED BY <1>1, <1>2, <1>3, <1>4, <1>5, <1>6, <1>7, StepKinds

\* After a pass over all scripts in order, the builds forced, every result but
\* Tantivy's is whole and of the deployed editions, whatever the files held
\* before it and whatever was interrupted.
THEOREM PassRepairs == Spec => []RerunRepairs
<1>1. TypeOK /\ PassInv => RerunRepairs
  <2> SUFFICES ASSUME TypeOK, PassInv, passed = Len(Order),
                      NEW f \in DOMAIN Suspects \ {"tantivy_eval", "latency"}
               PROVE  disk[f] = Whole(f)
    BY DEF RerunRepairs
  <2>1. passed = 17 /\ ~Clean
    BY OrderIs DEF Clean
  <2>2. Idle /\ ~open
    BY <2>1 DEF PassInv, TypeOK
  <2>3. f \in {"lucene_eval", "cascade_dl_eval", "cascade_dev_eval", "query_cost", "gt_dev", "gt_dl", "sweep", "fusion",
               "prerank", "batching", "precision", "queue"}
    BY DEF Suspects
  <2>4. f \in Files \ Tantivys
    BY <2>3, FilesAre DEF MadeFrom, Tantivys
  <2>5. \E n \in 1..17 : Written(n, f)
    BY <2>3, WrittenAre
  <2>6. Done(f)
    BY <2>1, <2>5 DEF Done, Written
  <2> QED BY <2>2, <2>4, <2>6 DEF PassInv
<1>2. Spec => [](TypeOK /\ PassInv)
  BY InitTyped, TypeStep, PassInit, PassStep, PTL DEF Spec
<1> QED BY <1>1, <1>2, PTL
-----------------------------------------------------------------------------
(* What the files are made from *)

\* Made of one corpus export; of one subset; and what may be of more.
OfOneCorpus == {"jsonl", "tsv", "lucene_index", "lucene_run", "lucene_eval", "cascade_index",
                "run_dl", "run_dev", "query_cost", "cascade_dl_eval", "cascade_dev_eval"}
Arrays == {"embeddings", "docids"}
OfCorpora == {"texts", "scores", "prerank", "precision", "batching", "queue"}
OfSubsets == {"gt_dev", "gt_dl", "sweep"}

From(f) == disk[f].from

\* d is made from what f is made from.
FromOK(f, d) ==
    /\ f \in {"topics", "queries", "manifest"} => d.from = {}
    /\ f \in OfOneCorpus /\ d.state # "absent" => \E e : d.from = {<<"corpus", e>>}
    /\ f = "subset" /\ d.state # "absent" => \E e : d.from = {<<"subset", e>>}
    /\ f \in Arrays /\ d.state # "absent" => \E e, l : d.from = {<<"subset", e>>, <<"limit", l>>}
    /\ f \in OfCorpora => \A t \in d.from : t[1] = "corpus"
    /\ f \in OfSubsets => \A t \in d.from : t[1] \in {"subset", "limit"}

\* The files that make f unsound when they are spoilt.
Cause(f) ==
    CASE f \in {"topics", "jsonl", "tsv"} -> {f}
      [] f = "lucene_index" -> {"jsonl"}
      [] f \in {"lucene_run", "lucene_eval"} -> {"topics", "jsonl", "lucene_run"}
      [] f \in {"tantivy_index", "latency"} -> {"tantivy_index"}
      [] f \in {"tantivy_run", "tantivy_eval"} -> {"tantivy_index", "tantivy_run"}
      [] f \in {"cascade_index", "query_cost"} -> {"tsv", "cascade_index"}
      [] f \in {"run_dl", "run_dev"} -> {"tsv", "cascade_index", f}
      [] f = "cascade_dl_eval" -> {"tsv", "cascade_index", "run_dl"}
      [] f = "cascade_dev_eval" -> {"tsv", "cascade_index", "run_dev"}
      [] f \in OfCorpora -> Lexical
      [] f \in Arrays \cup {"subset"} -> {"subset"}
      [] f \in {"gt_dev", "gt_dl"} -> {"docids"}
      [] f = "sweep" -> {"subset", "docids"}
      [] f = "fusion" -> {"tsv", "cascade_index", "run_dl", "docids"}
      [] OTHER -> {}
Reports == {"baselines", "phase1", "phase3", "phase4"}

\* What Sound asks of the origins.
Pure(f, from) == IF f \in Compared THEN Kindred(from) ELSE ~Mixed(from)

\* With none of them spoilt, f is whole where it can be read, and pure.
CleanOK(f) ==
    Cause(f) \cap spoilt = {} =>
        /\ disk[f].state # "flawed" /\ Pure(f, From(f))
        /\ f \in Unframed /\ disk[f].state = "torn" => open /\ This.file = f

\* Between the two runs of an index, and between the two arrays of a subset.
BetweenRuns == script = "cascade_bm25" /\ (pos \in {3, 4} \/ (pos = 2 /\ open))
RunsAgree ==
    /\ BetweenRuns => From("run_dl") = From("cascade_index")
    /\ ~BetweenRuns /\ {"run_dl", "run_dev"} \cap spoilt = {} => From("run_dl") = From("run_dev")
    /\ open /\ script = "cascade_bm25" /\ pos = 2 => disk["run_dl"].state = "torn"
ArraysAgree ==
    /\ script = "encode" /\ pos = 2
         => From("embeddings") = From("subset") \cup {<<"limit", edition>>}
    /\ ~(script = "encode" /\ pos = 2 /\ ~open) /\ "docids" \notin spoilt
         => From("embeddings") = From("docids")

\* What a step has checked before it writes.
Ready ==
    /\ \A f \in This.reads \ Evaluations :
            disk[f].state \notin {"absent", "torn"} \/ (disk[f].state = "torn" /\ f \in Unframed)
    /\ Passes

SoundInv ==
    /\ open => Ready
    /\ \A f \in Files : FromOK(f, disk[f])
    /\ \A f \in Files \ Reports : CleanOK(f)
    /\ RunsAgree /\ ArraysAgree

LEMMA NotMixed ==
    /\ ~Mixed({})
    /\ \A r, e : ~Mixed({<<r, e>>})
    /\ \A e, l : ~Mixed({<<"subset", e>>, <<"limit", l>>})
    /\ \A S, T : /\ \A t \in S : t[1] = "corpus"
                 /\ \A t \in T : t[1] # "corpus"
                 /\ ~Mixed(S) /\ ~Mixed(T)
                 => ~Mixed(S \cup T)
BY DEF Mixed

\* What is not mixed is pure for every file.
LEMMA NotMixedIsPure == \A f, from : ~Mixed(from) => Pure(f, from)
BY DEF Mixed, Pure, Kindred, Near

LEMMA CauseIs ==
    ASSUME NEW f
    PROVE  /\ f \in {"topics", "jsonl", "tsv", "subset", "tantivy_index"} => Cause(f) = {f}
           /\ f = "lucene_index" => Cause(f) = {"jsonl"}
           /\ f \in {"lucene_run", "lucene_eval"} => Cause(f) = {"topics", "jsonl", "lucene_run"}
           /\ f = "latency" => Cause(f) = {"tantivy_index"}
           /\ f \in {"tantivy_run", "tantivy_eval"} => Cause(f) = {"tantivy_index", "tantivy_run"}
           /\ f \in {"cascade_index", "query_cost"} => Cause(f) = {"tsv", "cascade_index"}
           /\ f \in {"run_dl", "run_dev"} => Cause(f) = {"tsv", "cascade_index", f}
           /\ f \in OfCorpora => Cause(f) = {"tsv", "cascade_index", "run_dl", "run_dev"}
           /\ f = "cascade_dl_eval" => Cause(f) = {"tsv", "cascade_index", "run_dl"}
           /\ f = "cascade_dev_eval" => Cause(f) = {"tsv", "cascade_index", "run_dev"}
           /\ f \in Arrays => Cause(f) = {"subset"}
           /\ f \in {"gt_dev", "gt_dl"} => Cause(f) = {"docids"}
           /\ f = "sweep" => Cause(f) = {"subset", "docids"}
           /\ f = "fusion" => Cause(f) = {"tsv", "cascade_index", "run_dl", "docids"}
           /\ f \in {"queries", "manifest"} => Cause(f) = {}
           /\ f \in Unframed => f \in Cause(f)
           /\ f \in DOMAIN Suspects => Cause(f) = Suspects[f]
<1>1. CASE f \in OfCorpora
  BY <1>1 DEF Cause, OfCorpora, Arrays, Lexical, Unframed, Suspects
<1>2. CASE f \in {"lucene_eval", "tantivy_eval", "latency", "query_cost"}
  <2>1. f \notin OfCorpora \cup Arrays \cup {"subset"} \cup Unframed
    BY <1>2 DEF OfCorpora, Arrays, Unframed
  <2>2. /\ Cause("lucene_eval") = {"topics", "jsonl", "lucene_run"}
        /\ Cause("tantivy_eval") = {"tantivy_index", "tantivy_run"}
        /\ Cause("latency") = {"tantivy_index"}
        /\ Cause("query_cost") = {"tsv", "cascade_index"}
    BY DEF Cause, OfCorpora, Arrays
  <2>3. /\ Suspects["lucene_eval"] = {"topics", "jsonl", "lucene_run"}
        /\ Suspects["tantivy_eval"] = {"tantivy_index", "tantivy_run"}
        /\ Suspects["latency"] = {"tantivy_index"}
        /\ Suspects["query_cost"] = {"tsv", "cascade_index"}
    BY DEF Suspects
  <2> QED BY <1>2, <2>1, <2>2, <2>3
<1>3. CASE f \in {"cascade_dl_eval", "cascade_dev_eval", "fusion"}
  <2>1. f \notin OfCorpora \cup Arrays \cup {"subset"} \cup Unframed
    BY <1>3 DEF OfCorpora, Arrays, Unframed
  <2>2. /\ Cause("cascade_dl_eval") = {"tsv", "cascade_index", "run_dl"}
        /\ Cause("cascade_dev_eval") = {"tsv", "cascade_index", "run_dev"}
        /\ Cause("fusion") = {"tsv", "cascade_index", "run_dl", "docids"}
    BY DEF Cause, OfCorpora, Arrays
  <2>3. /\ Suspects["cascade_dl_eval"] = {"tsv", "cascade_index", "run_dl"}
        /\ Suspects["cascade_dev_eval"] = {"tsv", "cascade_index", "run_dev"}
        /\ Suspects["fusion"] = {"tsv", "cascade_index", "run_dl", "docids"}
    BY DEF Suspects
  <2> QED BY <1>3, <2>1, <2>2, <2>3
<1>4. CASE f \in {"gt_dev", "gt_dl", "sweep"}
  <2>1. f \notin OfCorpora \cup Arrays \cup {"subset"} \cup Unframed
    BY <1>4 DEF OfCorpora, Arrays, Unframed
  <2>2. /\ Cause("gt_dev") = {"docids"}
        /\ Cause("gt_dl") = {"docids"}
        /\ Cause("sweep") = {"subset", "docids"}
    BY DEF Cause, OfCorpora, Arrays
  <2>3. /\ Suspects["gt_dev"] = {"docids"}
        /\ Suspects["gt_dl"] = {"docids"}
        /\ Suspects["sweep"] = {"subset", "docids"}
    BY DEF Suspects
  <2> QED BY <1>4, <2>1, <2>2, <2>3
<1>5. CASE f \notin OfCorpora /\ f \notin DOMAIN Suspects
  BY <1>5 DEF Cause, OfCorpora, Arrays, Unframed, Suspects
<1> QED BY <1>1, <1>2, <1>3, <1>4, <1>5 DEF Suspects, OfCorpora

\* A file that is read, with none of its causes spoilt, is whole.
LEMMA ReadIsSound ==
    ASSUME TypeOK, SoundInv, ~Idle, Ready, NEW r \in This.reads,
           r \notin Reports \cup Evaluations \cup Compared, Cause(r) \cap spoilt = {}
    PROVE  disk[r].state = "whole" /\ ~Mixed(From(r))
<1>1. r \in Files \ Reports /\ r # This.file /\ disk[r].state \in {"absent", "torn", "flawed", "whole"}
  BY Running DEF Data
<1>2. CleanOK(r)
  BY <1>1 DEF SoundInv
<1>3. disk[r].state \notin {"absent", "torn"} \/ (disk[r].state = "torn" /\ r \in Unframed)
  BY DEF Ready
<1> QED BY <1>1, <1>2, <1>3 DEF CleanOK, Pure

\* What a step makes comes from what it reads.
LEMMA MadeOf ==
    ASSUME NEW x, ~Added
    PROVE  x \in Made.from <=> x \in Mark(This.file, edition) \/ \E g \in This.reads : x \in From(g)
BY DEF Made, From

LEMMA ReadOrigins ==
    ASSUME TypeOK, SoundInv, ~Idle, Ready, NEW r \in This.reads, r \notin Evaluations
    PROVE  /\ r \in {"topics", "queries", "manifest"} => From(r) = {}
           /\ r \in OfOneCorpus => \E e : From(r) = {<<"corpus", e>>}
           /\ r = "subset" => \E e : From(r) = {<<"subset", e>>}
           /\ r \in Arrays => \E e, l : From(r) = {<<"subset", e>>, <<"limit", l>>}
           /\ r \in OfCorpora => \A t \in From(r) : t[1] = "corpus"
           /\ r \in OfSubsets => \A t \in From(r) : t[1] \in {"subset", "limit"}
<1>1. FromOK(r, disk[r])
  BY Running DEF SoundInv
<1>2. disk[r].state # "absent"
  BY DEF Ready
<1> QED BY <1>1, <1>2 DEF FromOK, From

LEMMA MadeFromOK ==
    ASSUME TypeOK, SoundInv, ~Idle, Ready, NEW d, d.from = Made.from
    PROVE  FromOK(This.file, d)
<1> DEFINE f == This.file
           R == This.reads
<1>1. MadeFrom(f, R)
  BY Running
<1>2. CASE f \in {"topics", "queries", "manifest"}
  <2>1. ~Added /\ R = {} /\ Mark(f, edition) = {}
    BY <1>1, <1>2, MarksAre DEF Added, MadeFrom
  <2>2. Made.from = {}
    BY <2>1, MadeOf
  <2> QED BY <1>2, <2>2 DEF FromOK, OfOneCorpus, Arrays, OfCorpora, OfSubsets
<1>3. CASE f \in {"jsonl", "tsv", "subset"}
  <2>1. ~Added /\ R = {}
        /\ Mark(f, edition) = {<<IF f = "subset" THEN "subset" ELSE "corpus", edition>>}
    BY <1>1, <1>3, MarksAre DEF Added, MadeFrom
  <2>2. \A x : x \in Made.from <=> x = <<IF f = "subset" THEN "subset" ELSE "corpus", edition>>
    BY <2>1, MadeOf
  <2>3. Made.from = {<<IF f = "subset" THEN "subset" ELSE "corpus", edition>>}
    BY <2>2
  <2> QED BY <1>3, <2>3 DEF FromOK, OfOneCorpus, Arrays, OfCorpora, OfSubsets
<1>4. CASE f \in {"tantivy_index", "tantivy_run", "latency", "fusion"} \cup Reports
  BY <1>4 DEF FromOK, OfOneCorpus, Arrays, OfCorpora, OfSubsets, Reports
<1>5. CASE f = "tantivy_eval"
  BY <1>5 DEF FromOK, OfOneCorpus, Arrays, OfCorpora, OfSubsets
<1>6. CASE f \in Arrays
  <2>1. ~Added /\ R = {"subset"} /\ Mark(f, edition) = {<<"limit", edition>>}
    BY <1>1, <1>6, MarksAre DEF Added, MadeFrom, Arrays
  <2>2. PICK e : From("subset") = {<<"subset", e>>}
    BY <2>1, ReadOrigins DEF Evaluations, CascadeEvaluations
  <2>3. \A x : x \in Made.from <=> x = <<"limit", edition>> \/ x = <<"subset", e>>
    BY <2>1, <2>2, MadeOf
  <2>4. Made.from = {<<"subset", e>>, <<"limit", edition>>}
    BY <2>3
  <2> QED BY <1>6, <2>4 DEF FromOK, OfOneCorpus, Arrays, OfCorpora, OfSubsets
<1>7. CASE f \in (OfOneCorpus \cup OfCorpora \cup OfSubsets) \ {"jsonl", "tsv"}
  <2>0. R \cap Evaluations = {} /\ \A x : x \in Made.from <=> \E g \in R : x \in From(g)
    <3>1. ~Added /\ Mark(f, edition) = {}
      BY <1>7, MarksAre DEF Added, OfOneCorpus, OfCorpora, OfSubsets
    <3>2. R \cap Evaluations = {}
      BY <1>1, <1>7
         DEF MadeFrom, OfOneCorpus, OfCorpora, OfSubsets, Evaluations, CascadeEvaluations, Dense, Candidates
    <3> QED BY <3>1, <3>2, MadeOf
  <2>1. CASE f \in OfOneCorpus
    <3>1. PICK r \in R : r \in OfOneCorpus /\ R \subseteq {r, "topics", "manifest"}
      BY <1>1, <1>7, <2>1 DEF MadeFrom, OfOneCorpus
    <3>2. PICK e : From(r) = {<<"corpus", e>>}
      BY <2>0, <3>1, ReadOrigins
    <3>3. \A g \in R : g # r => From(g) = {}
      BY <2>0, <3>1, ReadOrigins
    <3>4. \A x : x \in Made.from <=> x = <<"corpus", e>>
      BY <2>0, <3>1, <3>2, <3>3
    <3>5. Made.from = {<<"corpus", e>>}
      BY <3>4
    <3> QED BY <2>1, <3>5 DEF FromOK, OfOneCorpus, Arrays, OfCorpora, OfSubsets
  <2>2. CASE f \in OfCorpora
    <3>1. R \subseteq OfOneCorpus \cup OfCorpora
      BY <1>1, <2>2 DEF MadeFrom, Candidates, OfOneCorpus, OfCorpora
    <3>2. \A g \in R : \A t \in From(g) : t[1] = "corpus"
      BY <2>0, <3>1, ReadOrigins
    <3>3. \A t \in Made.from : t[1] = "corpus"
      BY <2>0, <3>2
    <3> QED BY <2>2, <3>3 DEF FromOK, OfOneCorpus, Arrays, OfCorpora, OfSubsets
  <2>3. CASE f \in OfSubsets
    <3>1. R \subseteq Arrays \cup OfSubsets \cup {"queries"}
      BY <1>1, <2>3 DEF MadeFrom, Dense, Arrays, OfSubsets
    <3>2. \A g \in R : \A t \in From(g) : t[1] \in {"subset", "limit"}
      BY <2>0, <3>1, ReadOrigins
    <3>3. \A t \in Made.from : t[1] \in {"subset", "limit"}
      BY <2>0, <3>2
    <3> QED BY <2>3, <3>3 DEF FromOK, OfOneCorpus, Arrays, OfCorpora, OfSubsets
  <2> QED BY <1>7, <2>1, <2>2, <2>3
<1> QED BY <1>1, <1>2, <1>3, <1>4, <1>5, <1>6, <1>7
        DEF MadeFrom, OfOneCorpus, Arrays, OfCorpora, OfSubsets, Reports

\* What a step makes is sound if none of its causes is spoilt.
LEMMA MadeSound ==
    ASSUME TypeOK, SoundInv, ~Idle, Ready, ~Added, This.file \notin Reports,
           Cause(This.file) \cap spoilt = {}
    PROVE  Made.state = "whole" /\ Pure(This.file, Made.from)
<1> DEFINE f == This.file
           R == This.reads
<1>1. /\ MadeFrom(f, R) /\ R \cap Evaluations = {} /\ R \cap Compared = {}
      /\ IsStep(script, pos, This) /\ f \in Files
  BY Running
     DEF Reports, MadeFrom, Dense, Candidates, Evaluations, CascadeEvaluations, Compared
<1>2. /\ \A x : x \in Made.from <=> x \in Mark(f, edition) \/ \E g \in R : x \in From(g)
      /\ Made.state = IF \E g \in R : disk[g].state # "whole" THEN "flawed" ELSE "whole"
  BY MadeOf DEF Made
<1>3. \A r \in R : r \notin Reports /\ Cause(r) \cap spoilt = {}
                     => disk[r].state = "whole" /\ ~Mixed(From(r))
  BY <1>1, ReadIsSound
<1>4. FromOK(f, [state |-> "whole", from |-> Made.from])
  BY MadeFromOK
<1>m. f \notin {"jsonl", "tsv", "tantivy_index", "subset", "embeddings", "docids"}
        => \A x : x \in Made.from <=> \E g \in R : x \in From(g)
  BY <1>2, MarksAre
<1>5. CASE f \in {"topics", "jsonl", "tsv", "queries", "manifest", "subset", "tantivy_index"}
  <2>1. Made.state = "whole" /\ R = {}
    BY <1>1, <1>2, <1>5 DEF MadeFrom
  <2>2. Made.from = Mark(f, edition)
    BY <1>2, <2>1
  <2>3. Made.from = {} \/ \E k : Made.from = {<<k, edition>>}
    <3>1. CASE f \in {"topics", "queries", "manifest"}
      BY <2>2, <3>1, MarksAre
    <3>2. CASE f \in {"jsonl", "tsv", "tantivy_index"}
      <4>1. Made.from = {<<"corpus", edition>>}
        BY <2>2, <3>2, MarksAre
      <4> QED BY <4>1
    <3>3. CASE f = "subset"
      <4>1. Made.from = {<<"subset", edition>>}
        BY <2>2, <3>3, MarksAre
      <4> QED BY <4>1
    <3> QED BY <1>5, <3>1, <3>2, <3>3
  <2> QED BY <2>1, <2>3, NotMixed, NotMixedIsPure
<1>6. CASE f \in OfOneCorpus \ {"jsonl", "tsv"}
  <2>1. \A r \in R : r \notin Reports /\ Cause(r) \subseteq Cause(f)
    BY <1>1, <1>6, CauseIs DEF MadeFrom, OfOneCorpus, Reports
  <2>2. Made.state = "whole"
    BY <1>2, <1>3, <2>1
  <2>3. \E e : Made.from = {<<"corpus", e>>}
    BY <1>4, <1>6 DEF FromOK
  <2> QED BY <2>2, <2>3, NotMixed, NotMixedIsPure
<1>7. CASE f \in Arrays
  <2>1. R = {"subset"} /\ Cause(f) = {"subset"} /\ Cause("subset") = {"subset"}
    BY <1>1, <1>7, CauseIs DEF MadeFrom, Arrays
  <2>2. Made.state = "whole"
    BY <1>2, <1>3, <2>1 DEF Reports
  <2>3. \E e, l : Made.from = {<<"subset", e>>, <<"limit", l>>}
    BY <1>4, <1>7 DEF FromOK
  <2> QED BY <2>2, <2>3, NotMixed, NotMixedIsPure
<1>8. CASE f \in {"latency", "tantivy_run", "tantivy_eval"}
  <2>1. \A r \in R : r \notin Reports /\ Cause(r) \subseteq Cause(f)
    BY <1>1, <1>8, CauseIs DEF MadeFrom, Reports
  <2>2. \A r \in R : disk[r].state = "whole" /\ ~Mixed(From(r))
    BY <1>3, <2>1
  <2>3. PICK r \in R : R \subseteq {r, "manifest"}
    BY <1>1, <1>8 DEF MadeFrom
  <2>4. \A g \in R : g # r => From(g) = {}
    BY <1>1, <2>3, ReadOrigins
  <2>5. \A x : x \in Made.from <=> x \in From(r)
    BY <1>m, <1>8, <2>3, <2>4
  <2>6. Made.from = From(r)
    BY <2>5
  <2> QED BY <1>2, <2>2, <2>6, NotMixedIsPure
<1>9. CASE f \in OfCorpora
  <2>0. /\ Cause(f) = {"tsv", "cascade_index", "run_dl", "run_dev"}
        /\ script # "cascade_bm25"
    BY <1>1, <1>9, StepTable, CauseIs DEF OfCorpora, Step, CascadeIndex, CascadeSearch, AppendManifest
  <2>m. \A x : x \in Made.from <=> \E g \in R : x \in From(g)
    BY <1>m, <1>9 DEF OfCorpora
  <2>1. \A r \in R : r \notin Reports /\ Cause(r) \subseteq Cause(f)
    BY <1>1, <1>9, <2>0, CauseIs DEF MadeFrom, Reports, OfCorpora, Candidates
  <2>2. \A r \in R : disk[r].state = "whole" /\ ~Mixed(From(r))
    BY <1>3, <2>1
  <2>3. From("run_dl") = From("run_dev")
    BY <2>0 DEF SoundInv, RunsAgree, BetweenRuns
  <2>4. Pure(f, Made.from)
    <3>1. CASE f \in {"texts", "scores"}
      <4>1. R = {"run_dl", "run_dev"}
        BY <1>1, <3>1 DEF MadeFrom
      <4>2. \A x : x \in Made.from <=> x \in From("run_dl")
        BY <2>m, <2>3, <4>1
      <4>3. Made.from = From("run_dl")
        BY <4>2
      <4> QED BY <2>2, <4>1, <4>3, NotMixedIsPure
    <3>2. CASE f \in {"batching", "queue"}
      <4>1. R = {"texts"}
        BY <1>1, <3>2 DEF MadeFrom
      <4>2. \A x : x \in Made.from <=> x \in From("texts")
        BY <2>m, <4>1
      <4>3. Made.from = From("texts")
        BY <4>2
      <4> QED BY <2>2, <4>1, <4>3, NotMixedIsPure
    <3>3. CASE f \in {"prerank", "precision"}
      <4>1. R = {"run_dev", "run_dl", "scores", "texts"}
        BY <1>1, <3>3 DEF MadeFrom, Candidates
      <4>2. script = "phase4_driver"
        BY <1>1, <3>3, Writers
      <4>3. PICK e : From("run_dl") = {<<"corpus", e>>}
        BY <1>1, <4>1, ReadOrigins DEF OfOneCorpus
      <4>4. ASSUME NEW g \in {"scores", "texts"}, NEW t \in From(g)
            PROVE  t[1] = "corpus" /\ Near(e, t[2])
        <5>1. PICK u \in From(g) : <<"corpus", e>>[1] = u[1] /\ Near(<<"corpus", e>>[2], u[2])
          BY <4>2, <4>3 DEF Ready, Passes, FeaturesChecked, From
        <5>2. \A x \in From(g) : x[1] = "corpus"
          BY <1>1, <4>1, ReadOrigins DEF OfCorpora
        <5>3. t[2] = u[2]
          BY <2>2, <4>1, <5>2 DEF Mixed
        <5> QED BY <5>1, <5>2, <5>3
      <4>5. ASSUME NEW g \in R, NEW t \in From(g) PROVE t[1] = "corpus" /\ Near(e, t[2])
        BY <2>3, <4>1, <4>3, <4>4 DEF Near
      <4>6. \A t \in Made.from : t[1] = "corpus" /\ Near(e, t[2])
        BY <2>m, <4>5
      <4>7. <<"corpus", e>> \in Made.from
        BY <2>m, <4>1, <4>3
      <4>8. Kindred(Made.from)
        BY <4>6, <4>7 DEF Kindred
      <4> QED BY <3>3, <4>8 DEF Pure, Compared
    <3> QED BY <1>9, <3>1, <3>2, <3>3 DEF OfCorpora
  <2> QED BY <1>2, <2>2, <2>4
<1>10. CASE f \in OfSubsets
  <2>0. "docids" \notin spoilt /\ script # "encode"
    BY <1>1, <1>10, Writers, CauseIs DEF OfSubsets
  <2>m. \A x : x \in Made.from <=> \E g \in R : x \in From(g)
    BY <1>m, <1>10 DEF OfSubsets
  <2>1. From("embeddings") = From("docids")
    BY <2>0 DEF SoundInv, ArraysAgree
  <2>2. Dense \subseteq R /\ (f # "sweep" => R = Dense) /\ (f = "sweep" => R = Dense \cup {"gt_dev"})
    BY <1>1, <1>10 DEF MadeFrom, OfSubsets
  <2>3. From("queries") = {}
    BY <1>1, <2>2, ReadOrigins DEF Dense
  <2>4. PICK e, l : From("docids") = {<<"subset", e>>, <<"limit", l>>}
    BY <1>1, <2>2, ReadOrigins DEF Dense, Arrays
  <2>5. Pure(f, Made.from)
    <3>1. CASE f # "sweep"
      <4>1. \A x : x \in Made.from <=> x \in From("docids")
        BY <2>m, <2>1, <2>2, <2>3, <3>1 DEF Dense
      <4>2. Made.from = {<<"subset", e>>, <<"limit", l>>}
        BY <2>4, <4>1
      <4> QED BY <4>2, NotMixed, NotMixedIsPure
    <3>2. CASE f = "sweep"
      <4>1. script = "ann_sweep"
        BY <1>1, <3>2, Writers
      <4>2. \A x : x \in Made.from <=> x \in From("docids") \/ x \in From("gt_dev")
        BY <2>m, <2>1, <2>2, <2>3, <3>2 DEF Dense
      <4>3. ASSUME NEW t \in From("gt_dev"), NEW u \in From("docids"), t[1] = u[1]
            PROVE  Near(u[2], t[2])
        <5>1. CASE From("gt_dev") = From("docids")
          BY <2>4, <4>3, <5>1 DEF Near
        <5>2. CASE From("gt_dev") # From("docids")
          <6>1. Near(t[2], u[2])
            BY <2>1, <4>1, <4>3, <5>2 DEF Ready, Passes, RecallChecked, From
          <6> QED BY <6>1 DEF Near
        <5> QED BY <5>1, <5>2
      <4>4. ASSUME NEW t \in Made.from
            PROVE  \E c \in From("docids") : c[1] = t[1]
        <5>1. t[1] \in {"subset", "limit"}
          BY <1>4, <1>10 DEF FromOK
        <5>2. /\ <<"subset", e>> \in From("docids") /\ <<"subset", e>>[1] = "subset"
              /\ <<"limit", l>> \in From("docids") /\ <<"limit", l>>[1] = "limit"
          BY <2>4
        <5> QED BY <5>1, <5>2
      <4>5. ASSUME NEW c \in From("docids"), NEW u \in Made.from, u[1] = c[1]
            PROVE  Near(c[2], u[2])
        <5>1. CASE u \in From("docids")
          BY <2>4, <4>5, <5>1 DEF Near
        <5>2. CASE u \in From("gt_dev")
          BY <4>3, <4>5, <5>2
        <5> QED BY <4>2, <5>1, <5>2
      <4>6. Kindred(Made.from)
        BY <4>2, <4>4, <4>5 DEF Kindred
      <4> QED BY <3>2, <4>6 DEF Pure, Compared
    <3> QED BY <3>1, <3>2
  <2>9. disk["queries"].state = "whole"
    BY <1>3, <2>2, CauseIs DEF Dense, Reports
  <2>10. disk["embeddings"].state = "whole" /\ disk["docids"].state = "whole"
    <3>1. CASE f = "sweep"
      BY <1>3, <2>2, <3>1, CauseIs DEF Dense, Reports, Arrays
    <3>2. CASE f # "sweep"
      <4>1. script = "ground_truth"
        BY <1>1, <1>10, <3>2, Writers DEF OfSubsets
      <4> QED BY <4>1 DEF Ready, Passes, RowsChecked
    <3> QED BY <3>1, <3>2
  <2>11. "gt_dev" \in R => disk["gt_dev"].state = "whole"
    BY <1>3, <2>0, CauseIs DEF Reports
  <2> QED BY <1>2, <2>2, <2>5, <2>9, <2>10, <2>11 DEF Dense
<1>11. CASE f = "fusion"
  <2>1. R = {"manifest", "run_dl", "gt_dl"}
    BY <1>1, <1>11 DEF MadeFrom
  <2>2. \A r \in R : r \notin Reports /\ Cause(r) \subseteq Cause(f)
    BY <1>11, <2>1, CauseIs DEF Reports
  <2>3. \A r \in R : disk[r].state = "whole" /\ ~Mixed(From(r))
    BY <1>3, <2>2
  <2>4. /\ From("manifest") = {} /\ \A t \in From("gt_dl") : t[1] # "corpus"
        /\ \E e : From("run_dl") = {<<"corpus", e>>}
    BY <1>1, <2>1, ReadOrigins DEF OfOneCorpus, OfSubsets
  <2>5. \A x : x \in Made.from <=> x \in From("run_dl") \cup From("gt_dl")
    BY <1>m, <1>11, <2>1, <2>4
  <2>6. Made.from = From("run_dl") \cup From("gt_dl")
    BY <2>5
  <2>7. ~Mixed(Made.from)
    <3>1. \A t \in From("run_dl") : t[1] = "corpus"
      BY <2>4
    <3> QED BY <2>1, <2>3, <2>4, <2>6, <3>1, NotMixed
  <2> QED BY <1>2, <2>3, <2>7, NotMixedIsPure
<1>12. \/ f \in {"topics", "jsonl", "tsv", "queries", "manifest", "subset", "tantivy_index"}
       \/ f \in OfOneCorpus \ {"jsonl", "tsv"} \/ f \in Arrays
       \/ f \in {"latency", "tantivy_run", "tantivy_eval"} \/ f \in OfCorpora
       \/ f \in OfSubsets \/ f = "fusion"
  BY <1>1 DEF MadeFrom, OfOneCorpus, Arrays, OfCorpora, OfSubsets, Reports
<1> QED BY <1>5, <1>6, <1>7, <1>8, <1>9, <1>10, <1>11, <1>12

LEMMA SoundInit == Init => SoundInv
<1> SUFFICES ASSUME Init PROVE SoundInv
  OBVIOUS
<1>1. ~open /\ script = "none" /\ spoilt = {}
  BY DEF Init
<1>2. {"run_dl", "run_dev", "cascade_index", "embeddings", "docids"} \subseteq Files
  BY FilesAre DEF MadeFrom
<1>3. CASE disk = [f \in Files |-> [state |-> "absent", from |-> {}]]
  <2>1. \A f \in Files : disk[f].state = "absent" /\ disk[f].from = {}
    BY <1>3
  <2>2. \A f \in Files : FromOK(f, disk[f])
    BY <2>1 DEF FromOK
  <2>3. \A f \in Files : CleanOK(f)
    BY <2>1, NotMixed, NotMixedIsPure DEF CleanOK, From
  <2>4. RunsAgree /\ ArraysAgree
    BY <1>1, <1>2, <2>1 DEF RunsAgree, ArraysAgree, BetweenRuns, From
  <2> QED BY <1>1, <2>2, <2>3, <2>4 DEF SoundInv
<1>4. ASSUME NEW e \in Editions, disk = [f \in Files |-> Reselected(f, e)] PROVE SoundInv
  <2>1. \A f \in Files : disk[f] = Reselected(f, e)
    BY <1>4
  <2>2. ASSUME NEW f \in Files, f \notin {"jsonl", "tsv", "subset"}
        PROVE  disk[f].state = "whole" /\ disk[f].from = Whole(f).from
    <3>1. Reselected(f, e) = Whole(f)
      BY <2>2 DEF Reselected
    <3> QED BY <2>1, <3>1, WholeFrom
  <2>3. ASSUME NEW f \in Files, f \in {"jsonl", "tsv", "subset"}
        PROVE  /\ disk[f].state = "whole"
               /\ disk[f].from = {<<IF f = "subset" THEN "subset" ELSE "corpus", e>>}
    <3>1. Mark(f, e) = {<<IF f = "subset" THEN "subset" ELSE "corpus", e>>}
      BY <2>3, MarksAre
    <3>2. Reselected(f, e) = [state |-> "whole", from |-> Mark(f, e)]
      BY <2>3 DEF Reselected
    <3> QED BY <2>1, <3>1, <3>2
  <2>4. ASSUME NEW f \in Files PROVE FromOK(f, disk[f])
    <3>1. CASE f \in {"jsonl", "tsv", "subset"}
      BY <2>3, <3>1 DEF FromOK, OfOneCorpus, Arrays, OfCorpora, OfSubsets
    <3>2. CASE f \notin {"jsonl", "tsv", "subset"}
      <4>1. disk[f].from = Whole(f).from
        BY <2>2, <3>2
      <4>2. f \in OfOneCorpus \cup OfCorpora => Whole(f).from = {<<"corpus", Deployed>>}
        BY <3>2, WholeFrom DEF OfOneCorpus, OfCorpora
      <4>3. f \in Arrays \cup OfSubsets => Whole(f).from = {<<"subset", Deployed>>, <<"limit", NoLimit>>}
        BY <3>2, WholeFrom DEF Arrays, OfSubsets
      <4>4. f \in {"topics", "queries", "manifest"} => Whole(f).from = {}
        BY WholeFrom
      <4> QED BY <3>2, <4>1, <4>2, <4>3, <4>4 DEF FromOK
    <3> QED BY <3>1, <3>2
  <2>5. ASSUME NEW f \in Files PROVE CleanOK(f)
    <3>1. disk[f].state = "whole"
      BY <2>2, <2>3
    <3>2. ~Mixed(From(f))
      <4>1. CASE f \in {"jsonl", "tsv", "subset"}
        <5>1. \E r : From(f) = {<<r, e>>}
          BY <2>3, <4>1 DEF From
        <5> QED BY <5>1, NotMixed
      <4>2. CASE f \notin {"jsonl", "tsv", "subset"}
        <5>1. From(f) \subseteq {<<"corpus", Deployed>>, <<"subset", Deployed>>, <<"limit", NoLimit>>}
          BY <2>2, <4>2, WholeFrom DEF From
        <5> QED BY <5>1 DEF Mixed
      <4> QED BY <4>1, <4>2
    <3> QED BY <3>1, <3>2, NotMixedIsPure DEF CleanOK
  <2>6. RunsAgree /\ ArraysAgree
    <3>1. /\ Whole("run_dl").from = {<<"corpus", Deployed>>}
          /\ Whole("run_dev").from = {<<"corpus", Deployed>>}
      BY WholeFrom
    <3>2. /\ Whole("embeddings").from = {<<"subset", Deployed>>, <<"limit", NoLimit>>}
          /\ Whole("docids").from = {<<"subset", Deployed>>, <<"limit", NoLimit>>}
      BY WholeFrom
    <3>3. From("run_dl") = From("run_dev") /\ From("embeddings") = From("docids")
      BY <1>2, <2>2, <3>1, <3>2 DEF From
    <3> QED BY <1>1, <3>3 DEF RunsAgree, ArraysAgree, BetweenRuns
  <2> QED BY <1>1, <2>4, <2>5, <2>6 DEF SoundInv
<1> QED BY <1>3, <1>4 DEF Init

\* What a file is made from is a matter of that file alone.
LEMMA FromKept ==
    ASSUME NEW f, FromOK(f, disk[f]), disk'[f] = disk[f]
    PROVE  FromOK(f, disk[f])'
<1>1. FromOK(f, disk'[f])
  OBVIOUS
<1> QED BY <1>1 DEF FromOK

\* Steps that leave the files alone: the start of a script and the skip of a
\* build.
LEMMA SoundQuiet ==
    ASSUME TypeOK, SoundInv, ~open, ~open', UNCHANGED <<disk, spoilt>>,
           ~(script = "cascade_bm25" /\ pos \in {3, 4}),
           ~(script' = "cascade_bm25" /\ pos' \in {3, 4}),
           ~(script' = "encode" /\ pos' = 2), ~(script = "encode" /\ pos = 2)
    PROVE  SoundInv'
<1>1. ASSUME NEW f \in Files PROVE FromOK(f, disk[f])'
  BY FromKept DEF SoundInv
<1>2. \A f \in Files \ Reports : CleanOK(f)'
  BY DEF SoundInv, CleanOK, From
<1>3. RunsAgree' /\ ArraysAgree'
  BY DEF SoundInv, RunsAgree, ArraysAgree, BetweenRuns, From
<1> QED BY <1>1, <1>2, <1>3 DEF SoundInv

LEMMA SoundStop ==
    ASSUME TypeOK, SoundInv, Stop
    PROVE  SoundInv'
<1>1. ~open' /\ script' = "none" /\ UNCHANGED disk /\ spoilt' = spoilt \cup Unseen
  BY DEF Stop
<1>2. ASSUME NEW f \in Files PROVE FromOK(f, disk[f])'
  BY <1>1, FromKept DEF SoundInv
<1>3. ASSUME NEW f \in Files \ Reports, Cause(f) \cap spoilt' = {}
      PROVE  /\ disk'[f].state # "flawed" /\ Pure(f, disk'[f].from)
             /\ ~(f \in Unframed /\ disk'[f].state = "torn")
  <2>1. Cause(f) \cap spoilt = {} /\ CleanOK(f)
    BY <1>1, <1>3 DEF SoundInv
  <2>2. f \in Unframed => f \in Cause(f)
    BY CauseIs
  <2>3. f \in Unframed /\ open /\ This.file = f /\ disk[f].state = "torn" => f \in Unseen
    BY DEF Unseen
  <2> QED BY <1>1, <1>3, <2>1, <2>2, <2>3 DEF CleanOK, From
<1>4. RunsAgree'
  <2>1. SUFFICES ASSUME {"run_dl", "run_dev"} \cap spoilt' = {} PROVE From("run_dl") = From("run_dev")
    BY <1>1 DEF RunsAgree, BetweenRuns, From
  <2>2. "run_dl" \notin Unseen /\ "run_dev" \notin Unseen /\ {"run_dl", "run_dev"} \cap spoilt = {}
    BY <1>1, <2>1
  <2>3. ~(script = "cascade_bm25" /\ pos \in {3, 4})
    BY <2>2 DEF Unseen
  <2>4. ~(script = "cascade_bm25" /\ pos = 2 /\ open)
    <3> SUFFICES ASSUME script = "cascade_bm25", pos = 2, open PROVE FALSE
      OBVIOUS
    <3>1. disk["run_dl"].state = "torn"
      BY DEF SoundInv, RunsAgree
    <3>2. IsStep(script, pos, This)
      BY Running DEF TypeOK
    <3>3. This.file = "run_dl"
      BY <3>2, Writers
    <3> QED BY <2>2, <3>1, <3>3 DEF Unseen, Unframed
  <2> QED BY <2>2, <2>3, <2>4 DEF SoundInv, RunsAgree, BetweenRuns
<1>5. ArraysAgree'
  <2>1. SUFFICES ASSUME "docids" \notin spoilt' PROVE From("embeddings") = From("docids")
    BY <1>1 DEF ArraysAgree, From
  <2>2. ~(script = "encode" /\ pos = 2 /\ ~open) /\ "docids" \notin spoilt
    BY <1>1, <2>1 DEF Unseen
  <2> QED BY <2>2 DEF SoundInv, ArraysAgree
<1> QED BY <1>1, <1>2, <1>3, <1>4, <1>5 DEF SoundInv, CleanOK, From

LEMMA SoundOpen ==
    ASSUME TypeOK, SoundInv, Open
    PROVE  SoundInv'
<1>1. /\ ~Idle /\ ~open /\ open' /\ Loads /\ Passes
      /\ UNCHANGED <<script, pos, edition, spoilt>> /\ DOMAIN disk = Files
  BY DEF Open, TypeOK
<1>2. /\ IsStep(script, pos, This) /\ This.file \in Files /\ This.file \notin This.reads
      /\ This.reads \subseteq Files /\ MadeFrom(This.file, This.reads) /\ This' = This
  BY <1>1, Running DEF This
<1>3. Ready
  <2>1. \A f \in This.reads \ Evaluations : f \in Inputs
    BY <1>2 DEF Inputs, MadeFrom
  <2>2. \A f \in This.reads : disk[f].state \in {"absent", "torn", "flawed", "whole"}
    BY <1>1, Running DEF Data
  <2> QED BY <1>1, <2>1, <2>2 DEF Ready, Loads, Exists
<1>4. \/ This.file = "embeddings" /\ disk' = disk
      \/ Added /\ disk' = disk
      \/ /\ ~Added /\ This.file # "embeddings"
         /\ disk' = [disk EXCEPT ![This.file] = [state |-> "torn", from |-> Made.from]]
  BY DEF Open
<1>5. \A f \in Files : f # This.file => disk'[f] = disk[f]
  BY <1>1, <1>4
<1>6. Ready'
  <2>1. \A f \in This.reads : disk'[f] = disk[f]
    BY <1>2, <1>5
  <2>2. Passes'
    <3>1. CASE script = "ground_truth"
      <4>1. This.file \notin {"embeddings", "docids"} /\ {"embeddings", "docids"} \subseteq Files
        <5>1. {"embeddings", "docids"} \subseteq Files
          BY FilesAre DEF MadeFrom
        <5> QED BY <1>2, <3>1, <5>1, Writers
      <4>2. RowsChecked'
        BY <1>1, <1>5, <3>1, <4>1 DEF Passes, RowsChecked
      <4> QED BY <1>1, <3>1, <4>2 DEF Passes
    <3>2. CASE script = "ann_sweep"
      <4>1. /\ This.file \notin {"embeddings", "docids", "gt_dev"}
            /\ {"embeddings", "docids", "gt_dev"} \subseteq Files
        <5>1. {"embeddings", "docids", "gt_dev"} \subseteq Files
          BY FilesAre DEF MadeFrom
        <5> QED BY <1>2, <3>2, <5>1, Writers
      <4>2. RecallChecked'
        BY <1>1, <1>5, <3>2, <4>1 DEF Passes, RecallChecked
      <4> QED BY <1>1, <3>2, <4>2 DEF Passes
    <3>3. CASE script = "phase4_driver"
      <4>1. /\ This.file \notin {"run_dl", "scores", "texts"}
            /\ {"run_dl", "scores", "texts"} \subseteq Files
        <5>1. {"run_dl", "scores", "texts"} \subseteq Files
          BY FilesAre DEF MadeFrom
        <5>2. This.file \in {"prerank", "batching", "precision", "queue"}
          BY <1>2, <3>3, StepTable
             DEF Step, PrerankAndConsistency, Batching, Precision, QueueDisciplines
        <5> QED BY <5>1, <5>2
      <4>2. FeaturesChecked'
        BY <1>1, <1>5, <3>3, <4>1 DEF Passes, FeaturesChecked
      <4> QED BY <1>1, <3>3, <4>2 DEF Passes
    <3> QED BY <1>1, <3>1, <3>2, <3>3 DEF Passes
  <2> QED BY <1>2, <1>3, <2>1, <2>2 DEF Ready
<1>7. ASSUME NEW f \in Files PROVE FromOK(f, disk[f])'
  <2>1. CASE disk'[f] = disk[f]
    BY <2>1, FromKept DEF SoundInv
  <2>2. CASE disk'[f] # disk[f]
    <3>1. f = This.file /\ disk'[f].from = Made.from
      BY <1>1, <1>4, <1>5, <2>2
    <3>2. FromOK(f, disk'[f])
      BY <1>1, <1>3, <3>1, MadeFromOK
    <3> QED BY <3>2 DEF FromOK
  <2> QED BY <2>1, <2>2
<1>8. ASSUME NEW f \in Files \ Reports PROVE CleanOK(f)'
  <2>1. CASE disk'[f] = disk[f]
    BY <1>1, <2>1 DEF SoundInv, CleanOK, From
  <2>2. CASE disk'[f] # disk[f]
    <3>1. /\ f = This.file /\ disk'[f].from = Made.from /\ disk'[f].state = "torn" /\ ~Added
      BY <1>1, <1>4, <1>5, <2>2
    <3>2. Cause(f) \cap spoilt = {} => Pure(f, Made.from)
      BY <1>1, <1>3, <3>1, MadeSound
    <3> QED BY <1>1, <1>2, <3>1, <3>2 DEF CleanOK, From
  <2> QED BY <2>1, <2>2
<1>9. RunsAgree'
  <2>0. {"run_dl", "run_dev", "cascade_index"} \subseteq Files
    BY FilesAre DEF MadeFrom
  <2>1. CASE This.file = "run_dl"
    <3>1. script = "cascade_bm25" /\ pos = 2 /\ ~Added /\ This.reads = {"cascade_index"}
      BY <1>2, <2>1, Writers DEF Added, MadeFrom
    <3>2. \A x : x \in Made.from <=> x \in From("cascade_index")
      BY <3>1, <2>1, MadeOf, MarksAre
    <3>3. Made.from = From("cascade_index")
      BY <3>2
    <3> QED BY <1>1, <1>2, <1>4, <1>5, <2>0, <2>1, <3>1, <3>3 DEF RunsAgree, BetweenRuns, From
  <2>2. CASE This.file = "run_dev"
    <3>1. script = "cascade_bm25" /\ pos = 4
      BY <1>2, <2>2, Writers
    <3> QED BY <1>1, <1>5, <2>0, <2>2, <3>1 DEF SoundInv, RunsAgree, BetweenRuns, From
  <2>3. CASE This.file = "cascade_index"
    <3>1. script = "cascade_bm25" /\ pos = 1
      BY <1>2, <2>3, Writers
    <3> QED BY <1>1, <1>5, <2>0, <2>3, <3>1 DEF SoundInv, RunsAgree, BetweenRuns, From
  <2>4. CASE This.file \notin {"run_dl", "run_dev", "cascade_index"}
    <3>1. ~(script = "cascade_bm25" /\ pos = 2)
      BY <1>2, <2>4, Writers
    <3> QED BY <1>1, <1>5, <2>0, <2>4, <3>1 DEF SoundInv, RunsAgree, BetweenRuns, From
  <2> QED BY <2>1, <2>2, <2>3, <2>4
<1>10. ArraysAgree'
  <2>0. {"subset", "embeddings", "docids"} \subseteq Files
    BY FilesAre DEF MadeFrom
  <2>1. CASE This.file = "docids"
    <3>1. script = "encode" /\ pos = 2 /\ ~Added /\ This.reads = {"subset"}
      BY <1>2, <2>1, Writers DEF Added, MadeFrom
    <3>2. \A x : x \in Made.from <=> x \in From("subset") \cup {<<"limit", edition>>}
      BY <3>1, <2>1, MadeOf, MarksAre
    <3>3. /\ Made.from = From("subset") \cup {<<"limit", edition>>}
          /\ From("embeddings") = From("subset") \cup {<<"limit", edition>>}
      BY <3>1, <3>2 DEF SoundInv, ArraysAgree
    <3>4. /\ disk'["docids"].from = Made.from /\ disk'["subset"] = disk["subset"]
          /\ disk'["embeddings"] = disk["embeddings"]
      BY <1>1, <1>4, <1>5, <2>0, <2>1, <3>1
    <3> QED BY <1>1, <3>1, <3>3, <3>4 DEF ArraysAgree, From
  <2>2. CASE This.file = "embeddings"
    <3>1. script = "encode" /\ pos = 1 /\ disk' = disk
      BY <1>2, <1>4, <2>2, Writers DEF Added
    <3> QED BY <1>1, <3>1 DEF SoundInv, ArraysAgree, From
  <2>3. CASE This.file \notin {"docids", "embeddings"}
    <3>1. ~(script = "encode" /\ pos = 2) /\ (This.file = "subset" => script # "encode")
      BY <1>2, <2>3, Writers
    <3> QED BY <1>1, <1>5, <2>0, <2>3, <3>1 DEF SoundInv, ArraysAgree, From
  <2> QED BY <2>1, <2>2, <2>3
<1> QED BY <1>1, <1>6, <1>7, <1>8, <1>9, <1>10 DEF SoundInv

LEMMA SoundClose ==
    ASSUME TypeOK, SoundInv, Close
    PROVE  SoundInv'
<1>1. /\ ~Idle /\ open /\ ~open' /\ disk' = [disk EXCEPT ![This.file] = Made] /\ DOMAIN disk = Files
      /\ edition' = edition /\ spoilt' = IF Added THEN spoilt \cup {This.file} ELSE spoilt
      /\ \/ pos < Len(Steps[script]) /\ script' = script /\ pos' = pos + 1
         \/ pos = Len(Steps[script]) /\ script' = "none" /\ pos' = 1
  <2>1. open /\ ~Idle
    BY DEF Close, TypeOK
  <2>2. pos \in 1..Len(Steps[script]) /\ Len(Steps[script]) \in Nat
    BY <2>1, Running
  <2> QED BY <2>1, <2>2 DEF Close, TypeOK
<1>2. /\ IsStep(script, pos, This) /\ This.file \in Files /\ This.file \notin This.reads
      /\ This.reads \subseteq Files /\ MadeFrom(This.file, This.reads) /\ pos \in Nat
  BY <1>1, Running DEF TypeOK
<1>3. Ready
  BY <1>1 DEF SoundInv
<1>4. disk'[This.file] = Made /\ \A f \in Files : f # This.file => disk'[f] = disk[f]
  BY <1>1, <1>2
<1>5. ASSUME NEW f \in Files PROVE FromOK(f, disk[f])'
  <2>1. CASE f = This.file
    BY <1>1, <1>3, <1>4, <2>1, MadeFromOK DEF FromOK
  <2>2. CASE f # This.file
    BY <1>4, <2>2, FromKept DEF SoundInv
  <2> QED BY <2>1, <2>2
<1>6. ASSUME NEW f \in Files \ Reports, Cause(f) \cap spoilt' = {}
      PROVE  /\ disk'[f].state # "flawed" /\ Pure(f, disk'[f].from)
             /\ ~(f \in Unframed /\ disk'[f].state = "torn")
  <2>1. Cause(f) \cap spoilt = {}
    BY <1>1, <1>6
  <2>2. CASE f = This.file
    <3>1. ~Added
      <4> SUFFICES ASSUME Added PROVE FALSE
        OBVIOUS
      <4>1. f = "tantivy_index" /\ f \in spoilt'
        BY <1>1, <2>2 DEF Added
      <4> QED BY <1>6, <4>1, CauseIs
    <3>2. Made.state = "whole" /\ Pure(f, Made.from)
      BY <1>1, <1>3, <2>1, <2>2, <3>1, MadeSound
    <3> QED BY <1>4, <2>2, <3>2
  <2>3. CASE f # This.file
    BY <1>4, <2>1, <2>3 DEF SoundInv, CleanOK, From
  <2> QED BY <2>2, <2>3
<1>7. RunsAgree'
  <2>0. {"run_dl", "run_dev", "cascade_index"} \subseteq Files /\ script # "none"
    BY <1>1, FilesAre DEF MadeFrom, Idle
  <2>1. CASE This.file \in {"run_dl", "run_dev"}
    <3>1. /\ script = "cascade_bm25" /\ ~Added /\ This.reads = {"cascade_index"}
          /\ This.file = "run_dl" => pos = 2
          /\ This.file = "run_dev" => pos = 4
          /\ Len(Steps[script]) = 5
      BY <1>2, <2>1, Writers DEF Added, MadeFrom
    <3>2. \A x : x \in Made.from <=> x \in From("cascade_index")
      BY <3>1, <2>1, MadeOf, MarksAre
    <3>3. Made.from = From("cascade_index")
      BY <3>2
    <3>4. script' = "cascade_bm25" /\ pos' = pos + 1 /\ spoilt' = spoilt
      <4>1. pos # Len(Steps[script])
        BY <2>1, <3>1
      <4>2. script' = script /\ pos' = pos + 1
        BY <1>1, <4>1
      <4> QED BY <1>1, <3>1, <4>2
    <3>5. CASE This.file = "run_dl"
      BY <1>1, <1>4, <2>0, <3>1, <3>3, <3>4, <3>5 DEF RunsAgree, BetweenRuns, From
    <3>6. CASE This.file = "run_dev"
      <4>1. From("run_dl") = From("cascade_index")
        BY <3>1, <3>6 DEF SoundInv, RunsAgree, BetweenRuns
      <4> QED BY <1>1, <1>4, <2>0, <3>1, <3>3, <3>4, <3>6, <4>1 DEF RunsAgree, BetweenRuns, From
    <3> QED BY <2>1, <3>5, <3>6
  <2>2. CASE This.file = "cascade_index"
    <3>1. script = "cascade_bm25" /\ pos = 1
      BY <1>2, <2>2, Writers
    <3>2. ~BetweenRuns /\ ~BetweenRuns' /\ ~(open' /\ script' = "cascade_bm25")
      BY <1>1, <3>1 DEF BetweenRuns
    <3> QED BY <1>1, <1>4, <2>0, <2>2, <3>2 DEF SoundInv, RunsAgree, From
  <2>3. CASE This.file \notin {"run_dl", "run_dev", "cascade_index"}
    <3>1. script = "cascade_bm25" => pos \in {3, 5} /\ Len(Steps[script]) = 5
      <4>1. script = "cascade_bm25" => This.file # "run_dl" /\ This.file # "run_dev"
                                       /\ This.file # "cascade_index"
        BY <2>3
      <4> QED BY <1>2, <4>1, StepTable DEF Step, CascadeIndex, CascadeSearch, AppendManifest
    <3>2. BetweenRuns <=> BetweenRuns'
      <4>1. CASE script = "cascade_bm25" /\ pos = 3
        <5>1. pos # Len(Steps[script])
          BY <3>1, <4>1
        <5>2. script' = script /\ pos' = pos + 1
          BY <1>1, <5>1
        <5> QED BY <4>1, <5>2 DEF BetweenRuns
      <4>2. CASE script = "cascade_bm25" /\ pos = 5
        <5>0. Len(Steps[script]) = pos
          BY <3>1, <4>2
        <5>1. ~(pos < Len(Steps[script]))
          BY <1>2, <5>0
        <5>2. script' = "none"
          BY <1>1, <5>1
        <5> QED BY <4>2, <5>2 DEF BetweenRuns
      <4>3. CASE script # "cascade_bm25"
        <5>1. script' # "cascade_bm25"
          BY <1>1, <4>3
        <5> QED BY <4>3, <5>1 DEF BetweenRuns
      <4> QED BY <3>1, <4>1, <4>2, <4>3
    <3> QED BY <1>1, <1>4, <2>0, <2>3, <3>2 DEF SoundInv, RunsAgree, From
  <2> QED BY <2>1, <2>2, <2>3
<1>8. ArraysAgree'
  <2>0. {"subset", "embeddings", "docids"} \subseteq Files /\ script # "none"
    BY <1>1, FilesAre DEF MadeFrom, Idle
  <2>1. CASE This.file \in {"embeddings", "docids"}
    <3>1. /\ script = "encode" /\ ~Added /\ This.reads = {"subset"} /\ Len(Steps[script]) = 3
          /\ This.file = "embeddings" => pos = 1
          /\ This.file = "docids" => pos = 2
      BY <1>2, <2>1, Writers DEF Added, MadeFrom
    <3>2. \A x : x \in Made.from <=> x \in From("subset") \cup {<<"limit", edition>>}
      BY <3>1, <2>1, MadeOf, MarksAre
    <3>3. Made.from = From("subset") \cup {<<"limit", edition>>}
      BY <3>2
    <3>4. script' = "encode" /\ pos' = pos + 1 /\ spoilt' = spoilt
      <4>1. pos # Len(Steps[script])
        BY <2>1, <3>1
      <4>2. script' = script /\ pos' = pos + 1
        BY <1>1, <4>1
      <4> QED BY <1>1, <3>1, <4>2
    <3>5. CASE This.file = "embeddings"
      BY <1>1, <1>4, <2>0, <3>1, <3>3, <3>4, <3>5 DEF ArraysAgree, From
    <3>6. CASE This.file = "docids"
      <4>1. From("embeddings") = From("subset") \cup {<<"limit", edition>>}
        BY <3>1, <3>6 DEF SoundInv, ArraysAgree
      <4> QED BY <1>1, <1>4, <2>0, <3>1, <3>3, <3>4, <3>6, <4>1 DEF ArraysAgree, From
    <3> QED BY <2>1, <3>5, <3>6
  <2>2. CASE This.file \notin {"embeddings", "docids"}
    <3>1. script = "encode" => pos = 3 /\ Len(Steps[script]) = 3
      BY <1>2, <2>2, StepTable DEF Step, EncodePassages, SaveDocids, EncodeQueries
    <3>2. ~(script = "encode" /\ pos = 2) /\ ~(script' = "encode" /\ pos' = 2)
      <4>1. CASE script = "encode"
        <5>0. Len(Steps[script]) = pos
          BY <3>1, <4>1
        <5>1. ~(pos < Len(Steps[script]))
          BY <1>2, <5>0
        <5>2. script' = "none"
          BY <1>1, <5>1
        <5> QED BY <3>1, <5>2
      <4>2. CASE script # "encode"
        <5>1. script' # "encode"
          BY <1>1, <4>2
        <5> QED BY <4>2, <5>1
      <4> QED BY <4>1, <4>2
    <3> QED BY <1>1, <1>4, <2>0, <2>2, <3>2 DEF SoundInv, ArraysAgree, From
  <2> QED BY <2>1, <2>2
<1> QED BY <1>1, <1>5, <1>6, <1>7, <1>8 DEF SoundInv, CleanOK, From

LEMMA SoundStep == TypeOK /\ SoundInv /\ [Next]_vars => SoundInv'
<1> SUFFICES ASSUME TypeOK, SoundInv, [Next]_vars PROVE SoundInv'
  OBVIOUS
<1>1. CASE UNCHANGED vars
  <2>1. ASSUME NEW f \in Files PROVE FromOK(f, disk[f])'
    BY <1>1, FromKept DEF SoundInv, vars
  <2>2. ASSUME NEW f \in Files \ Reports PROVE CleanOK(f)'
    BY <1>1 DEF SoundInv, CleanOK, From, This, vars
  <2>3. RunsAgree' /\ ArraysAgree'
    BY <1>1 DEF SoundInv, RunsAgree, BetweenRuns, ArraysAgree, From, vars
  <2>4. (open => Ready)'
    BY <1>1 DEF SoundInv, Ready, This, Passes, RowsChecked, RecallChecked, FeaturesChecked, vars
  <2> QED BY <2>1, <2>2, <2>3, <2>4 DEF SoundInv
<1>2. CASE Idle /\ \E s \in Scripts, e \in Options, f \in BOOLEAN : Start(s, e, f)
  <2>1. ~open /\ ~open' /\ pos' = 1 /\ UNCHANGED <<disk, spoilt>> /\ script = "none"
    BY <1>2 DEF Start, Idle, TypeOK
  <2> QED BY <2>1, SoundQuiet
<1>3. CASE Skip
  <2>1. /\ ~Idle /\ ~open /\ ~open' /\ This.file \in Indexes \cup Evaluations
        /\ script' = script /\ pos' = pos + 1 /\ UNCHANGED <<disk, spoilt>>
    BY <1>3 DEF Skip, Skipped, IndexPresent, RunMissing
  <2>2. IsStep(script, pos, This)
    BY <2>1, Running
  <2>3. script # "encode" /\ (script = "cascade_bm25" => pos = 1)
    BY <2>1, <2>2, Writers DEF Indexes, Evaluations, CascadeEvaluations
  <2> QED BY <2>1, <2>3, SoundQuiet
<1> QED BY <1>1, <1>2, <1>3, StepKinds, SoundOpen, SoundClose, SoundStop

\* A result that is there and not sound has a spoilt file among the suspects:
\* whatever else is wrong with its inputs, a check stops the script that would
\* use them.  What the checks of ann_sweep.py and phase4_driver.py let pass is
\* part of what sound means: those results may mix data that are alike.
THEOREM ResultsAreSound == Spec => []ResultsSound
<1>1. TypeOK /\ SoundInv => ResultsSound
  <2> SUFFICES ASSUME TypeOK, SoundInv, NEW f \in DOMAIN Suspects,
                      disk[f].state \in {"flawed", "whole"}, Suspects[f] \cap spoilt = {}
               PROVE  Sound(f)
    BY DEF ResultsSound
  <2>1. f \in Files \ Reports /\ Cause(f) \cap spoilt = {}
    BY FilesAre, CauseIs DEF MadeFrom, Suspects, Reports
  <2> QED BY <2>1 DEF SoundInv, CleanOK, Pure, Sound, From
<1>2. Spec => [](TypeOK /\ SoundInv)
  BY InitTyped, TypeStep, SoundInit, SoundStep, PTL DEF Spec
<1> QED BY <1>1, <1>2, PTL
=============================================================================
