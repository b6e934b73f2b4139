-------------------------- MODULE ArtifactPipeline --------------------------
(***************************************************************************)
(* The offline scripts that hand files to each other: the corpus export,   *)
(* the three lexical baselines, their reports, the dense subset with its   *)
(* embeddings, ground truth, ANN sweep and fusion, the candidates of the   *)
(* ranking cascade and the remote driver that measures it.                 *)
(*                                                                         *)
(* The operator starts one script at a time, in any order and with any     *)
(* options, and a script may be interrupted between any two writes and in  *)
(* the middle of each.  Nothing but the files says what happened before:   *)
(* the model follows, from file to file, whether the data is whole and     *)
(* which corpus export, which subset and which limit it was made from.     *)
(***************************************************************************)
EXTENDS Naturals, Sequences, FiniteSets

CONSTANTS
    Editions,    \* option values of a script that draws on the corpus: a seed,
                 \* a size, a limit
    Limits,      \* values of encode.py's --limit
    FullSize,    \* the pairs {edition, limit} that give SUBSET_SIZE embeddings
    Alike,       \* groups of values whose data a check cannot tell apart: the
                 \* nested subsets of one seed, a limit that cuts little
    Deployed,    \* the edition of the files that are there at the start
    NoLimit,     \* encode.py without the option
    Campaigns,   \* groups of scripts: a behaviour starts those of one group
                 \* out of order
    MaxDetours,  \* bound on how many are
    MaxCrashes   \* bound on interrupts

ASSUME PipelineAssumption ==
    /\ Editions \cap Limits = {}
    /\ Deployed \in Editions /\ NoLimit \in Limits
    /\ {Deployed, NoLimit} \in FullSize
    /\ MaxDetours \in Nat /\ MaxCrashes \in Nat
-----------------------------------------------------------------------------
(* The scripts, as sequences of writes.  A function of the program that     *)
(* writes a file has the name it has there.                                 *)

\* A step writes a file from the files it reads.
Step(file, reads) == [file |-> file, reads |-> reads]

AppendManifest == Step("manifest", {})

ExportQueries == Step("topics", {})
ExportDocs == Step("jsonl", {})
ExportTsv == Step("tsv", {})
Export == <<ExportQueries, ExportDocs, ExportTsv>>

LuceneIndex == Step("lucene_index", {"jsonl"})
LuceneSearch == Step("lucene_run", {"lucene_index", "topics"})
Lucene == <<LuceneIndex, LuceneSearch, AppendManifest>>

TantivyIndex == Step("tantivy_index", {})
TantivySearch == Step("tantivy_run", {"tantivy_index"})
Tantivy == <<TantivyIndex, TantivySearch, AppendManifest>>

\* Every algorithm searches dl19, dl20 and then dev; each run is recorded as
\* soon as it is written.
CascadeIndex == Step("cascade_index", {"tsv"})
CascadeSearch(run) == Step(run, {"cascade_index"})
CascadeBm25 == <<CascadeIndex, CascadeSearch("run_dl"), AppendManifest,
                 CascadeSearch("run_dev"), AppendManifest>>

QueryCost == <<Step("query_cost", {"cascade_index"})>>
Latency == <<Step("latency", {"tantivy_index"})>>

EvaluateRun(result, run) == Step(result, {"manifest", run})
CascadeEvaluations == {"cascade_dl_eval", "cascade_dev_eval"}
Evaluations == {"lucene_eval", "tantivy_eval"} \cup CascadeEvaluations
Report == <<EvaluateRun("lucene_eval", "lucene_run"), EvaluateRun("tantivy_eval", "tantivy_run"),
            EvaluateRun("cascade_dl_eval", "run_dl"), EvaluateRun("cascade_dev_eval", "run_dev"),
            Step("baselines", Evaluations)>>
Phase1Report == <<EvaluateRun("cascade_dl_eval", "run_dl"),
                  EvaluateRun("cascade_dev_eval", "run_dev"),
                  Step("phase1", CascadeEvaluations \cup {"query_cost"})>>

WriteSubset == Step("subset", {})
Subset == <<WriteSubset>>

EncodePassages == Step("embeddings", {"subset"})
SaveDocids == Step("docids", {"subset"})
EncodeQueries == Step("queries", {})
Encode == <<EncodePassages, SaveDocids, EncodeQueries>>

Dense == {"embeddings", "docids", "queries"}
GroundTruth == <<Step("gt_dev", Dense), Step("gt_dl", Dense)>>
AnnSweep == <<Step("sweep", Dense \cup {"gt_dev"})>>
FusionRuns == {"manifest", "run_dl", "gt_dl"}
Fusion == <<Step("fusion", FusionRuns)>>
DenseReport == <<Step("phase3", {"sweep", "fusion"})>>

CollectTexts == Step("texts", {"run_dev", "run_dl"})
DenseScores == Step("scores", {"run_dev", "run_dl"})
EncodeCandidates == <<CollectTexts, DenseScores>>

\* The serving experiments replay a stream of candidate passages; the precision
\* one also scores the survivors of the first again.
Candidates == {"run_dev", "run_dl", "scores", "texts"}
PrerankAndConsistency == Step("prerank", Candidates)
RequestPairs == {"texts"}
Batching == Step("batching", RequestPairs)
Precision == Step("precision", Candidates)
QueueDisciplines == Step("queue", RequestPairs)
Phase4Driver == <<PrerankAndConsistency, Batching, Precision, QueueDisciplines>>
RankReport == <<Step("phase4", {"prerank", "batching", "precision", "queue"})>>

Steps == [export |-> Export, lucene |-> Lucene, tantivy |-> Tantivy, latency |-> Latency,
          cascade_bm25 |-> CascadeBm25, query_cost |-> QueryCost, report |-> Report,
          phase1_report |-> Phase1Report, subset |-> Subset, encode |-> Encode,
          ground_truth |-> GroundTruth, ann_sweep |-> AnnSweep, fusion |-> Fusion,
          dense_report |-> DenseReport, encode_candidates |-> EncodeCandidates,
          phase4_driver |-> Phase4Driver, rank_report |-> RankReport]

\* An order that has every input before it is read.
Order == <<"export", "lucene", "tantivy", "latency", "cascade_bm25", "query_cost", "report",
           "phase1_report", "subset", "encode", "ground_truth", "ann_sweep", "fusion",
           "dense_report", "encode_candidates", "phase4_driver", "rank_report">>

Scripts == DOMAIN Steps
AllSteps == UNION {{Steps[s][i] : i \in DOMAIN Steps[s]} : s \in Scripts}
Files == {t.file : t \in AllSteps}
Indexes == {"lucene_index", "tantivy_index", "cascade_index"}

\* Files a reader takes as they are, line by line or block by block: one that
\* ends early gives less data and no error, unless it ends inside a record.
\* The others are JSON, .npy or a Lucene index without its commit: a torn one
\* does not load.  The scores are read line by line too, but their last rows
\* are dl20's, and phase4_driver.py looks up each of them.
Unframed == {"topics", "jsonl", "tsv", "tantivy_index", "lucene_run", "tantivy_run",
             "cascade_index", "run_dl", "run_dev", "subset"}

VARIABLES
    disk,     \* per file: state "absent", "torn", "flawed" or "whole", and
              \* the editions its data comes from
    script,   \* the running script, or "none"
    pos,      \* the step it is at
    open,     \* it is writing that step's file
    edition,  \* its option value
    force,    \* --force-index
    campaign, detours, crashes,
    passed,   \* how many scripts of Order have ended, in a row and undisturbed
    spoilt    \* files something happened to that no later check can see

vars == <<disk, script, pos, open, edition, force, campaign, detours, crashes, passed, spoilt>>

Idle == script = "none"
This == Steps[script][pos]
Exists(f) == disk[f].state # "absent"

\* The files on which a script's own option leaves its mark, and which mark.
Option == [jsonl |-> "corpus", tsv |-> "corpus", tantivy_index |-> "corpus",
           subset |-> "subset", embeddings |-> "limit", docids |-> "limit"]
Mark(f, e) == IF f \in DOMAIN Option THEN {<<Option[f], e>>} ELSE {}

Default(s) == IF s = "encode" THEN NoLimit ELSE Deployed
Values(s) ==
    IF s = "encode" THEN Limits
    ELSE IF s \in {"export", "tantivy", "subset"} THEN Editions ELSE {Deployed}

Mixed(from) == \E t, u \in from : t[1] = u[1] /\ t[2] # u[2]

\* The data of x passes for that of y; of every kind, all passes for that of one.
Near(x, y) == x = y \/ \E g \in Alike : {x, y} \subseteq g
Kindred(from) ==
    \A t \in from :
        \E c \in from : c[1] = t[1] /\ \A u \in from : u[1] = c[1] => Near(c[2], u[2])
-----------------------------------------------------------------------------
(* What a script checks before it writes *)

BugRowsChecked == disk["docids"].state = disk["embeddings"].state

\* ground_truth.py asserts the row counts of both arrays.
RowsChecked ==
    \A f \in {"embeddings", "docids"} :
        disk[f].state = "whole" /\ {t[2] : t \in disk[f].from} \in FullSize

\* hnswlib takes one label per row, and the recall must exceed 0.9.  It does
\* against the ground truth of these very arrays, and against one of another
\* subset that holds most of the same passages.  With labels that are not the
\* vectors' own it does not, but for a ground truth that has the same ones.
RecallChecked ==
    LET truth == disk["gt_dev"].from
        vectors == disk["embeddings"].from
        labels == disk["docids"].from
    IN  /\ disk["embeddings"].state = disk["docids"].state
        /\ \/ truth = vectors \cup labels
           \/ /\ vectors = labels /\ ~Mixed(truth)
              /\ \A t \in truth, u \in vectors : t[1] = u[1] => Near(t[2], u[2])

\* Every candidate of dl19 and dl20 needs its features and its text; those of
\* an export that lacks few passages may all be there.
FeaturesChecked ==
    \A f \in {"scores", "texts"}, t \in disk["run_dl"].from :
        \E u \in disk[f].from : t[1] = u[1] /\ Near(t[2], u[2])

Passes ==
    CASE script = "ground_truth" -> RowsChecked
      [] script = "ann_sweep" -> RecallChecked
      [] script = "phase4_driver" -> FeaturesChecked
      [] OTHER -> TRUE
-----------------------------------------------------------------------------
(* A script *)

Start(s, e, f) ==
    /\ Idle
    /\ script' = s /\ pos' = 1 /\ open' = FALSE
    /\ edition' = e /\ force' = f
    /\ UNCHANGED <<disk, campaign, crashes, spoilt>>

\* In order, with the options that are deployed and a forced build; to bound
\* the states, before the first detour or after the last.
StartNext ==
    /\ passed < Len(Order) /\ detours \in {0, MaxDetours}
    /\ Start(Order[passed + 1], Default(Order[passed + 1]), TRUE)
    /\ UNCHANGED <<detours, passed>>

Detour(s, e, f) ==
    /\ s \in campaign /\ detours < MaxDetours
    /\ e \in Values(s)
    /\ Steps[s][1].file \notin Indexes => ~f
    /\ Start(s, e, f)
    /\ detours' = detours + 1 /\ passed' = 0

\* The index directory exists, in tantivy_bm25.py and cascade_bm25.py: and is
\* not empty.
BugIndexPresent == This.file \in Indexes /\ Exists(This.file)
IndexPresent == This.file \in Indexes /\ Exists(This.file) /\ ~force

\* report.py and phase1_report.py: a run of the manifest has no file.
RunMissing ==
    /\ This.file \in Evaluations
    /\ disk["manifest"].state \notin {"absent", "torn"}
    /\ \E f \in This.reads : ~Exists(f)

\* They go on with the next run, as the engines do with the index they find.
Skipped == IndexPresent \/ RunMissing

Skip ==
    /\ ~Idle /\ ~open /\ Skipped
    /\ pos' = pos + 1
    /\ UNCHANGED <<disk, script, open, edition, force, campaign, detours, crashes, passed, spoilt>>

\* append_manifest reads the entries that are there; a report has in memory what
\* it has evaluated.
Inputs ==
    IF This.file = "manifest" /\ Exists("manifest") THEN {"manifest"}
    ELSE This.reads \ {f \in Evaluations : ~Exists(f)}

Loads == \A f \in Inputs : disk[f].state \notin {"absent", "torn"} \/ (Exists(f) /\ f \in Unframed)

\* A Tantivy index that is there is opened, and gets every document again.
Added == This.file = "tantivy_index" /\ disk[This.file].state \in {"flawed", "whole"}

Made ==
    [state |-> IF Added \/ \E f \in This.reads : disk[f].state # "whole" THEN "flawed" ELSE "whole",
     from |-> (IF Added THEN disk[This.file].from ELSE {})
              \cup Mark(This.file, edition) \cup UNION {disk[f].from : f \in This.reads}]

\* open(path, "w"), write_text(), np.save(): the old content is gone.
BugOpen ==
    /\ ~Idle /\ ~open /\ ~Skipped
    /\ Loads /\ Passes
    /\ open' = TRUE
    /\ disk' = [disk EXCEPT ![This.file] = [state |-> "torn", from |-> Made.from]]
    /\ UNCHANGED <<script, pos, edition, force, campaign, detours, crashes, passed, spoilt>>

\* The embeddings are written at a .tmp path and renamed when complete, and
\* Tantivy adds the documents in one commit.
Open ==
    /\ ~Idle /\ ~open /\ ~Skipped
    /\ Loads /\ Passes
    /\ open' = TRUE
    /\ disk' = IF This.file = "embeddings" \/ Added THEN disk
               ELSE [disk EXCEPT ![This.file] = [state |-> "torn", from |-> Made.from]]
    /\ UNCHANGED <<script, pos, edition, force, campaign, detours, crashes, passed, spoilt>>

Close ==
    /\ open
    /\ open' = FALSE
    /\ disk' = [disk EXCEPT ![This.file] = Made]
    /\ spoilt' = IF Added THEN spoilt \cup {This.file} ELSE spoilt
    /\ IF pos < Len(Steps[script])
       THEN pos' = pos + 1 /\ UNCHANGED <<script, passed>>
       ELSE /\ script' = "none" /\ pos' = 1
            /\ passed' = IF /\ passed < Len(Order) /\ script = Order[passed + 1]
                            /\ edition = Default(script)
                            /\ (Steps[script][1].file \in Indexes => force)
                         THEN passed + 1 ELSE 0
    /\ UNCHANGED <<edition, force, campaign, detours, crashes>>

\* What a script that ends early leaves half done where nothing can tell: an unframed file
\* cut short, one array of two replaced, one run of two replaced.
Unseen ==
    {f \in Unframed : open /\ This.file = f /\ disk[f].state = "torn"}
    \cup {f \in {"docids"} : script = "encode" /\ pos = 2 /\ ~open}
    \cup {f \in {"run_dev"} : script = "cascade_bm25" /\ pos \in {3, 4}}

Stop ==
    /\ script' = "none" /\ pos' = 1 /\ open' = FALSE
    /\ passed' = 0
    /\ spoilt' = spoilt \cup Unseen
    /\ UNCHANGED <<disk, edition, force, campaign, detours>>

\* An input that is missing or ends inside a record, or a check that fails.
Raise ==
    /\ ~Idle /\ ~open /\ ~Skipped
    /\ (\E f \in Inputs : disk[f].state \in {"absent", "torn"}) \/ ~Passes
    /\ Stop
    /\ UNCHANGED crashes

Crash ==
    /\ ~Idle /\ crashes < MaxCrashes
    /\ crashes' = crashes + 1
    /\ Stop
-----------------------------------------------------------------------------
\* What the files of a finished pass hold; and when, after it, the corpus was
\* exported and the subset selected once more.
Whole(f) ==
    [state |-> "whole",
     from |-> CASE f \in {"topics", "manifest", "queries"} -> {}
                [] f = "subset" -> {<<"subset", Deployed>>}
                [] f \in {"embeddings", "docids", "gt_dev", "gt_dl", "sweep"}
                     -> {<<"subset", Deployed>>, <<"limit", NoLimit>>}
                [] f \in {"fusion", "phase3"}
                     -> {<<"corpus", Deployed>>, <<"subset", Deployed>>, <<"limit", NoLimit>>}
                [] OTHER -> {<<"corpus", Deployed>>}]

Reselected(f, e) ==
    IF f \in {"jsonl", "tsv", "subset"}
    THEN [state |-> "whole", from |-> Mark(f, e)] ELSE Whole(f)

Init ==
    /\ \/ \E e \in Editions :
              {e, NoLimit} \in FullSize /\ disk = [f \in Files |-> Reselected(f, e)]
       \/ disk = [f \in Files |-> [state |-> "absent", from |-> {}]]
    /\ script = "none" /\ pos = 1 /\ open = FALSE
    /\ edition = Deployed /\ force = FALSE
    /\ campaign \in Campaigns
    /\ detours = 0 /\ crashes = 0 /\ passed = 0
    /\ spoilt = {}

Next ==
    \/ StartNext
    \/ \E s \in Scripts, e \in Editions \cup Limits, f \in BOOLEAN : Detour(s, e, f)
    \/ Skip \/ Open \/ Close \/ Raise \/ Crash

Spec == Init /\ [][Next]_vars
-----------------------------------------------------------------------------
(* Properties *)

TypeOK ==
    /\ disk \in [Files -> [state : {"absent", "torn", "flawed", "whole"},
                           from : SUBSET ({"corpus", "subset", "limit"} \X (Editions \cup Limits))]]
    /\ script \in Scripts \cup {"none"}
    /\ pos \in Nat /\ (script # "none" => pos \in DOMAIN Steps[script])
    /\ open \in BOOLEAN /\ (open => ~Idle)
    /\ edition \in Editions \cup Limits /\ force \in BOOLEAN
    /\ campaign \in Campaigns
    /\ detours \in 0..MaxDetours /\ crashes \in 0..MaxCrashes
    /\ passed \in 0..Len(Order)
    /\ spoilt \subseteq Files

\* No interrupt leaves a file at the embeddings' path that looks complete and
\* ends in zero rows: what is there was written to the end (encode.py,
\* encode_passages_to_file).
EmbeddingsNeverTorn == disk["embeddings"].state # "torn"

\* Results whose inputs were made by separate scripts and are held together by
\* what the data passes for: by the recall, by the candidates' features.
Compared == {"sweep", "prerank", "precision"}

\* All of the data, and of one corpus export and one subset under one limit: of
\* those that pass for one in a result that rests on such a check.
Sound(f) ==
    /\ disk[f].state = "whole"
    /\ IF f \in Compared THEN Kindred(disk[f].from) ELSE ~Mixed(disk[f].from)

\* The results, and the files that can make one unsound with no error anywhere.
\* A result is sound unless one of them was spoilt: the checks of
\* ground_truth.py, ann_sweep.py and phase4_driver.py stop everything else.
\* The reports are not results: they put side by side whatever is there.
Lexical == {"tsv", "cascade_index", "run_dl", "run_dev"}
Suspects ==
    [lucene_eval |-> {"topics", "jsonl", "lucene_run"},
     tantivy_eval |-> {"tantivy_index", "tantivy_run"}, latency |-> {"tantivy_index"},
     cascade_dl_eval |-> {"tsv", "cascade_index", "run_dl"},
     cascade_dev_eval |-> {"tsv", "cascade_index", "run_dev"},
     query_cost |-> {"tsv", "cascade_index"},
     gt_dev |-> {"docids"}, gt_dl |-> {"docids"}, sweep |-> {"subset", "docids"},
     fusion |-> {"tsv", "cascade_index", "run_dl", "docids"},
     prerank |-> Lexical, batching |-> Lexical, precision |-> Lexical, queue |-> Lexical]
ResultsSound ==
    \A f \in DOMAIN Suspects :
        disk[f].state \in {"flawed", "whole"} /\ ~Sound(f) => Suspects[f] \cap spoilt # {}

\* A pass over all scripts in order, with the builds forced, leaves every
\* result whole and made from the deployed editions, whatever was there before.
\* Tantivy's are the exception: its forced build adds to the index it finds.
RerunRepairs ==
    passed = Len(Order) =>
        \A f \in DOMAIN Suspects \ {"tantivy_eval", "latency"} : disk[f] = Whole(f)
=============================================================================
