SPECIFICATION Spec
CONSTANTS
    Editions = {"a", "b", "near"}
    Limits = {"all", "cut"}
    FullSize = {{"a", "all"}, {"b", "all"}}
    Alike = {{"a", "near"}, {"all", "cut"}}
    Deployed = "a"
    NoLimit = "all"
    Campaigns = {{"export", "lucene", "tantivy", "report"},
                 {"export", "cascade_bm25", "encode_candidates", "phase4_driver"},
                 {"subset", "encode", "ground_truth", "ann_sweep", "fusion"}}
    MaxDetours = 3
    MaxCrashes = 1
INVARIANTS
    EmbeddingsNeverTorn
    ResultsSound
    RerunRepairs
CHECK_DEADLOCK FALSE
