\* Two shards, three phases of up to four servers, two reruns after a crash or
\* an exception.
CONSTANTS
    N = 2
    MaxReruns = 2
SPECIFICATION FairSpec
INVARIANTS
    NoStrayServers
    OwnServersAnswer
    ResumedWhole
PROPERTIES
    ScriptEnds
CHECK_DEADLOCK FALSE
