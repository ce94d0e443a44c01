\* Two terms on a reliable network with compaction: a new leader that has
\* compacted its log narrows a lagging follower's next index below its
\* start index and falls back to sending its snapshot.
CONSTANTS
    Server = {s1, s2, s3}
    Learner = {}
    Kind = {"app"}
    MaxTerm = 2
    MaxLogLen = 1
    MaxAppendSize = 1
    RetryNarrowLimit = 5
    MaxMsgs = 1
    ULongMax = 9
    MaxFaults = 0
    Compaction = TRUE
    Crashes = FALSE

SYMMETRY ServerSymmetry
SPECIFICATION Spec

INVARIANT TypeOK
INVARIANT MatchedIdxSound
PROPERTY CommittedLogRefined
INVARIANT LeaderCompleteness
