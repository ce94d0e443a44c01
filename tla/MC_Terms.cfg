\* Two terms on a reliable network: a second leader meets logs left behind
\* by the first.
CONSTANTS
    Server = {s1, s2, s3}
    Learner = {}
    Kind = {"app"}
    MaxTerm = 2
    MaxLogLen = 2
    MaxAppendSize = 2
    RetryNarrowLimit = 5
    MaxMsgs = 1
    ULongMax = 9
    MaxFaults = 0
    Compaction = FALSE
    Crashes = FALSE

SYMMETRY ServerSymmetry
SPECIFICATION Spec

INVARIANT TypeOK
INVARIANT LeaderCompleteness
PROPERTY CommittedLogRefined
