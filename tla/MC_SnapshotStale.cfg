\* One term with compaction and one transport fault: a request the leader
\* retries, or one delivered late after its RPC timed out, reaches a follower
\* that has already committed, applied and compacted the entries it carries.
CONSTANTS
    Server = {s1, s2, s3}
    Learner = {}
    Kind = {"app"}
    MaxTerm = 1
    MaxLogLen = 2
    MaxAppendSize = 1
    RetryNarrowLimit = 5
    MaxMsgs = 2
    ULongMax = 9
    MaxFaults = 1
    Compaction = TRUE
    Crashes = FALSE

SYMMETRY ServerSymmetry
SPECIFICATION Spec

PROPERTY CommittedLogRefined
