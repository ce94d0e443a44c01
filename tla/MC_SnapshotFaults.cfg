\* One term, every fault of MC_Faults.cfg, and compaction: snapshots and
\* compacted logs under lost, late, hung and duplicated requests.
CONSTANTS
    Server = {s1, s2, s3}
    Learner = {}
    Kind = {"app"}
    MaxTerm = 1
    MaxLogLen = 1
    MaxAppendSize = 1
    RetryNarrowLimit = 5
    MaxMsgs = 2
    ULongMax = 9
    MaxFaults = 1
    Compaction = TRUE
    Crashes = FALSE

SYMMETRY ServerSymmetry
SPECIFICATION Spec

INVARIANT TypeOK
INVARIANT PeerNextWithinLog
