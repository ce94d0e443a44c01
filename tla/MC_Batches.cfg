\* One term, batches of two entries, one fault (a loss, an RPC timeout, a
\* hung RPC, an overlapping free, or a shutdown in the middle of the
\* follower's loops): a batch can be cut after its first entry.
CONSTANTS
    Server = {s1, s2, s3}
    Learner = {}
    Kind = {"app"}
    MaxTerm = 1
    MaxLogLen = 2
    MaxAppendSize = 2
    RetryNarrowLimit = 5
    MaxMsgs = 2
    ULongMax = 9
    MaxFaults = 1
    Compaction = FALSE
    Crashes = FALSE

SYMMETRY ServerSymmetry
SPECIFICATION Spec

INVARIANT MatchedIdxSound
INVARIANT PeerNextWithinLog
