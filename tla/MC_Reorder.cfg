\* One term and one stuck-peer free: two requests to the same follower are
\* in flight at once and their responses may arrive in either order.
CONSTANTS
    Server = {s1, s2, s3}
    Learner = {}
    Kind = {"app"}
    MaxTerm = 1
    MaxLogLen = 2
    MaxAppendSize = 2
    RetryNarrowLimit = 5
    MaxMsgs = 2
    ULongMax = 9
    MaxFaults = 1
    Compaction = FALSE
    Crashes = FALSE

SYMMETRY ServerSymmetry
SPECIFICATION Spec

PROPERTY MatchedIdxMonotonic
