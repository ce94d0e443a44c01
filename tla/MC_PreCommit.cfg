\* Two terms: a follower holding two pre-committed entries of an old
\* leader receives a conflicting entry at the first of them.
CONSTANTS
    Server = {s1, s2, s3}
    Learner = {}
    Kind = {"app"}
    MaxTerm = 2
    MaxLogLen = 2
    MaxAppendSize = 2
    RetryNarrowLimit = 5
    MaxMsgs = 1
    ULongMax = 9
    MaxFaults = 0
    Compaction = FALSE
    Crashes = FALSE

SYMMETRY ServerSymmetry
SPECIFICATION Spec

INVARIANT PreCommitMatchesLog
