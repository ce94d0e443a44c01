\* Two terms, one entry, one fault of any kind, a crash of any server
\* (the leader included) among them: a leader may die after appending or
\* after committing, restart as a follower with its persistent log, and
\* meet the next term's leader.
CONSTANTS
    Server = {s1, s2, s3}
    Learner = {}
    Kind = {"app"}
    MaxTerm = 2
    MaxLogLen = 1
    MaxAppendSize = 1
    RetryNarrowLimit = 5
    MaxMsgs = 1
    ULongMax = 9
    MaxFaults = 1
    Compaction = FALSE
    Crashes = TRUE

SYMMETRY ServerSymmetry
SPECIFICATION Spec

INVARIANT TypeOK
INVARIANT LeaderCompleteness
PROPERTY CommittedLogRefined
