\* Two terms, application and configuration entries: a follower holding an
\* old leader's entries receives a conflicting entry below its
\* configuration entry.
CONSTANTS
    Server = {s1, s2, s3}
    Learner = {}
    Kind = {"app", "conf"}
    MaxTerm = 2
    MaxLogLen = 2
    MaxAppendSize = 2
    RetryNarrowLimit = 5
    MaxMsgs = 1
    ULongMax = 9
    MaxFaults = 0
    Compaction = FALSE
    Crashes = FALSE

SYMMETRY ServerSymmetry
SPECIFICATION Spec

INVARIANT ConfigChangingSound
