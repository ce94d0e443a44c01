\* One term, every fault the model has: lost messages, RPC timeouts with
\* late delivery, hung RPCs, a stuck peer freed by the busy-flag escape
\* hatch, and a follower shutting down in the middle of its loops.
CONSTANTS
    Server = {s1, s2, s3}
    Learner = {}
    Kind = {"app"}
    MaxTerm = 1
    MaxLogLen = 2
    MaxAppendSize = 1
    RetryNarrowLimit = 5
    MaxMsgs = 2
    ULongMax = 9
    MaxFaults = 1
    Compaction = FALSE
    Crashes = FALSE

SYMMETRY ServerSymmetry
SPECIFICATION Spec

INVARIANT TypeOK
INVARIANT MatchedIdxSound
INVARIANT PeerNextWithinLog
INVARIANT CommitWithinLog
