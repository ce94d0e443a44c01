\* One term, fair timers and RPC completion, one fault (a loss, an RPC
\* timeout, a hung RPC or an overlapping free): replication to every peer
\* must still finish.  No symmetry: TLC's liveness checking is not sound
\* under it.
CONSTANTS
    Server = {s1, s2, s3}
    Learner = {}
    Kind = {"app"}
    MaxTerm = 1
    MaxLogLen = 1
    MaxAppendSize = 1
    RetryNarrowLimit = 5
    MaxMsgs = 2
    ULongMax = 9
    MaxFaults = 1
    Compaction = FALSE
    Crashes = FALSE

SPECIFICATION FairSpec

PROPERTY ReplicationProgress CommitPropagated
