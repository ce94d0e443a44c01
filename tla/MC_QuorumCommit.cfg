\* Five servers, one of them a learner: four voters, so the even case of
\* get_quorum_for_commit() (a majority of 3 out of 4) is the one checked;
\* every leader, log length and matched vector up to 3 is an initial state.
CONSTANTS
    Server = {s1, s2, s3, s4, s5}
    Learner = {s5}
    MaxLogLen = 3

SPECIFICATION Spec

INVARIANT CommitCandidateIsQuorumIndex
