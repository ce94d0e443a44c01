--------------------------- MODULE MC_QuorumCommit ---------------------------
(***************************************************************************)
(* The commit candidate of handle_append_entries_resp (lines 537-566),     *)
(* NuRaftReplication!CommitCandidate, checked against what it is meant to  *)
(* compute: the highest index that a majority of the voters hold.  Every   *)
(* leader, length of the leader's log and vector of matched indices up to  *)
(* MaxLogLen is an initial state; the model's other state does not matter *)
(* to the operator and is given fixed values.                              *)
(***************************************************************************)
EXTENDS Integers, FiniteSets, FiniteSetsExt

CONSTANTS Server, Learner, MaxLogLen

VARIABLES
    leader,    \* the leader computing the candidate
    lastIdx,   \* its last log index
    matched    \* matched[p]: its tracker's matched_idx of peer p

vars == <<leader, lastIdx, matched>>

R == INSTANCE NuRaftReplication
       WITH Kind <- {"app"}, MaxTerm <- 1, MaxAppendSize <- 1,
            RetryNarrowLimit <- 1, MaxMsgs <- 1, ULongMax <- MaxLogLen + 2,
            MaxFaults <- 0, Compaction <- FALSE, Crashes <- FALSE,
            currentTerm <- [s \in Server |-> 1],
            role <- [s \in Server |-> "Follower"],
            log <- [s \in Server |-> <<>>],
            start <- [s \in Server |-> 1],
            snap <- [s \in Server |-> [idx |-> 0, term |-> 0]],
            quickCommit <- [s \in Server |-> 0],
            smCommit <- [s \in Server |-> 0],
            configChanging <- [s \in Server |-> FALSE],
            preCommitted <- [s \in Server |-> {}],
            peer <- [s \in Server |-> [p \in Server |-> 0]],
            network <- {}, committed <- {}, faults <- 0, stopped <- {}

Voters == Server \ Learner

\* The leader's log: lastIdx entries (only its length matters here).
LeaderLog == [i \in 1..lastIdx |-> [term |-> 1, kind |-> "app"]]

\* The leader's trackers, as far as the candidate reads them.
Trackers == [p \in Server |-> [matched |-> matched[p]]]

Init ==
    /\ leader \in Voters
    /\ lastIdx \in 0..MaxLogLen
    /\ matched \in [Server -> 0..MaxLogLen]

Next == UNCHANGED vars

Spec == Init /\ [][Next]_vars

\* The index voter v holds: the leader its whole log, a peer its matched index.
Holds(v) == IF v = leader THEN lastIdx ELSE matched[v]

\* Reference: the largest k that more than half of the voters hold.
QuorumIndex ==
    Max({k \in 0..MaxLogLen :
            2 * Cardinality({v \in Voters : Holds(v) >= k}) > Cardinality(Voters)})

\* The sort of the voters' matched indices and the pick at position
\* get_quorum_for_commit() in handle_append_entries_resp give exactly the
\* highest index a majority holds, for odd and even voter counts alike, and
\* learners' matched indices are not counted.
CommitCandidateIsQuorumIndex ==
    R!CommitCandidate(leader, LeaderLog, Trackers) = QuorumIndex

=============================================================================
