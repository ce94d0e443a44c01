--------------------------- MODULE NuRaftReplication ---------------------------
(***************************************************************************)
(* Log replication core of NuRaft (src/src/handle_append_entries.cxx).     *)
(*                                                                         *)
(* Several servers exchange AppendEntries requests and responses over an   *)
(* unordered network that may lose messages and lets an RPC time out while *)
(* its request is still delivered.  The leader side is the per-peer send   *)
(* path request_append_entries(p) with its busy flag and stuck-peer escape *)
(* hatch, the request builder create_append_entries_req with batch limit   *)
(* and retry narrowing, and the response reducer                           *)
(* handle_append_entries_resp with quorum commit.  The follower side is    *)
(* handle_append_entries with its skip / overwrite / append loops.         *)
(*                                                                         *)
(* Collaborators outside src/ (elections, log_store::write_at, commit(),    *)
(* the background commit thread, client appends, RPC completion) are       *)
(* modelled from spec.md and marked so in PROJECT.json.                    *)
(***************************************************************************)
EXTENDS Integers, Sequences, SequencesExt, FiniteSets, TLC

CONSTANTS
    Server,          \* server ids
    Learner,         \* non-voting members (is_learner())
    Kind,            \* entry kinds: subset of {"app", "conf"}
    MaxTerm,         \* bound on terms (elections)
    MaxLogLen,       \* bound on log length (client appends)
    MaxAppendSize,   \* raft_params::max_append_size_
    RetryNarrowLimit,\* the literal 5 of create_append_entries_req
    MaxMsgs,         \* bound on messages in flight for fresh sends
    ULongMax,        \* stands for 2^64 - 1, the wrap of ulong next_log_idx
    MaxFaults,       \* bound on losses, RPC timeouts, hung RPCs, stops and
                     \* frees of a busy flag whose RPC is still in flight
    Compaction,      \* whether servers take snapshots and compact their logs
    Crashes          \* whether a running server may crash between two steps

ASSUME /\ Learner \subseteq Server
       /\ Kind \subseteq {"app", "conf"}
       /\ MaxAppendSize >= 1 /\ RetryNarrowLimit >= 1
       /\ ULongMax > MaxLogLen + 1
       /\ Compaction \in BOOLEAN /\ Crashes \in BOOLEAN

VARIABLES
    currentTerm,     \* state_->get_term()
    role,            \* role_
    log,             \* log_store_ contents, index 1..next_slot()-1; the entries
                     \* below start are kept as the state the snapshot holds
    start,           \* log_store_->start_index(): first index the store holds
    snap,            \* get_last_snapshot(): [idx, term], idx = 0 for none
    quickCommit,     \* quick_commit_index_
    smCommit,        \* sm_commit_index_
    configChanging,  \* config_changing_
    preCommitted,    \* <<idx, term>> pre-committed in the state machine and not rolled back
    peer,            \* peer[l][p]: leader l's tracker of peer p
    network,         \* messages in flight
    committed,       \* history: entries a leader committed, with the leader's term
    faults,          \* count of the faults above so far
    stopped          \* servers that shut down (stopping_) in the loops and have not restarted

vars == <<currentTerm, role, log, start, snap, quickCommit, smCommit, configChanging,
          preCommitted, peer, network, committed, faults, stopped>>

snapVars == <<start, snap>>

Voters == Server \ Learner
Peers(s) == Server \ {s}
Terms == 1..MaxTerm
Index == 1..MaxLogLen
Entry == [term : Terms, kind : Kind]

\* next_slot(): the index the next appended entry gets.
NextSlot(lg) == Len(lg) + 1

\* term_for_log(i) / log_store_->term_at(i); 0 for an index the log does not hold.
TermAt(lg, i) == IF i \in 1..Len(lg) THEN lg[i].term ELSE 0

\* get_quorum_for_commit(): position, in the descending list of voter match
\* indices, of the highest index a majority holds.
QuorumForCommit == Cardinality(Voters) \div 2

ReqType == "AppendEntriesRequest"
RespType == "AppendEntriesResponse"
SnapType == "InstallSnapshotRequest"

NoSnapshot == [idx |-> 0, term |-> 0]

\* A message the leader sends and whose RPC completion frees busy.
IsReq(m) == m.type \in {ReqType, SnapType}

\* log_store_->term_at(i): 0 for an index the store does not hold, below
\* start_index() (compacted) as well as past the end (spec.md section 2:
\* entries below the snapshot are not retrievable).
StoreTermAt(lg, st, i) == IF i < st THEN 0 ELSE TermAt(lg, i)

\* log_store_->entry_at(i) of a compacted index: the store's dummy entry.
DummyEntry == [term |-> 0, kind |-> "app"]

\* log_store_->log_entries(from, to): entries from..to-1, each read as the
\* dummy entry where it lies below start_index().
StoreEntries(lg, st, from, to) ==
    [i \in 1..to - from |-> IF from + i - 1 < st THEN DummyEntry ELSE lg[from + i - 1]]

\* term_for_log(i): the snapshot's term at its last index, else the store's.
TermForLog(lg, st, sn, i) ==
    IF i = sn.idx /\ i > 0 THEN sn.term ELSE StoreTermAt(lg, st, i)

PeerRec == [next : 0..ULongMax, matched : 0..MaxLogLen, busy : BOOLEAN,
            manualFree : BOOLEAN, lastSent : 0..MaxLogLen + 1,
            cntNotApplied : 0..RetryNarrowLimit, pendingCommit : BOOLEAN]

InitPeer == [next |-> 0, matched |-> 0, busy |-> FALSE, manualFree |-> FALSE,
             lastSent |-> 0, cntNotApplied |-> 0, pendingCommit |-> FALSE]

-----------------------------------------------------------------------------
(* Leader side: request builder and per-peer send path.                    *)
(* ctx is the leader's view read under lock_: src, term, log, commit.      *)

\* Mutation: the fallback compares with the snapshot's index off by one.
NeedsSnapshotOffByOne(ctx, lastLogIdx) ==
    ctx.snap.idx > 0 /\ lastLogIdx < ctx.start /\ lastLogIdx + 1 < ctx.snap.idx

\* The snapshot fallback of create_append_entries_req (lines 198-208): the
\* peer lags behind the leader's log start and its snapshot.
NeedsSnapshot(ctx, lastLogIdx) ==
    ctx.snap.idx > 0 /\ lastLogIdx < ctx.start /\ lastLogIdx < ctx.snap.idx

\* create_sync_snapshot_req(p, ...), outside src/: an install-snapshot
\* request carrying the snapshot's index and term and, as its opaque state,
\* the entries it covers.
SyncSnapshotReq(ctx, p) ==
    [type |-> SnapType, term |-> ctx.term, src |-> ctx.src, dst |-> p,
     lastLogIdx |-> ctx.snap.idx, lastLogTerm |-> ctx.snap.term,
     commitIdx |-> ctx.commit, entries |-> SubSeq(ctx.log, 1, ctx.snap.idx),
     orphan |-> FALSE]

\* create_append_entries_req(p).
CreateAppendEntriesReq(ctx, p, r) ==
    LET curNxt     == NextSlot(ctx.log)
        r1         == IF r.next = 0 THEN [r EXCEPT !.next = curNxt] ELSE r
        lastLogIdx == r1.next - 1
        endIdx0    == Min({curNxt, lastLogIdx + 1 + MaxAppendSize})
        retry      == lastLogIdx + 1 = r1.lastSent /\ lastLogIdx + 2 < endIdx0
        \* inc_cnt_not_applied saturates here: any count >= the limit acts alike
        cnt        == IF retry THEN Min({r1.cntNotApplied + 1, RetryNarrowLimit})
                               ELSE 0
        endIdx     == IF retry /\ cnt >= RetryNarrowLimit
                      THEN Min({curNxt, lastLogIdx + 2}) ELSE endIdx0
    IN IF NeedsSnapshot(ctx, lastLogIdx)
       THEN [peer |-> r1, msg |-> SyncSnapshotReq(ctx, p)]
       ELSE
       [peer |-> [r1 EXCEPT !.lastSent = lastLogIdx + 1, !.cntNotApplied = cnt],
        msg  |-> [type |-> ReqType, term |-> ctx.term, src |-> ctx.src,
                  dst |-> p, lastLogIdx |-> lastLogIdx,
                  lastLogTerm |-> TermForLog(ctx.log, ctx.start, ctx.snap, lastLogIdx),
                  commitIdx |-> ctx.commit,
                  entries |-> StoreEntries(ctx.log, ctx.start, lastLogIdx + 1, endIdx),
                  orphan |-> FALSE]]

\* Mutation: the escape hatch is missing; a busy peer is never freed by
\* the sender.
RequestAppendEntriesPeerNoEscape(ctx, p, r, stuck) ==
    IF ~r.busy
    THEN LET b == CreateAppendEntriesReq(ctx, p, [r EXCEPT !.busy = TRUE])
         IN [peer |-> [b.peer EXCEPT !.manualFree = FALSE],
             msgs |-> {b.msg}, ok |-> TRUE]
    ELSE [peer |-> r, msgs |-> {}, ok |-> FALSE]

\* request_append_entries(p).  stuck: the ls_timer has passed
\* heart_beat_interval * BUSY_FLAG_LIMIT.  ok is the function's result.
RequestAppendEntriesPeer(ctx, p, r, stuck) ==
    IF ~r.busy
    THEN LET b == CreateAppendEntriesReq(ctx, p, [r EXCEPT !.busy = TRUE])
         IN [peer |-> [b.peer EXCEPT !.manualFree = FALSE],
             msgs |-> {b.msg}, ok |-> TRUE]
    ELSE IF stuck
    THEN [peer |-> [r EXCEPT !.busy = FALSE, !.manualFree = TRUE],
          msgs |-> {}, ok |-> FALSE]
    ELSE [peer |-> r, msgs |-> {}, ok |-> FALSE]

LeaderCtx(l, qc) == [src |-> l, term |-> currentTerm[l], log |-> log[l], commit |-> qc,
                     start |-> start[l], snap |-> snap[l]]

\* The RPC of leader l to peer p is still under way: its request or its
\* response is in flight.
InFlight(l, p) ==
    \E m \in network :
        \/ IsReq(m) /\ m.src = l /\ m.dst = p /\ ~m.orphan
        \/ m.type = RespType /\ m.src = p /\ m.dst = l

\* Faults spent when the escape hatch frees the peers S of l: a free of a
\* peer whose RPC is still in flight lets a second request overlap it; a
\* free after a hung RPC (already counted) costs nothing more.
FreeCost(l, S) == Cardinality({q \in S : InFlight(l, q)})

\* request_append_entries(p) for every peer p; stuckSet are the peers whose
\* ls_timer has passed the busy limit.  Returns the new trackers, the sent
\* messages and the set of peers for which the call returned false.
Broadcast(ctx, pst, stuckSet) ==
    LET d == [p \in Peers(ctx.src) |->
                RequestAppendEntriesPeer(ctx, p, pst[p], p \in stuckSet)]
    IN [pst  |-> [p \in Peers(ctx.src) |-> d[p].peer] @@ pst,
        msgs |-> UNION {d[p].msgs : p \in Peers(ctx.src)},
        failed |-> {p \in Peers(ctx.src) : ~d[p].ok}]

\* commit(target) on leader l: advances quick_commit_index_ only over an entry
\* of the current term, then asks every peer to send; a peer whose send
\* returned false gets pending_commit.
LeaderCommit(l, lg, target, pst, stuckSet) ==
    IF target > quickCommit[l] /\ TermAt(lg, target) = currentTerm[l]
    THEN LET b == Broadcast([LeaderCtx(l, target) EXCEPT !.log = lg], pst, stuckSet)
         IN [qc |-> target, msgs |-> b.msgs,
             pst |-> [p \in DOMAIN b.pst |->
                        IF p \in b.failed
                        THEN [b.pst[p] EXCEPT !.pendingCommit = TRUE]
                        ELSE b.pst[p]]]
    ELSE [qc |-> quickCommit[l], msgs |-> {}, pst |-> pst]

\* Mutation: matched_indexes[quorum_idx] read as a 1-based position.
CommitCandidateOffByOne(l, lg, pst) ==
    LET voterPeers == SetToSeq(Voters \ {l})
        matched    == <<Len(lg)>> \o [i \in 1..Len(voterPeers) |-> pst[voterPeers[i]].matched]
    IN SortSeq(matched, LAMBDA a, b : a > b)[QuorumForCommit]

\* The candidate of handle_append_entries_resp: the leader's own last index
\* and every voting peer's matched index, sorted descending, at position
\* get_quorum_for_commit().
CommitCandidate(l, lg, pst) ==
    LET voterPeers == SetToSeq(Voters \ {l})
        matched    == <<Len(lg)>> \o [i \in 1..Len(voterPeers) |-> pst[voterPeers[i]].matched]
    IN SortSeq(matched, LAMBDA a, b : a > b)[QuorumForCommit + 1]

\* Mutation: matched_idx taken as the response's next index itself.
NewMatchedIdxIsNext(nextIdx) == nextIdx

\* matched_idx taken from an accepted response.
NewMatchedIdx(nextIdx) == nextIdx - 1

\* next_log_idx after a rejection: fast jump to the hint, else one back
\* (unsigned: one back from 0 wraps).
RegressNextIdx(r, hint) ==
    IF hint > 0 /\ r.next > hint THEN hint ELSE (r.next - 1) % (ULongMax + 1)

-----------------------------------------------------------------------------
(* Follower side: handle_append_entries.                                    *)
(* A follower state record F = [log, st, pre, cfg, smc, qc]; st is the    *)
(* store's start_index(), which the loops never change.                    *)

\* log_store_->write_at(idx, e): overwrite and truncate everything after idx.
WriteAt(lg, idx, e) == SubSeq(lg, 1, idx - 1) \o <<e>>

\* Mutation: the skip loop skips every overlapping entry, whatever its term.
RECURSIVE SkipMatchingAnyTerm(_, _, _, _, _)
SkipMatchingAnyTerm(lg, st, idx, ents, cnt) ==
    IF idx < NextSlot(lg) /\ cnt < Len(ents)
    THEN SkipMatchingAnyTerm(lg, st, idx + 1, ents, cnt + 1)
    ELSE cnt

\* Skip loop: number of request entries already present with the same term.
RECURSIVE SkipMatching(_, _, _, _, _)
SkipMatching(lg, st, idx, ents, cnt) ==
    IF idx < NextSlot(lg) /\ cnt < Len(ents) /\ StoreTermAt(lg, st, idx) = ents[cnt + 1].term
    THEN SkipMatching(lg, st, idx + 1, ents, cnt + 1)
    ELSE cnt

\* One iteration of the overwrite loop at idx with entry e.
OverwriteOne(F, idx, e) ==
    LET old  == IF idx < F.st THEN DummyEntry ELSE F.log[idx]
        pre1 == IF old.kind = "app" THEN F.pre \ {<<idx, old.term>>} ELSE F.pre
        cfg1 == IF old.kind = "conf" THEN FALSE ELSE F.cfg
        back == idx <= F.smc
    IN [log |-> WriteAt(F.log, idx, e),
        pre |-> IF e.kind = "app" THEN pre1 \cup {<<idx, e.term>>} ELSE pre1,
        cfg |-> IF e.kind = "conf" THEN TRUE ELSE cfg1,
        smc |-> IF back THEN idx - 1 ELSE F.smc,
        qc  |-> IF back THEN idx - 1 ELSE F.qc]

\* Overwrite loop: runs while idx is inside the log and entries remain.
RECURSIVE Overwrite(_, _, _, _)
Overwrite(F, idx, ents, cnt) ==
    IF idx < NextSlot(F.log) /\ cnt < Len(ents)
    THEN Overwrite(OverwriteOne(F, idx, ents[cnt + 1]), idx + 1, ents, cnt + 1)
    ELSE [f |-> F, cnt |-> cnt]

\* One iteration of the append loop.
AppendOne(F, e) ==
    LET idx == NextSlot(F.log)
    IN [F EXCEPT !.log = Append(F.log, e),
                 !.cfg = IF e.kind = "conf" THEN TRUE ELSE F.cfg,
                 !.pre = IF e.kind = "app" THEN F.pre \cup {<<idx, e.term>>} ELSE F.pre]

RECURSIVE AppendRest(_, _, _)
AppendRest(F, ents, cnt) ==
    IF cnt < Len(ents) THEN AppendRest(AppendOne(F, ents[cnt + 1]), ents, cnt + 1)
    ELSE F

\* The three loops of the accept path, from log_idx = last_log_idx + 1.
Reconcile(F, m) ==
    LET skipped == SkipMatching(F.log, F.st, m.lastLogIdx + 1, m.entries, 0)
        ow      == Overwrite(F, m.lastLogIdx + 1 + skipped, m.entries, skipped)
    IN AppendRest(ow.f, m.entries, ow.cnt)

\* log_okay: the request's last entry is in the log, or is the last entry
\* of the local snapshot.
LogOkay(lg, st, sn, m) ==
    LET logTerm == IF m.lastLogIdx < NextSlot(lg) THEN TermForLog(lg, st, sn, m.lastLogIdx) ELSE 0
    IN \/ m.lastLogIdx = 0
       \/ logTerm /= 0 /\ m.lastLogTerm = logTerm
       \/ sn.idx > 0 /\ sn.idx = m.lastLogIdx /\ sn.term = m.lastLogTerm

\* Mutation: the accepted index counted one past the batch.
AcceptedNextIdxPastBatch(m) == m.lastLogIdx + Len(m.entries) + 2

\* resp->accept(): the index after the last entry the request carried.
AcceptedNextIdx(m) == m.lastLogIdx + Len(m.entries) + 1

\* Mutation: the follower commits the leader's index without the min().
FollowerCommitTargetUnclamped(m, lg) == m.commitIdx

\* Mutation: the follower's clamp taken one below its last index.
FollowerCommitTargetShort(m, lg) == Min({m.commitIdx, NextSlot(lg) - 2})

\* commit(min(req.commit_idx, next_slot() - 1)) on a follower.
FollowerCommitTarget(m, lg) == Min({m.commitIdx, NextSlot(lg) - 1})

-----------------------------------------------------------------------------
(* Actions.                                                                 *)

Init ==
    /\ currentTerm = [s \in Server |-> 0]
    /\ role = [s \in Server |-> "Follower"]
    /\ log = [s \in Server |-> <<>>]
    /\ start = [s \in Server |-> 1]
    /\ snap = [s \in Server |-> NoSnapshot]
    /\ quickCommit = [s \in Server |-> 0]
    /\ smCommit = [s \in Server |-> 0]
    /\ configChanging = [s \in Server |-> FALSE]
    /\ preCommitted = [s \in Server |-> {}]
    /\ peer = [l \in Server |-> [p \in Server |-> InitPeer]]
    /\ network = {}
    /\ committed = {}
    /\ faults = 0
    /\ stopped = {}

\* History of leader commits from old to new quick_commit_index_ of l.
CommittedBy(l, lg, old, new) ==
    {[idx |-> i, entry |-> lg[i], cterm |-> currentTerm[l]] : i \in old + 1..new}

\* Election timer of a voter fires (outside src/: election logic).
Timeout(s) ==
    /\ s \in Voters
    /\ role[s] /= "Leader"
    /\ currentTerm[s] < MaxTerm
    /\ currentTerm' = [currentTerm EXCEPT ![s] = @ + 1]
    /\ role' = [role EXCEPT ![s] = "Candidate"]
    /\ UNCHANGED <<snapVars, log, quickCommit, smCommit, configChanging, preCommitted,
                   peer, network, committed, faults, stopped>>

\* A candidate wins the votes of a quorum Q in one step (outside src/):
\* every voter in Q has a lower term and a log no more up to date.
UpToDate(a, b) ==
    \/ TermAt(a, Len(a)) > TermAt(b, Len(b))
    \/ TermAt(a, Len(a)) = TermAt(b, Len(b)) /\ Len(a) >= Len(b)

BecomeLeader(s, Q) ==
    /\ role[s] = "Candidate"
    /\ s \in Q /\ Q \subseteq Voters /\ 2 * Cardinality(Q) > Cardinality(Voters)
    /\ \A q \in Q \ {s} : currentTerm[q] < currentTerm[s] /\ UpToDate(log[s], log[q])
    /\ currentTerm' = [x \in Server |-> IF x \in Q THEN currentTerm[s] ELSE currentTerm[x]]
    /\ role' = [x \in Server |-> IF x = s THEN "Leader"
                                 ELSE IF x \in Q THEN "Follower" ELSE role[x]]
    /\ peer' = [peer EXCEPT ![s] = [p \in Server |->
                  [peer[s][p] EXCEPT !.next = NextSlot(log[s]), !.matched = 0]]]
    /\ UNCHANGED <<snapVars, log, quickCommit, smCommit, configChanging, preCommitted,
                   network, committed, faults, stopped>>

\* Leader appends a client entry, pre-commits it, then runs
\* request_append_entries() over all peers (lines 38-55).
ClientRequest(l, k, stuckSet) ==
    /\ role[l] = "Leader"
    /\ Len(log[l]) < MaxLogLen
    /\ LET e  == [term |-> currentTerm[l], kind |-> k]
           lg == Append(log[l], e)
       IN /\ log' = [log EXCEPT ![l] = lg]
          /\ preCommitted' = [preCommitted EXCEPT ![l] =
                                IF k = "app" THEN @ \cup {<<Len(lg), e.term>>} ELSE @]
          /\ configChanging' = [configChanging EXCEPT ![l] = (k = "conf") \/ @]
          /\ IF Peers(l) = {} \/ QuorumForCommit = 0
             THEN LET c == LeaderCommit(l, lg, Len(lg), peer[l], {})
                  IN /\ quickCommit' = [quickCommit EXCEPT ![l] = c.qc]
                     /\ committed' = committed \cup CommittedBy(l, lg, quickCommit[l], c.qc)
                     /\ UNCHANGED <<peer, network>>
             ELSE LET b == Broadcast([LeaderCtx(l, quickCommit[l]) EXCEPT !.log = lg],
                                     peer[l], stuckSet)
                  IN /\ peer' = [peer EXCEPT ![l] = b.pst]
                     /\ network' = network \cup b.msgs
                     /\ UNCHANGED <<quickCommit, committed>>
    /\ faults' = faults + FreeCost(l, stuckSet)
    /\ UNCHANGED <<snapVars, currentTerm, role, smCommit, stopped>>

\* Heartbeat timer of leader l for peer p: request_append_entries(p).
Heartbeat(l, p, stuck) ==
    /\ role[l] = "Leader"
    /\ p \in Peers(l)
    /\ Cardinality(network) < MaxMsgs
    /\ stuck => peer[l][p].busy /\ faults + FreeCost(l, {p}) <= MaxFaults
    /\ LET d == RequestAppendEntriesPeer(LeaderCtx(l, quickCommit[l]), p, peer[l][p], stuck)
       IN /\ peer' = [peer EXCEPT ![l][p] = d.peer]
          /\ network' = network \cup d.msgs
    /\ faults' = faults + (IF stuck THEN FreeCost(l, {p}) ELSE 0)
    /\ UNCHANGED <<snapVars, currentTerm, role, log, quickCommit, smCommit, configChanging,
                   preCommitted, committed, stopped>>

\* The term and role of s once the shared pre-processing (a higher request
\* term makes s a follower of that term) and lines 293-295 (a candidate of
\* the request's term becomes a follower) have run.
ReqTerm(s, m) == IF m.term > currentTerm[s] THEN m.term ELSE currentTerm[s]
ReqRole(s, m) ==
    CASE m.term > currentTerm[s]                               -> "Follower"
      [] m.term = currentTerm[s] /\ role[s] = "Candidate"       -> "Follower"
      [] OTHER                                                 -> role[s]

\* A request from another leader of the same term is ignored with no
\* response ("there must be a bug", line 300).  Elections make one leader
\* per term, so no state reaches it; it is a guard of the follower's steps.
FromOtherLeader(s, m) == m.term = currentTerm[s] /\ role[s] = "Leader"

\* The response handle_append_entries returns; none for a request whose
\* RPC already timed out.
Reply(s, m, acc, nxt) ==
    IF m.orphan THEN {}
    ELSE {[type |-> RespType, term |-> ReqTerm(s, m), src |-> s, dst |-> m.src,
           nextIdx |-> nxt, accepted |-> acc]}

\* The follower state the loops work on.
FollowerState(s) ==
    [log |-> log[s], st |-> start[s], pre |-> preCommitted[s], cfg |-> configChanging[s],
     smc |-> smCommit[s], qc |-> quickCommit[s]]

\* handle_append_entries on server s: reject on a stale term or a log
\* mismatch, else reconcile the entries and commit.
HandleAppendEntries(s, m) ==
    /\ m \in network /\ m.type = ReqType /\ m.dst = s
    /\ ~FromOtherLeader(s, m)
    /\ currentTerm' = [currentTerm EXCEPT ![s] = ReqTerm(s, m)]
    /\ role' = [role EXCEPT ![s] = ReqRole(s, m)]
    /\ \/ /\ m.term < ReqTerm(s, m) \/ ~LogOkay(log[s], start[s], snap[s], m)
          /\ network' = (network \ {m}) \cup Reply(s, m, FALSE, NextSlot(log[s]))
          /\ UNCHANGED <<log, quickCommit, smCommit, configChanging, preCommitted>>
       \/ /\ m.term = ReqTerm(s, m) /\ LogOkay(log[s], start[s], snap[s], m)
          /\ \E F \in {Reconcile(FollowerState(s), m)} :
                /\ log' = [log EXCEPT ![s] = F.log]
                /\ preCommitted' = [preCommitted EXCEPT ![s] = F.pre]
                /\ configChanging' = [configChanging EXCEPT ![s] = F.cfg]
                /\ smCommit' = [smCommit EXCEPT ![s] = F.smc]
                /\ quickCommit' = [quickCommit EXCEPT ![s] =
                                     Max({F.qc, FollowerCommitTarget(m, F.log)})]
          /\ network' = (network \ {m}) \cup Reply(s, m, TRUE, AcceptedNextIdx(m))
    /\ UNCHANGED <<snapVars, peer, committed, faults, stopped>>

\* Mutation: the stopping_ return reports the batch as accepted.
StoppingReplyAccepted(s, m) == Reply(s, m, TRUE, AcceptedNextIdx(m))

\* What the stopping_ return sends back: resp as built at line 319, a
\* rejection carrying the next_slot() from before the loops.
StoppingReply(s, m) == Reply(s, m, FALSE, NextSlot(log[s]))

\* The server shuts down (stopping_) while s is in the overwrite or append
\* loop of an accepted request: the loops return after the iteration that
\* consumed entry stopAt (lines 441 and 462), so the entries up to stopAt
\* are written and pre-committed, end_of_append_batch and commit are
\* skipped, and the rejection built at line 319 goes back.  s then stops.
StopDuringAppend(s, m, stopAt) ==
    /\ m \in network /\ m.type = ReqType /\ m.dst = s
    /\ faults < MaxFaults
    /\ ~FromOtherLeader(s, m)
    /\ m.term = ReqTerm(s, m) /\ LogOkay(log[s], start[s], snap[s], m)
    /\ stopAt <= Len(m.entries)
    /\ stopAt > SkipMatching(log[s], start[s], m.lastLogIdx + 1, m.entries, 0)
    /\ \E F \in {Reconcile(FollowerState(s), [m EXCEPT !.entries = SubSeq(m.entries, 1, stopAt)])} :
          /\ log' = [log EXCEPT ![s] = F.log]
          /\ preCommitted' = [preCommitted EXCEPT ![s] = F.pre]
          /\ configChanging' = [configChanging EXCEPT ![s] = F.cfg]
          /\ smCommit' = [smCommit EXCEPT ![s] = F.smc]
          /\ quickCommit' = [quickCommit EXCEPT ![s] = F.qc]
    /\ currentTerm' = [currentTerm EXCEPT ![s] = ReqTerm(s, m)]
    /\ role' = [role EXCEPT ![s] = ReqRole(s, m)]
    /\ network' = (network \ {m}) \cup StoppingReply(s, m)
    /\ stopped' = stopped \cup {s}
    /\ faults' = faults + 1
    /\ UNCHANGED <<snapVars, peer, committed>>

\* The process of a running server, leader or not, dies between two steps.
\* Nothing is written: what is persistent stays as it was, and Restart
\* discards the rest.  A fault, like a loss.
Crash(s) ==
    /\ Crashes /\ faults < MaxFaults
    /\ stopped' = stopped \cup {s}
    /\ faults' = faults + 1
    /\ UNCHANGED <<snapVars, currentTerm, role, log, quickCommit, smCommit, configChanging,
                   preCommitted, peer, network, committed>>

\* An RPC to a stopped server fails: the connection is refused and the
\* sender's callback frees the busy flag; anything sent to it is gone.
RefusedByStopped(m) ==
    /\ m \in network /\ m.dst \in stopped
    /\ network' = network \ {m}
    /\ peer' = IF IsReq(m) /\ ~m.orphan
               THEN [peer EXCEPT ![m.src][m.dst].busy = FALSE] ELSE peer
    /\ UNCHANGED <<snapVars, currentTerm, role, log, quickCommit, smCommit, configChanging,
                   preCommitted, committed, faults, stopped>>

\* Mutation: the state machine's commit index is not persistent; a restarted
\* server starts applying from index 1 again.
RestartForgetsApplied(s) ==
    /\ s \in stopped
    /\ stopped' = stopped \ {s}
    /\ role' = [role EXCEPT ![s] = "Follower"]
    /\ quickCommit' = [quickCommit EXCEPT ![s] = 0]
    /\ smCommit' = [smCommit EXCEPT ![s] = 0]
    /\ preCommitted' = [preCommitted EXCEPT ![s] = {}]
    /\ configChanging' = [configChanging EXCEPT ![s] = FALSE]
    /\ peer' = [peer EXCEPT ![s] = [p \in Server |-> InitPeer]]
    /\ UNCHANGED <<snapVars, currentTerm, log, network, committed, faults>>

\* A stopped server starts again (raft_server's constructor, outside src/).
\* Its log store, snapshot and term are persistent and the log store is the
\* authority (spec.md section 5), as is the state machine's last commit
\* index, from which both commit indices restart; trackers, pre-commits not
\* yet committed and config_changing_ lived in memory and are lost.
Restart(s) ==
    /\ s \in stopped
    /\ stopped' = stopped \ {s}
    /\ role' = [role EXCEPT ![s] = "Follower"]
    /\ quickCommit' = [quickCommit EXCEPT ![s] = smCommit[s]]
    /\ preCommitted' = [preCommitted EXCEPT ![s] = {}]
    /\ configChanging' = [configChanging EXCEPT ![s] = FALSE]
    /\ peer' = [peer EXCEPT ![s] = [p \in Server |-> InitPeer]]
    /\ UNCHANGED <<snapVars, currentTerm, log, smCommit, network, committed, faults>>

\* The tail of handle_append_entries_resp: a leader that still needs to
\* catch the peer up calls request_append_entries(p).
CatchUp(l, p, qc, pst, need) ==
    IF role[l] = "Leader" /\ need
    THEN RequestAppendEntriesPeer(LeaderCtx(l, qc), p, pst[p], FALSE)
    ELSE [peer |-> pst[p], msgs |-> {}]

\* Leader l's new commit index, trackers and sent messages after the
\* response m.
RespEffect(l, m, qc, pst, msgs) ==
    /\ peer' = [peer EXCEPT ![l] = pst]
    /\ network' = (network \ {m}) \cup msgs
    /\ quickCommit' = [quickCommit EXCEPT ![l] = qc]
    /\ committed' = committed \cup CommittedBy(l, log[l], quickCommit[l], qc)
    /\ UNCHANGED <<snapVars, currentTerm, role, log, smCommit, configChanging, preCommitted, stopped>>

\* handle_append_entries_resp, accepted path, on leader l for a response of
\* its own term; pst0 is l's trackers after the RPC completion freed the
\* peer's busy flag.  The new matched index feeds the quorum commit, whose
\* broadcast may find stuck peers (stuckSet).
HandleAcceptedResp(l, m, pst0, stuckSet) ==
    LET p    == m.src
        pst1 == [pst0 EXCEPT ![p].next = m.nextIdx, ![p].matched = NewMatchedIdx(m.nextIdx)]
    IN /\ m.accepted
       /\ \E c \in {LeaderCommit(l, log[l], CommitCandidate(l, log[l], pst1), pst1, stuckSet)} :
          \E cu \in {CatchUp(l, p, c.qc, [c.pst EXCEPT ![p].pendingCommit = FALSE],
                             c.pst[p].pendingCommit \/ m.nextIdx < NextSlot(log[l]))} :
             RespEffect(l, m, c.qc, [c.pst EXCEPT ![p] = cu.peer], c.msgs \cup cu.msgs)
       /\ faults' = faults + FreeCost(l, stuckSet)

\* handle_append_entries_resp, rejected path: move next_log_idx back, then
\* always try to catch up.
HandleRejectedResp(l, m, pst0) ==
    LET p    == m.src
        pst1 == [pst0 EXCEPT ![p].next = RegressNextIdx(pst0[p], m.nextIdx)]
    IN /\ ~m.accepted
       /\ \E cu \in {CatchUp(l, p, quickCommit[l], pst1, TRUE)} :
             RespEffect(l, m, quickCommit[l], [pst1 EXCEPT ![p] = cu.peer], cu.msgs)
       /\ UNCHANGED faults

\* Completion of an RPC to leader l: the peer's busy flag is freed, then the
\* response goes through the shared term handling: a higher term makes l a
\* follower, a lower one is dropped, the same one reaches the handler.
RecvAppendEntriesResp(l, m, stuckSet) ==
    /\ m \in network /\ m.type = RespType /\ m.dst = l
    /\ LET pst0 == [peer[l] EXCEPT ![m.src].busy = FALSE]
       IN \/ /\ m.term > currentTerm[l]
             /\ currentTerm' = [currentTerm EXCEPT ![l] = m.term]
             /\ role' = [role EXCEPT ![l] = "Follower"]
             /\ peer' = [peer EXCEPT ![l] = pst0]
             /\ network' = network \ {m}
             /\ UNCHANGED <<snapVars, log, quickCommit, smCommit, configChanging,
                            preCommitted, committed, faults, stopped>>
          \/ /\ m.term < currentTerm[l]
             /\ peer' = [peer EXCEPT ![l] = pst0]
             /\ network' = network \ {m}
             /\ UNCHANGED <<snapVars, currentTerm, role, log, quickCommit, smCommit,
                            configChanging, preCommitted, committed, faults, stopped>>
          \/ /\ m.term = currentTerm[l]
             /\ \/ HandleAcceptedResp(l, m, pst0, stuckSet)
                \/ HandleRejectedResp(l, m, pst0)

\* The transport loses a message; the sender's RPC fails and frees busy.
\* A request whose RPC already timed out frees nothing more.
LoseMessage(m) ==
    /\ m \in network
    /\ faults < MaxFaults
    /\ faults' = faults + 1
    /\ network' = network \ {m}
    /\ peer' = CASE IsReq(m) /\ ~m.orphan -> [peer EXCEPT ![m.src][m.dst].busy = FALSE]
                 [] m.type = RespType -> [peer EXCEPT ![m.dst][m.src].busy = FALSE]
                 [] OTHER -> peer
    /\ UNCHANGED <<snapVars, currentTerm, role, log, quickCommit, smCommit, configChanging,
                   preCommitted, committed, stopped>>

\* The leader's RPC times out while its request is still delivered later;
\* the follower handles it, but its response is discarded.
RpcTimeout(m) ==
    /\ m \in network /\ IsReq(m) /\ ~m.orphan
    /\ faults < MaxFaults
    /\ faults' = faults + 1
    /\ network' = (network \ {m}) \cup {[m EXCEPT !.orphan = TRUE]}
    /\ peer' = [peer EXCEPT ![m.src][m.dst].busy = FALSE]
    /\ UNCHANGED <<snapVars, currentTerm, role, log, quickCommit, smCommit, configChanging,
                   preCommitted, committed, stopped>>

\* Background commit thread, woken by commit(): its loop applies every entry
\* up to quick_commit_index_ (and the end of the log) in one run.
ApplyCommitted(s) ==
    /\ smCommit[s] < Min({quickCommit[s], Len(log[s])})
    /\ smCommit' = [smCommit EXCEPT ![s] = Min({quickCommit[s], Len(log[s])})]
    /\ UNCHANGED <<snapVars, currentTerm, role, log, quickCommit, configChanging,
                   preCommitted, peer, network, committed, faults, stopped>>

\* The transport never completes an RPC: its request or response vanishes
\* and no callback frees the busy flag.  Only the escape hatch of
\* request_append_entries(p) (lines 141-146) frees it again.
HangRpc(m) ==
    /\ m \in network /\ (IsReq(m) => ~m.orphan)
    /\ faults < MaxFaults
    /\ faults' = faults + 1
    /\ network' = network \ {m}
    /\ UNCHANGED <<snapVars, currentTerm, role, log, quickCommit, smCommit, configChanging,
                   preCommitted, peer, committed, stopped>>

\* The state machine of s takes a snapshot at a committed and applied index
\* k and the log store is compacted up to it (outside src/; no entries are
\* reserved below the snapshot).
Compact(s, k) ==
    /\ Compaction
    /\ k > snap[s].idx /\ k <= smCommit[s]
    /\ snap' = [snap EXCEPT ![s] = [idx |-> k, term |-> log[s][k].term]]
    /\ start' = [start EXCEPT ![s] = k + 1]
    /\ UNCHANGED <<currentTerm, role, log, quickCommit, smCommit, configChanging,
                   preCommitted, peer, network, committed, faults, stopped>>

\* Install-snapshot handling on s (outside src/; spec.md gives only the
\* trigger): after the shared term handling, a stale request is rejected; a
\* snapshot s has already committed past is acknowledged; otherwise the
\* snapshot replaces the log, the state machine and both commit indices.
\* The response goes through the leader's response handling with the
\* snapshot's next index.
InstallSnapshot(s, m) ==
    /\ m \in network /\ m.type = SnapType /\ m.dst = s
    /\ ~FromOtherLeader(s, m)
    /\ currentTerm' = [currentTerm EXCEPT ![s] = ReqTerm(s, m)]
    /\ role' = [role EXCEPT ![s] = ReqRole(s, m)]
    /\ \/ /\ m.term < ReqTerm(s, m)
          /\ network' = (network \ {m}) \cup Reply(s, m, FALSE, NextSlot(log[s]))
          /\ UNCHANGED <<log, snapVars, quickCommit, smCommit, preCommitted>>
       \/ /\ m.term = ReqTerm(s, m) /\ m.lastLogIdx <= quickCommit[s]
          /\ network' = (network \ {m}) \cup Reply(s, m, TRUE, m.lastLogIdx + 1)
          /\ UNCHANGED <<log, snapVars, quickCommit, smCommit, preCommitted>>
       \/ /\ m.term = ReqTerm(s, m) /\ m.lastLogIdx > quickCommit[s]
          /\ log' = [log EXCEPT ![s] = m.entries]
          /\ snap' = [snap EXCEPT ![s] = [idx |-> m.lastLogIdx, term |-> m.lastLogTerm]]
          /\ start' = [start EXCEPT ![s] = m.lastLogIdx + 1]
          /\ quickCommit' = [quickCommit EXCEPT ![s] = m.lastLogIdx]
          /\ smCommit' = [smCommit EXCEPT ![s] = m.lastLogIdx]
          /\ preCommitted' = [preCommitted EXCEPT ![s] = {}]
          /\ network' = (network \ {m}) \cup Reply(s, m, TRUE, m.lastLogIdx + 1)
    /\ UNCHANGED <<configChanging, peer, committed, faults, stopped>>

\* Sets of busy peers of l (other than those in except) whose ls_timer may
\* have passed the busy limit when a send path reaches them, within the
\* fault budget.
StuckChoices(l, except) ==
    {S \in SUBSET {q \in Peers(l) \ except : peer[l][q].busy} :
        faults + FreeCost(l, S) <= MaxFaults}

\* All terms are used up and no server leads: the bounded run ends here.
ElectionsExhausted ==
    /\ \A s \in Server : role[s] /= "Leader"
    /\ \A s \in Voters : currentTerm[s] = MaxTerm
    /\ UNCHANGED vars

Next ==
    \/ \E s \in Server \ stopped :
        \/ Timeout(s)
        \/ role[s] = "Candidate" /\ \E Q \in SUBSET (Voters \ stopped) : BecomeLeader(s, Q)
        \/ role[s] = "Leader" /\ \E k \in Kind, S \in StuckChoices(s, {}) : ClientRequest(s, k, S)
        \/ role[s] = "Leader" /\ \E p \in Peers(s), stuck \in BOOLEAN : Heartbeat(s, p, stuck)
        \/ \E m \in network : HandleAppendEntries(s, m)
        \/ faults < MaxFaults /\ \E m \in network, stopAt \in 1..MaxAppendSize :
                StopDuringAppend(s, m, stopAt)
        \/ \E m \in network : InstallSnapshot(s, m)
        \/ Compaction /\ \E k \in Index : Compact(s, k)
        \/ \E m \in network : m.dst = s /\ \E S \in StuckChoices(s, {m.src}) :
                RecvAppendEntriesResp(s, m, S)
        \/ ApplyCommitted(s)
        \/ Crashes /\ Crash(s)
    \/ \E m \in network : LoseMessage(m) \/ RpcTimeout(m) \/ HangRpc(m)
    \/ \E m \in network : RefusedByStopped(m)
    \/ \E s \in stopped : Restart(s)
    \/ ElectionsExhausted

Spec == Init /\ [][Next]_vars

\* The fairness the code's timers and RPC clients give.  The heartbeat
\* timer calls request_append_entries(p) for every peer periodically, and
\* the ls_timer of a peer left busy keeps growing until the escape hatch
\* frees it.  Every peer has its own RPC client, so a request from q to a
\* running s, or a response from q to s, that is neither lost nor hung is
\* handled eventually, whatever the other connections do; an RPC to a
\* stopped server fails eventually.  Losses, timeouts, hangs and stops are
\* not fair: MaxFaults bounds them, so every behaviour ends them.
FairSpec ==
    /\ Spec
    /\ \A l, p \in Server, stuck \in BOOLEAN :
          WF_vars(l \notin stopped /\ Heartbeat(l, p, stuck))
    /\ \A s, q \in Server :
          /\ WF_vars(s \notin stopped /\
                     \E m \in network : m.src = q /\ HandleAppendEntries(s, m))
          /\ WF_vars(s \notin stopped /\
                     \E m \in network : m.src = q /\ InstallSnapshot(s, m))
          /\ WF_vars(s \notin stopped /\
                     \E m \in network : m.src = q /\
                        \E S \in StuckChoices(s, {q}) : RecvAppendEntriesResp(s, m, S))
    /\ WF_vars(\E m \in network : RefusedByStopped(m))
    /\ \A s \in Server : WF_vars(s \notin stopped /\ ApplyCommitted(s))

-----------------------------------------------------------------------------
(* Refinement: this model implements CommittedLog.  The committed log is   *)
(* read from the commit history (the entry committed at each index; two     *)
(* leaders committing different entries at one index make the mapped log    *)
(* change under an earlier index, which CommittedLog forbids).  A server's  *)
(* applied entries are its log up to sm_commit_index_.                      *)

CommittedSeq ==
    LET n == Max({c.idx : c \in committed} \cup {0})
    IN [i \in 1..n |-> (CHOOSE c \in committed : c.idx = i).entry]

AppliedSeq == [s \in Server |-> SubSeq(log[s], 1, smCommit[s])]

Abs == INSTANCE CommittedLog
         WITH clog <- CommittedSeq, applied <- AppliedSeq,
              Value <- Entry, MaxLen <- MaxLogLen

-----------------------------------------------------------------------------
(* Properties.                                                              *)

ReqOK(m) ==
    /\ m.term \in Terms /\ m.src \in Server /\ m.dst \in Server
    /\ m.lastLogIdx \in 0..MaxLogLen /\ m.lastLogTerm \in 0..MaxTerm
    /\ m.commitIdx \in 0..MaxLogLen /\ m.entries \in Seq(Entry)
    /\ m.orphan \in BOOLEAN

RespOK(m) ==
    /\ m.term \in Terms /\ m.src \in Server /\ m.dst \in Server
    /\ m.nextIdx \in 1..MaxLogLen + 1 /\ m.accepted \in BOOLEAN

TypeOK ==
    /\ currentTerm \in [Server -> 0..MaxTerm]
    /\ role \in [Server -> {"Follower", "Candidate", "Leader"}]
    /\ \A s \in Server : log[s] \in Seq(Entry) /\ Len(log[s]) <= MaxLogLen
    /\ start \in [Server -> 1..MaxLogLen + 1]
    /\ snap \in [Server -> [idx : 0..MaxLogLen, term : 0..MaxTerm]]
    /\ quickCommit \in [Server -> 0..MaxLogLen]
    /\ smCommit \in [Server -> 0..MaxLogLen]
    /\ configChanging \in [Server -> BOOLEAN]
    /\ preCommitted \in [Server -> SUBSET (Index \X Terms)]
    /\ peer \in [Server -> [Server -> PeerRec]]
    /\ \A m \in network : IF IsReq(m) THEN ReqOK(m) ELSE RespOK(m)
    /\ faults \in 0..MaxFaults
    /\ stopped \subseteq Server

\* What a leader believes a peer of its own term has replicated
\* (matched_idx set from accepted responses, possibly reordered or
\* answered to timed-out RPCs) really is in that peer's log.
MatchedIdxSound ==
    \A l \in Server : \A p \in Peers(l) :
        role[l] = "Leader" /\ currentTerm[p] = currentTerm[l] =>
            /\ peer[l][p].matched <= Len(log[p])
            /\ SubSeq(log[p], 1, peer[l][p].matched) = SubSeq(log[l], 1, peer[l][p].matched)

\* The fatal assertion of create_append_entries_req (line 176) never fires:
\* a leader's next_log_idx for any peer stays within its own next_slot().
PeerNextWithinLog ==
    \A l \in Server : \A p \in Peers(l) :
        role[l] = "Leader" => peer[l][p].next <= NextSlot(log[l])

\* Leader completeness: every entry a leader committed through
\* handle_append_entries_resp is in the log of every leader of the same or
\* a later term.
LeaderCompleteness ==
    \A l \in Server : role[l] = "Leader" =>
        \A c \in committed : c.cterm <= currentTerm[l] => TermAt(log[l], c.idx) = c.entry.term

\* quick_commit_index_ never runs past the end of the log (spec invariant 4,
\* the reason for the min() in handle_append_entries' commit call).
CommitWithinLog == \A s \in Server : quickCommit[s] <= Len(log[s])

\* The state machine's pre-committed entries are exactly the application
\* entries of the log: every entry removed from the log by the overwrite
\* path was rolled back with rollback_ext.
PreCommitMatchesLog ==
    \A s \in Server :
        preCommitted[s] = {<<i, log[s][i].term>> : i \in {j \in 1..Len(log[s]) : log[s][j].kind = "app"}}

\* config_changing_ is set only while a configuration entry is in the log:
\* the overwrite loop clears it when it overwrites a configuration entry
\* (spec section 4.4, phase B), so a configuration entry removed from the
\* log never leaves the flag behind.
ConfigChangingSound ==
    \A s \in Server :
        configChanging[s] => \E i \in DOMAIN log[s] : log[s][i].kind = "conf"

\* matched_idx of a peer never decreases while the leader keeps its term
\* (spec section 8, property 5).
MatchedIdxMonotonic ==
    [][\A l, p \in Server :
         role[l] = "Leader" /\ role'[l] = "Leader" /\ currentTerm'[l] = currentTerm[l] =>
            peer'[l][p].matched >= peer[l][p].matched]_vars

\* Refinement: every behaviour of the replication core is one of
\* CommittedLog's.  Leaders' commits (handle_append_entries_resp's quorum
\* commit) only extend one committed log, and sm_commit_index_ (the commit
\* thread, and its lowering by the overwrite loop) only ever hands a server's
\* state machine further entries of that log.
CommittedLogRefined == Abs!Spec

\* Replication progress: eventually every leader's tracker shows every
\* running peer holding its whole log.  A peer whose RPC hangs stays busy until the
\* escape hatch of request_append_entries(p) (lines 141-146) frees it, and
\* a late response that moved matched_idx back is followed by a catch-up
\* send (line 594), so no peer is left behind for good.
ReplicationProgress ==
    <>[](\A l \in Server : role[l] = "Leader" =>
            \A p \in Peers(l) \ stopped : peer[l][p].matched = Len(log[l]))

\* Commit propagation: eventually every running server's state machine has
\* every committed entry.  A follower learns the leader's commit index only
\* from a later request: the catch-up send for a peer with pending_commit
\* (line 569) or a heartbeat, then commit(min(...)) (line 478) and the
\* background commit thread apply it.
CommitPropagated ==
    <>[](\A s \in Server \ stopped : smCommit[s] >= Len(CommittedSeq))

=============================================================================
