# TLA+ models of NuRaft log replication

This directory holds TLA+ models of the log replication core of NuRaft
(`src/src/handle_append_entries.cxx`), the TLC configurations that check
them, and `PROJECT.json`. `PROJECT.json` maps every model definition to the
source lines it translates, and lists the runs, the mutants, the findings and
the hazards.

## The system

`handle_append_entries.cxx` contains four cooperating parts of a Raft
server, plus the collaborators they call.

| Part | Code | State it touches |
|---|---|---|
| Leader dispatcher | `request_append_entries()` (38-55), `request_append_entries(p)` (57-150) | per-peer `busy`, `manual_free`, `ls_timer`, warning and recovery counters |
| Request builder | `create_append_entries_req` (152-264) | reads the leader's log, term and commit index under `lock_`; writes the peer's `next_log_idx` (lazy init), `last_sent_idx` and `cnt_not_applied` |
| Follower acceptor | `handle_append_entries` (266-503) | term and role, the log, the state machine's pre-commit and rollback, `config_changing_`, `sm_commit_index_`, `quick_commit_index_` |
| Response reducer | `handle_append_entries_resp` (505-599) | the peer's `next_log_idx` and `matched_idx`, the leader's commit index, `pending_commit` |

Collaborators outside `src/` are modelled from `spec.md`:

- **Elections.** Modelled as two steps: an election timeout, and winning the votes of a quorum.
- **Term handling on responses.** A response of a higher term makes the leader step down. A response of a lower term is dropped.
- **`commit()`.** A leader advances its commit index only over an entry of its current term. It then sends to every peer, and a send that returns false sets `pending_commit`.
- **Background commit thread.** Raises `sm_commit_index_`.
- **Log store.** `write_at` overwrites an entry and truncates everything after it.
- **Transport.** Messages may be lost. An RPC may time out while its request is still delivered. An RPC may also hang, with no completion callback at all. An RPC to a stopped server fails.

How the parts interact:

1. A client append or the heartbeat timer calls the dispatcher.
2. If the peer is not busy, the dispatcher marks it busy and builds a request. If the peer is busy past `BUSY_FLAG_LIMIT`, the dispatcher frees the flag instead.
3. The follower reconciles its log and answers.
4. When the RPC completes, the busy flag is freed. The response reducer then moves `next_log_idx` and `matched_idx`, runs the quorum commit (which sends again to every peer), and sends again to the same peer if it still lags.

### What makes this code hard

- **Two requests to one peer at a time.** The busy flag is meant to allow one outstanding request per peer. Two things defeat it:
  - The busy-flag escape hatch (lines 141-146) frees a peer whose response is late, and the next call sends a second request.
  - An RPC timeout frees the flag while its request is still delivered.
  The two responses then arrive in either order.
- **Responses from the past.** Lost, late and timed-out messages mean a response may answer a request made long ago. The reducer updates the tracker before it checks whether the server is still leader.
- **Reconciling a log left by an old leader.** The skip, overwrite and append loops of the follower must undo pre-commits and config changes of overwritten entries. They must also lower `sm_commit_index_` when an applied entry is overwritten.
- **Quorum commit.** The leader commits the order statistic of the voters' matched indices.
- **Edge cases in the numbers.**
  - `next_log_idx` is an unsigned 64-bit value, and moving it back wraps at 0.
  - The follower's commit uses `min(commit_idx, next_slot - 1)`.
  - Retry narrowing counts to a literal 5.
- **Fatal checks.** `create_append_entries_req` kills the process when a peer's `next_log_idx - 1` reaches the leader's `next_slot` (line 176).

## Modules

### `NuRaftReplication.tla`

A model of the replication core, built from these parts.

**Constants.**
- The servers and the learners.
- The entry kinds.
- Bounds on terms and log length.
- `max_append_size_`.
- The retry-narrowing threshold (the literal 5).
- A bound on messages for timer-driven sends.
- `ULongMax`: the value at which `ulong` wraps.
- A bound on faults.
- `Compaction`: whether servers take snapshots and compact their logs.
- `Crashes`: whether a running server may crash between two steps.

**State.**
- `currentTerm`, `role` and `log` for every server.
- `start` and `snap`: the log store's `start_index` and the last snapshot (index and term). Entries below `start` stay in `log`, but the model never reads them: their term reads as 0 and their entry as a dummy, because spec.md section 2 says they are not retrievable.
- `quickCommit` and `smCommit`: the two commit indices.
- `configChanging`.
- `preCommitted`: the state machine's pre-committed entries, as `<<index, term>>` pairs.
- `peer[l][p]`: leader `l`'s tracker of peer `p`. It holds `next_log_idx`, `matched_idx`, `busy`, `manual_free`, `last_sent_idx`, `cnt_not_applied` and `pending_commit`.
- `network`: the set of messages in flight.
- `committed`: a history of what leaders committed (index, entry, leader's term), used by `LeaderCompleteness` and by the refinement mapping.
- `faults`: a fault counter, bounded by `MaxFaults`.
- `stopped`: the servers that shut down (`stopping_`) in the middle of the follower's loops, or crashed, and have not restarted.

**How the code maps to the model.**

| Code | Model |
|---|---|
| `create_append_entries_req` | `CreateAppendEntriesReq`, a pure operator. It returns the new tracker and the message. |
| `request_append_entries(p)` | `RequestAppendEntriesPeer`. It returns the tracker, the messages and the function's boolean result. |
| The loop over peers | `Broadcast` |
| `commit()` on a leader | `LeaderCommit` |
| The follower's three loops | `SkipMatching`, `Overwrite` / `OverwriteOne` and `AppendRest` / `AppendOne`, all RECURSIVE, composed by `Reconcile` |
| The follower's pre-processing and response | `ReqTerm`, `ReqRole`, `FromOtherLeader`, `Reply` |
| The `stopping_` returns (lines 441, 462) | `StopDuringAppend` with `StoppingReply` |
| The snapshot fallback (196-209) and `term_for_log` | `NeedsSnapshot`, `SyncSnapshotReq`, `TermForLog` |
| `term_at` / `entry_at` / `log_entries` of the log store | `StoreTermAt`, `DummyEntry`, `StoreEntries` (below `start`, the dummy entry) |
| The response handler | `HandleAcceptedResp`, `HandleRejectedResp` and the catch-up send `CatchUp` |

**Actions.** Each action is a whole handler:
- `ClientRequest`: append, pre-commit, then the dispatcher.
- `Heartbeat`: the timer calling `request_append_entries(p)`.
- `HandleAppendEntries`
- `StopDuringAppend`: the server shuts down after the loop iteration that consumed entry `stopAt`. The entries up to it are written and pre-committed, `end_of_append_batch` and `commit` are skipped, and the rejection built at line 319 (with the old `next_slot`) goes back. The server then takes no more steps. It counts as a fault.
- `RecvAppendEntriesResp`: the RPC completion frees busy, then the term handling or the handler runs.
- `Timeout` and `BecomeLeader`
- `LoseMessage` and `RpcTimeout`
- `HangRpc`: a request or response vanishes and no callback frees the busy flag.
- `RefusedByStopped`: an RPC to a stopped server fails, and the sender's callback frees busy.
- `Restart`: a stopped server starts again as a follower (modelled from spec.md). It keeps its log store, snapshot and term, since spec.md section 5 makes the log store the authority, and it keeps the state machine's commit index. `quick_commit_index_` restarts from that index. Trackers, uncommitted pre-commits and `config_changing_` are lost.
- `ApplyCommitted`
- `Crash` (only when `Crashes`): a running server, leader or follower, dies between two steps. Nothing is written, and `Restart` later discards what was in memory. It counts as a fault.
- `Compact` (only when `Compaction`): a server snapshots its state machine at an applied index and compacts its log up to it.
- `InstallSnapshot`: the follower's install-snapshot handling, as one message. The code for it is outside src/, so it is modelled from spec.md. The shared term handling comes first. A request from an older term is rejected. A snapshot the follower has already committed past is acknowledged. Otherwise the snapshot replaces the log, the state machine and both commit indices. The response goes through `handle_append_entries_resp` with the next index after the snapshot.
- `ElectionsExhausted`: stutters once every voter has used its last term and no one leads. It is the only state where the bounded model stops.

**Abstractions.**
- **Timers.** Whether a busy peer's `ls_timer` has passed `BUSY_FLAG_LIMIT` is a nondeterministic choice (`StuckChoices`, `Heartbeat`'s `stuck`). A free counts against `MaxFaults` only when the peer's RPC is still in flight (`InFlight`, `FreeCost`), because only then does the next request overlap another. A free after a hung RPC costs nothing more, since the hang was already counted.
- **Payloads.** Entries are reduced to a term and a kind.
- **Logging, callbacks and warning counters** are left out.
- **Elections** are atomic.
- **Requests of a timed-out RPC** are marked `orphan`. The follower handles them, but their response is never delivered.

**The same-term leader branch.** A request from a same-term leader is a guard of `HandleAppendEntries`, not a step. The modelled elections make at most one leader per term, so no reachable state takes that branch. No property checks this, because it would follow from the election model alone, whatever the code does.

**Refinement.** `Abs == INSTANCE CommittedLog WITH clog <- CommittedSeq, applied <- AppliedSeq, ...` maps the model onto the abstract specification:
- `CommittedSeq` is the entry committed at each index, read from `committed`.
- `AppliedSeq[s]` is `log[s]` up to `sm_commit_index_`.

The property `CommittedLogRefined == Abs!Spec` says that every behaviour of the model is a behaviour of `CommittedLog`.

**Fairness.** `FairSpec` adds weak fairness to `Spec`; see "Fairness" below.

### `CommittedLog.tla`

The abstract specification of what replication promises. It has one committed log `clog`, which only grows by `Commit`. Each server has an applied sequence, which `Apply(s)` extends to a longer prefix of `clog`. Nothing in it knows about messages, trackers or terms. Suppose two leaders commit different entries at one index, or a server applies an entry that is not the committed one, or `sm_commit_index_` moves back. Then the mapped `clog` or `applied` changes in a way `CommittedLog`'s next-state relation does not allow.

### `MC_NuRaftReplication.tla`

The model-checking wrapper. It defines server symmetry.

### `MC_QuorumCommit.tla`

Checks the pure operator `CommitCandidate` alone. It instantiates `NuRaftReplication` with fixed values for the state the operator does not read. Every leader, log length and vector of matched indices is an initial state. The operator is compared with a reference definition: the largest `k` that more than half of the voters hold.

## Runs

| Run | Config | Bounds | Checks |
|---|---|---|---|
| `faults_one_term` | `MC_Faults.cfg` | 3 servers, 1 term, 2 entries, batches of 1, 2 messages for timer sends, 1 fault | `TypeOK`, `MatchedIdxSound`, `PeerNextWithinLog`, `CommitWithinLog` |
| `faults_batches` | `MC_Batches.cfg` | as `faults_one_term`, but batches of 2 | `MatchedIdxSound`, `PeerNextWithinLog` |
| `two_terms` | `MC_Terms.cfg` | 3 servers, 2 terms, 2 entries, batches of 2, 1 message for timer sends, no faults | `TypeOK`, `LeaderCompleteness`, `CommittedLogRefined` |
| `replication_progress` | `MC_Liveness.cfg` | 3 servers, 1 term, 1 entry, batches of 1, 2 messages, 1 fault, `FairSpec`, no symmetry | `ReplicationProgress`, `CommitPropagated` |
| `quorum_commit` | `MC_QuorumCommit.cfg` | 5 servers (4 voters, 1 learner), indices up to 3 | `CommitCandidateIsQuorumIndex` |
| `snapshot_two_terms` | `MC_Snapshot.cfg` | 3 servers, 2 terms, 1 entry, batches of 1, 1 message, no faults, compaction | `TypeOK`, `MatchedIdxSound`, `CommittedLogRefined`, `LeaderCompleteness` |
| `snapshot_faults` | `MC_SnapshotFaults.cfg` | 3 servers, 1 term, 1 entry, batches of 1, 2 messages, 1 fault, compaction | `TypeOK`, `PeerNextWithinLog` |
| `crash_two_terms` | `MC_Crash.cfg` | 3 servers, 2 terms, 1 entry, batches of 1, 1 message, 1 fault of any kind, crashes included | `TypeOK`, `LeaderCompleteness`, `CommittedLogRefined` |
| `precommit_truncation` | `MC_PreCommit.cfg` | as `two_terms` | `PreCommitMatchesLog`, expected violated |
| `reordered_responses` | `MC_Reorder.cfg` | 1 term, batches of 2, 1 fault | `MatchedIdxMonotonic`, expected violated |
| `snapshot_stale_overwrite` | `MC_SnapshotStale.cfg` | 1 term, 2 entries, batches of 1, 1 fault, compaction | `CommittedLogRefined`, expected violated |
| `conf_truncation` | `MC_ConfTruncation.cfg` | as `precommit_truncation`, with application and configuration entries | `ConfigChangingSound`, expected violated |

What each property says:

- **`MatchedIdxSound`.** When a leader's tracker says a peer of its term has matched index `k`, the peer's log equals the leader's up to `k`. This must hold even though responses are late, duplicated or answer timed-out RPCs.
- **`PeerNextWithinLog`.** The fatal check of `create_append_entries_req` never fires.
- **`CommitWithinLog`.** `quick_commit_index_` never passes the end of the log. This is the reason for the `min` in the follower's commit.
- **`LeaderCompleteness`.** Every entry a leader committed is in the log of every leader of that term or a later one.
- **`CommittedLogRefined`.** The model refines `CommittedLog`:
  - leaders' commits only ever extend one committed log;
  - every server's state machine is fed a growing prefix of it.
  This subsumes state machine safety (no two servers apply different entries at one index). It also says more: an applied entry is never taken back, and no index is committed twice with different entries.
- **`ReplicationProgress`.** Eventually every leader's tracker shows every running peer holding its whole log. A hung RPC is undone by the escape hatch, and a late response that lowered `matched_idx` is followed by a catch-up send.
- **`CommitPropagated`.** Eventually every running server's state machine has every committed entry. A follower learns a new commit index only from a later request. That request is the catch-up send of a peer with `pending_commit` (line 569), or a heartbeat. Then `commit(min(...))` (line 478) and the background commit thread apply the index.
- **`ConfigChangingSound`.** `config_changing_` is set only while a configuration entry is in the log. It is checked only in a violation run (finding 4), the one run whose `Kind` includes configuration entries.
- **`CommitCandidateIsQuorumIndex`.** The sort-and-pick candidate equals the highest index a majority of the voters hold. It is checked with an even number of voters and a learner.

Each property of a passing run has a mutant in `PROJECT.json`: a plausible bug in a mapped definition, under which TLC finds the property violated.
- The accepted index counted one past the batch breaks `TypeOK` and `PeerNextWithinLog`.
- `matched_idx = next_idx` breaks `MatchedIdxSound`.
- A `stopping_` return that reports the batch as accepted breaks `MatchedIdxSound` in `faults_batches`.
- A dispatcher without the escape hatch breaks `ReplicationProgress`.
- A follower that clamps its commit index one below its last entry breaks `CommitPropagated`.
- A restart that forgets the state machine's commit index breaks `CommittedLogRefined` in `crash_two_terms`.
- A follower commit without `min` breaks `CommitWithinLog`.
- Reading `matched_indexes[quorum_idx]` as a 1-based position breaks `LeaderCompleteness` and `CommitCandidateIsQuorumIndex`.
- A skip loop that ignores terms breaks `CommittedLogRefined`.
- A snapshot fallback that compares with the snapshot's index off by one breaks `CommittedLogRefined` in `snapshot_two_terms`. The builder then reads `log_entries()` below the store's `start_index`, which yields the store's dummy entries, and a follower writes them over its committed entry.
- Reading `matched_indexes[quorum_idx]` as a 1-based position also breaks `LeaderCompleteness` in `snapshot_two_terms`, which checks that `CommittedSeq`'s choice among commit records never hides a second, conflicting commit.

### Why these bounds

**A second term is needed.** With one term every log is a prefix of the leader's, so conflicts never arise. Two terms give a follower an unreplicated tail of an old leader.

**Two entries are needed.** They allow a skip followed by an overwrite, and a batch of two.

**One fault is needed.** It is enough for one of these:
- a lost message;
- an RPC timeout with late delivery;
- a hung RPC;
- an overlapping stuck-peer free;
- a stop, after which the server may restart.

**Batch sizes.** `faults_one_term` uses batches of 1, so that a heartbeat's commit index can run ahead of the follower's log. `faults_batches` uses batches of 2, so that a stop can cut a batch after its first entry.

**The liveness run is smaller.** It has one entry and no symmetry, which TLC's liveness checking needs. With two entries it generates about 14,000 states a minute and does not finish in time. One entry still lets a late response lower `matched_idx` from 1 to 0, and lets an RPC hang before or after the entry.

**Snapshots.** One entry is enough for a snapshot. In `snapshot_two_terms` a leader of term 2 commits and compacts its entry. A follower that holds no entry rejects the request, the leader narrows its `next_log_idx` to 1, and the builder falls back to the snapshot. Without faults, the install's "already committed" branch cannot happen. `snapshot_faults` reaches it: a snapshot request arrives twice, or late. With compaction and a fault, the bug of finding 3 breaks `CommittedLogRefined`, `MatchedIdxSound` and `CommitWithinLog`. That run therefore checks only the properties the bug leaves intact.

**No liveness run through snapshots.** A follower can fall behind a compacted leader only with two terms and no faults. `ReplicationProgress` at `snapshot_two_terms`' bounds needs 2 messages for timer sends: with 1, a heartbeat to one peer disables the heartbeat to the other, so weak fairness forces neither. At those bounds, without symmetry, the check reaches 1.07 million states and takes about 8 minutes, beyond the time a run has.

**Crashes.** `crash_two_terms` is the only run with two terms and a fault. One entry keeps it to 564,000 states. It lets a leader crash after appending, before or after replicating, or after committing, restart as a follower with that entry, and meet the leader of term 2. Every other kind of fault is also possible in this run.

**Larger bounds are too expensive.** A third term or a third entry takes the state space past the time TLC has for a run (measured: over 1.7 million states and still growing). Some faults need three terms to show, such as a `log_okay` that ignores the term: with two terms, a new leader's log holds only entries of the one earlier term, so `last_log_term` always matches. `LogMatching` is therefore left for the plan below.

### Findings

1. **`precommit_truncation` (code bug, line 416).** The overwrite loop rolls back only the old entry at `log_idx`. `store_log_entry` / `write_at` then truncates every later entry, and `next_slot` becomes `log_idx + 1`, so the loop ends. The truncated application entries stay pre-committed in the state machine and are never rolled back. `spec.md` says entries overwritten before commit are rolled back.
2. **`reordered_responses` (spec and code diverge, line 528).** `spec.md` section 8 says two things that do not hold:
   - `matched_idx` is monotonic (property 5);
   - a peer has at most one outstanding request (property 3).
   The busy-flag escape hatch sends a second request while the first is in flight. The accepted path then sets `matched_idx = next_idx - 1` without comparing it with the previous value, so an older response lowers it.

3. **`snapshot_stale_overwrite` (code bug, line 387).** The skip loop compares `term_at(log_idx)` with the request's entry even below the log store's `start_index`. There the entry is not retrievable, and the model reads its term as 0. A follower has committed, applied and compacted an entry. A copy of the request that carried it then arrives, either resent after the busy-flag escape or retried after a lost response. The follower takes the entry for a conflict. The overwrite loop writes it again, and `write_at` truncates the entries after it. `sm_commit_index_` and `quick_commit_index_` fall below the snapshot. A state machine's applied prefix shrinks, so committed entries would be applied twice. spec.md section 4.4 calls a committed-then-overwritten entry impossible. Nothing in `handle_append_entries` compares `log_idx` with `start_index`.

4. **`conf_truncation` (gap in the spec, line 411).** The overwrite loop clears `config_changing_` only when the entry it overwrites is a configuration entry. `write_at` also truncates every later entry. Neither the code nor spec.md clears the flag for a configuration entry removed that way, and neither does the step-down on a higher term.
   - Trace: leader s1 of term 1 appends an application entry, then a configuration entry. s2 becomes leader of term 2 and sends its own entry for index 1. s1 overwrites index 1 and loses index 2. `config_changing_` stays set with no configuration entry in the log.
   - With 3 servers and 2 terms only a deposed leader can hold such an uncommitted tail. For a follower to hold one needs a third term, and TLC does not finish that in time.

**Also seen while modelling, not kept as a run.** spec.md section 3, invariant 2 (`matched_idx <= next_log_idx - 1`), fails once a follower stops in its append loop. The rejection built at lines 319-323 carries the `next_slot()` from before the batch. The leader's `next_log_idx` then equals that hint, so the fast-jump test at line 575 fails and the else branch moves `next_log_idx` back to `matched_idx`. The invariant holds in every run without a stop. The only effect is that an entry the follower already has is sent again, and the skip loop absorbs it.

## Fairness

`FairSpec` is `Spec` with weak fairness of these steps, all on running servers:
- **`Heartbeat(l, p, stuck)` for every leader, peer and `stuck`.** The heartbeat timer calls `request_append_entries(p)` periodically. A busy peer's `ls_timer` keeps growing until the escape hatch (lines 141-146) fires.
- **Handling a request, and completing a response, per connection (sender, receiver).** Each peer has its own RPC client, so one connection's traffic cannot starve another's. Fairness over "some message" would not be enough: TLC found a behaviour where one peer's responses were handled forever while another's waited.
- **`InstallSnapshot`, per connection,** for the same reason as append-entries requests.
- **`RefusedByStopped`.** A connection to a stopped server fails eventually.
- **`ApplyCommitted` per running server.** The background commit thread is woken by every `commit()` and applies up to the commit index.

Losses, RPC timeouts, hangs and stops are not fair. `MaxFaults` bounds them, so every behaviour eventually has no more of them. Elections are not fair either. With one term, a behaviour with no leader satisfies `ReplicationProgress` trivially.

## Not modelled, and the plan

Not modelled yet:
- **Snapshot transfer:** chunked transfer, the snapshot store, and log entries reserved below the snapshot. Install-snapshot handling is one atomic message, modelled from spec.md.
- **Callbacks and flags:** `catching_up_`, `serving_req_`, callbacks, `end_of_append_batch` (no property reads it), and the election timer restart.
- **Peer tracker extras:** reconnection, long-pause warnings, the recovery counter, and the unknown-peer return.
- **Unlocked steps.** The model's steps are atomic.
  - *The tracker update of line 522 runs without the peer lock.* It races only with the builder's read of `next_log_idx`. That read sees the old or the new value, which are the two orders of whole steps the model explores.
  - *The builder reads `term_for_log` and the entries after the locked read of line 160.* Under spec.md section 5, the log's writers and the builder's callers hold the server lock, so the log cannot change in between.
- **Learners.** The configuration has none.

Plan for later work:
1. **A third term.** Use a smaller abstraction of the trackers, or initial states after a divergence, to check `LogMatching` and a `log_okay` mutant.
2. **Crashes with two entries.** `crash_two_terms` has one entry, so a restarted leader's uncommitted tail is at most one entry long.
