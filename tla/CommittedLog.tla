------------------------------ MODULE CommittedLog ------------------------------
(***************************************************************************)
(* What NuRaft's replication promises its state machines, with no         *)
(* messages, trackers or terms: one committed log that only grows, and a   *)
(* per-server applied prefix of it that only grows.  A server hands the    *)
(* state machine (sm_commit_index_) only entries of the committed log, in  *)
(* order, and never takes one back.                                        *)
(*                                                                         *)
(* NuRaftReplication implements this specification under a refinement     *)
(* mapping (NuRaftReplication!Abs).                                        *)
(***************************************************************************)
EXTENDS Sequences, SequencesExt

CONSTANTS
    Server,   \* the servers
    Value,    \* what a log entry carries
    MaxLen    \* bound on the committed log's length

VARIABLES
    clog,     \* the committed log
    applied   \* applied[s]: the entries s has handed to its state machine

vars == <<clog, applied>>

Init ==
    /\ clog = <<>>
    /\ applied = [s \in Server |-> <<>>]

\* A leader commits one or more entries at the end of the committed log.
Commit ==
    LET c == clog IN
    /\ \E ext \in BoundedSeq(Value, MaxLen - Len(c)) :
          /\ ext /= <<>>
          /\ clog' = c \o ext
    /\ UNCHANGED applied

\* Server s applies the next committed entries, up to some index k.
Apply(s) ==
    LET c == clog IN
    /\ \E k \in Len(applied[s]) + 1..Len(c) :
          applied' = [applied EXCEPT ![s] = SubSeq(c, 1, k)]
    /\ UNCHANGED clog

Next == Commit \/ \E s \in Server : Apply(s)

Spec == Init /\ [][Next]_vars

\* Every server's applied entries are a prefix of the committed log.
AppliedIsCommittedPrefix == \A s \in Server : IsPrefix(applied[s], clog)

=============================================================================
