------------------------------ MODULE Applier ------------------------------
(***************************************************************************)
(* The applier goroutine of one peer, the goroutines that InstallSnapshot  *)
(* starts to write a snapshot to applyCh, and the service that reads the   *)
(* channel.  What is said here is about indices only: which entry is at an *)
(* index is the business of module Raft.  The other critical sections of   *)
(* rf.mu are the applier's environment: they move the end of the log and   *)
(* commitIndex.                                                            *)
(***************************************************************************)
EXTENDS Integers

CONSTANTS
    MaxIndex,     \* bound: the log grows up to this index
    MaxRestarts   \* bound: number of crashes

ASSUME BoundAssumption == MaxIndex \in Nat /\ MaxRestarts \in Nat

VARIABLES
    first,        \* rf.getFirstLog().Index
    last,         \* rf.getLastLog().Index
    commitIndex,
    lastApplied,
    applier,      \* what the goroutine does: "running", "waiting" or "sending"
    next, end,    \* sending: entries next .. end have been copied and not yet sent
    snaps,        \* LastIncludedIndex of the snapshots at applyCh
    applied,      \* the service holds the effect of entries 1 .. applied
    restarts

vars == <<first, last, commitIndex, lastApplied, applier, next, end, snaps,
          applied, restarts>>
log == <<first, last>>

TypeOK ==
    /\ {first, last, commitIndex, lastApplied, next, end, applied, restarts} \subseteq Nat
    /\ applier \in {"running", "waiting", "sending"}
    /\ snaps \subseteq Nat

Larger(a, b) == IF a > b THEN a ELSE b

Init ==
    /\ first = 0 /\ last = 0 /\ commitIndex = 0 /\ lastApplied = 0
    /\ applier = "running" /\ next = 1 /\ end = 0
    /\ snaps = {} /\ applied = 0 /\ restarts = 0

-----------------------------------------------------------------------------
(* The environment: other critical sections of the peer. *)

\* Mutant: the applier is not told that commitIndex has advanced.
NoSignal(cond) == UNCHANGED applier

\* applyCond.Signal(): the applier leaves Wait, if it is there.
Signal(cond) ==
    applier' = IF cond /\ applier = "waiting" THEN "running" ELSE applier

\* AppendEntries at a follower, Start and advanceCommitIndexForLeader at a
\* leader: entries that are not committed come and go, commitIndex follows.
Replicate ==
    /\ last' \in commitIndex .. MaxIndex
    /\ commitIndex' \in commitIndex .. last'
    /\ Signal(commitIndex' > commitIndex)
    /\ UNCHANGED <<first, lastApplied, next, end, snaps, applied, restarts>>

\* InstallSnapshot: a goroutine will write the snapshot to applyCh.
InstallSnapshot ==
    /\ \E i \in commitIndex + 1 .. MaxIndex : snaps' = snaps \cup {i}
    /\ UNCHANGED <<log, commitIndex, lastApplied, applier, next, end, applied, restarts>>

-----------------------------------------------------------------------------
(* The applier. *)

\* commitIndex <= lastApplied: wait for a signal (rf.mu is released by Wait).
Wait ==
    /\ applier = "running" /\ commitIndex <= lastApplied
    /\ applier' = "waiting"
    /\ UNCHANGED <<log, commitIndex, lastApplied, next, end, snaps, applied, restarts>>

\* Copy the entries lastApplied + 1 .. commitIndex, and release rf.mu.
TakeBatch ==
    /\ applier = "running" /\ commitIndex > lastApplied
    /\ applier' = "sending"
    /\ next' = lastApplied + 1 /\ end' = commitIndex
    /\ UNCHANGED <<log, commitIndex, lastApplied, snaps, applied, restarts>>

\* The service takes the next command from applyCh.  It leaves its state alone
\* if it already has the effect of that entry.
DeliverCommand ==
    /\ applier = "sending" /\ next <= end
    /\ next' = next + 1
    /\ applied' = Larger(applied, next)
    /\ UNCHANGED <<log, commitIndex, lastApplied, applier, end, snaps, restarts>>

\* Mutants: lastApplied is set to the end of the batch, or to rf.commitIndex.
FinishAtEnd ==
    /\ applier = "sending" /\ next > end
    /\ applier' = "running"
    /\ lastApplied' = end
    /\ UNCHANGED <<log, commitIndex, next, end, snaps, applied, restarts>>

FinishAtCommitIndex ==
    /\ applier = "sending" /\ next > end
    /\ applier' = "running"
    /\ lastApplied' = Larger(lastApplied, commitIndex)
    /\ UNCHANGED <<log, commitIndex, next, end, snaps, applied, restarts>>

\* All sent: rf.mu is taken again, and lastApplied never moves back.
FinishBatch ==
    /\ applier = "sending" /\ next > end
    /\ applier' = "running"
    /\ lastApplied' = Larger(lastApplied, end)
    /\ UNCHANGED <<log, commitIndex, next, end, snaps, applied, restarts>>

-----------------------------------------------------------------------------
(* The service. *)

\* It saves what it has: Snapshot(index) for some entry it has the effect of.
Snapshot ==
    /\ \E i \in 1 .. applied :
          /\ i > first /\ i <= last
          /\ first' = i
    /\ UNCHANGED <<last, commitIndex, lastApplied, applier, next, end, snaps, applied, restarts>>

\* It reads a snapshot and calls CondInstallSnapshot, which refuses what is not
\* ahead of commitIndex; if it is accepted the service restores its state.
CondInstallSnapshot ==
    \E i \in snaps :
        /\ snaps' = snaps \ {i}
        /\ \/ i <= commitIndex /\ UNCHANGED <<log, commitIndex, lastApplied, applied>>
           \/ /\ i > commitIndex
              /\ first' = i /\ last' = Larger(i, last)
              /\ commitIndex' = i /\ lastApplied' = i
              /\ applied' = i
        /\ UNCHANGED <<applier, next, end, restarts>>

\* A crash, and Make: readPersist starts at the first entry, as does the
\* service, which reads the snapshot that ends there.
Restart ==
    /\ restarts < MaxRestarts
    /\ restarts' = restarts + 1
    /\ commitIndex' = first /\ lastApplied' = first /\ applied' = first
    /\ applier' = "running" /\ next' = 1 /\ end' = 0 /\ snaps' = {}
    /\ UNCHANGED log

Next ==
    \/ Replicate \/ InstallSnapshot
    \/ Wait \/ TakeBatch \/ DeliverCommand \/ FinishBatch
    \/ Snapshot \/ CondInstallSnapshot \/ Restart

\* The Go scheduler keeps running the applier, and the service keeps reading.
Fairness == WF_vars(Wait \/ TakeBatch \/ DeliverCommand \/ FinishBatch)

Spec == Init /\ [][Next]_vars /\ Fairness

-----------------------------------------------------------------------------
(* Properties. *)

\* The first entry that the applier has not handed over.
Upcoming == IF applier = "sending" THEN next ELSE lastApplied + 1

\* Whenever the applier is about to slice rf.logs, the slice is inside it: what
\* it has not applied has not been discarded, although Snapshot discards entries
\* before lastApplied says that they are applied.
SliceInRange ==
    applier # "sending" /\ commitIndex > lastApplied =>
        first <= lastApplied /\ commitIndex <= last

\* The applier never passes over an entry: whatever it sends next, the service
\* already has everything before it, also after installing a snapshot.
NothingSkipped == Upcoming <= applied + 1

\* Every committed entry reaches the service: commits come to an end here, and
\* the service then has all of them, through crashes that make the peer forget
\* what was committed.  No wakeup of the applier is lost.
CommittedIsApplied == []<>(applied >= commitIndex)
=============================================================================
