------------------------------ MODULE CatchUp ------------------------------
(***************************************************************************)
(* One leader that stays in office and one follower that lags behind or    *)
(* diverges: the rounds of AppendEntries and InstallSnapshot by which      *)
(* src/src/raft brings the follower's log in line.  The other peers are    *)
(* only seen through the leader's commitIndex.  Elections, terms of office *)
(* and disks are the business of module Raft.                              *)
(***************************************************************************)
EXTENDS RaftLog, FiniteSets

CONSTANTS
    MaxTerm,      \* bound: terms of the entries both start with
    MaxIndex,     \* bound: length of the logs
    MaxBase,      \* bound: the services snapshot up to this index
    MaxCalls,     \* bound: requests and replies in flight
    MaxLost       \* bound: calls and replies that the network loses

VARIABLES
    leader, follower,           \* their logs
    leaderCommit, commitIndex,  \* the leader's and the follower's commitIndex
    nextIndex, matchIndex,      \* the leader's, for this follower
    applyCh,                    \* snapshots waiting for the follower's service
    net, lost

vars == <<leader, follower, leaderCommit, commitIndex, nextIndex, matchIndex,
          applyCh, net, lost>>

currentTerm == MaxTerm + 1

-----------------------------------------------------------------------------
(***************************************************************************)
(* The leader has just been elected.  Both logs were written by earlier    *)
(* leaders: terms do not decrease, and equal terms at an index mean equal  *)
(* entries up to it.  Everything that anybody has discarded or applied is  *)
(* committed, and the leader has it.  nextIndex is what Make has left: 1   *)
(* in a peer that was started with an empty log, the end of the log in one *)
(* that has restarted.                                                     *)
(***************************************************************************)
Histories ==
    {h \in UNION {[1 .. n -> 1 .. MaxTerm] : n \in 0 .. MaxIndex} :
        \A i, j \in DOMAIN h : i < j => h[i] =< h[j]}

Agree(h, g, i) == \A j \in 1 .. i : h[j] = g[j]

LogOf(h, b) ==
    [base |-> b, terms |-> <<IF b = 0 THEN 0 ELSE h[b]>> \o SubSeq(h, b + 1, Len(h))]

Init ==
    \E h, g \in Histories :
        LET shared == {i \in 0 .. MaxIndex : i =< Len(h) /\ i =< Len(g) /\ Agree(h, g, i)}
        IN
        /\ \A i \in DOMAIN h \cap DOMAIN g : h[i] = g[i] => Agree(h, g, i)
        /\ leaderCommit \in 0 .. Len(h)
        /\ commitIndex \in shared \cap 0 .. leaderCommit
        /\ \E b \in 0 .. leaderCommit : b =< MaxBase /\ leader = LogOf(h, b)
        /\ \E b \in 0 .. commitIndex : b =< MaxBase /\ follower = LogOf(g, b)
        /\ nextIndex \in {1, Len(h) + 1}
        /\ matchIndex = 0
        /\ applyCh = {} /\ net = {} /\ lost = 0

-----------------------------------------------------------------------------
(* The leader. *)

Start ==
    /\ LastIndex(leader) < MaxIndex
    /\ leader' = [leader EXCEPT !.terms = Append(@, currentTerm)]
    /\ UNCHANGED <<follower, leaderCommit, commitIndex, nextIndex, matchIndex, applyCh, net, lost>>

\* What advanceCommitIndexForLeader may make of the matchIndex of all the peers.
Committable ==
    {leaderCommit} \cup
    {i \in leaderCommit + 1 .. LastIndex(leader) : TermAt(leader, i) = currentTerm}

\* It is called for the reply of another peer.
AdvanceCommitIndexForLeader ==
    /\ leaderCommit' \in Committable \ {leaderCommit}
    /\ UNCHANGED <<leader, follower, commitIndex, nextIndex, matchIndex, applyCh, net, lost>>

\* The sending half of replicateOnceRound: a heartbeat or the replicator.
ReplicateOnceRound ==
    LET prev == nextIndex - 1 IN
    /\ Cardinality(net) < MaxCalls
    /\ net' = net \cup
          {IF prev < leader.base
           THEN [type |-> "InstallSnapshot", index |-> leader.base,
                 term |-> TermAt(leader, leader.base)]
           ELSE [type |-> "AppendEntries", prevLogIndex |-> prev,
                 prevLogTerm |-> TermAt(leader, prev),
                 entries |-> After(leader, prev), commit |-> leaderCommit]}
    /\ UNCHANGED <<leader, follower, leaderCommit, commitIndex, nextIndex, matchIndex, applyCh, lost>>

\* Mutant: matchIndex is what the leader has now, not what it sent.
MatchesNow(m) ==
    /\ m.type = "AppendEntriesReply"
    /\ net' = net \ {m}
    /\ \/ /\ m.success
          /\ matchIndex' = LastIndex(leader)
          /\ nextIndex' = matchIndex' + 1
          /\ leaderCommit' \in Committable
       \/ /\ ~m.success
          /\ nextIndex' = Backup(leader, m)
          /\ UNCHANGED <<matchIndex, leaderCommit>>
    /\ UNCHANGED <<leader, follower, commitIndex, applyCh, lost>>

\* The receiving half.
HandleAppendEntriesReply(m) ==
    /\ m.type = "AppendEntriesReply"
    /\ net' = net \ {m}
    /\ \/ /\ m.success
          /\ matchIndex' = m.prevLogIndex + m.numEntries
          /\ nextIndex' = matchIndex' + 1
          /\ leaderCommit' \in Committable
       \/ /\ ~m.success
          /\ nextIndex' = Backup(leader, m)
          /\ UNCHANGED <<matchIndex, leaderCommit>>
    /\ UNCHANGED <<leader, follower, commitIndex, applyCh, lost>>

HandleInstallSnapshotReply(m) ==
    /\ m.type = "InstallSnapshotReply"
    /\ net' = net \ {m}
    /\ nextIndex' = m.index + 1
    /\ matchIndex' = m.index
    /\ UNCHANGED <<leader, follower, leaderCommit, commitIndex, applyCh, lost>>

-----------------------------------------------------------------------------
(* The follower. *)

Reply(m, success, c) ==
    [type |-> "AppendEntriesReply", prevLogIndex |-> m.prevLogIndex,
     numEntries |-> Len(m.entries), success |-> success,
     conflictIndex |-> c.index, conflictTerm |-> c.term]

Larger(a, b) == IF a > b THEN a ELSE b
Smaller(a, b) == IF a < b THEN a ELSE b

AppendEntries(m) ==
    /\ m.type = "AppendEntries"
    /\ \/ /\ ~IsLogMatched(follower, m.prevLogIndex, m.prevLogTerm)
          /\ net' = (net \ {m}) \cup
                {Reply(m, FALSE, Conflict(follower, m.prevLogIndex, m.prevLogTerm))}
          /\ UNCHANGED <<follower, commitIndex>>
       \/ /\ IsLogMatched(follower, m.prevLogIndex, m.prevLogTerm)
          /\ net' = (net \ {m}) \cup {Reply(m, TRUE, [index |-> 0, term |-> 0])}
          /\ follower' = Merge(follower, m.prevLogIndex, m.entries)
          /\ commitIndex' = Larger(commitIndex, Smaller(m.commit, LastIndex(follower')))
    /\ UNCHANGED <<leader, leaderCommit, nextIndex, matchIndex, applyCh, lost>>

InstallSnapshot(m) ==
    /\ m.type = "InstallSnapshot"
    /\ net' = (net \ {m}) \cup {[type |-> "InstallSnapshotReply", index |-> m.index]}
    /\ applyCh' = IF m.index > commitIndex
                  THEN applyCh \cup {[index |-> m.index, term |-> m.term]} ELSE applyCh
    /\ UNCHANGED <<leader, follower, leaderCommit, commitIndex, nextIndex, matchIndex, lost>>

CondInstallSnapshot(snap) ==
    /\ applyCh' = applyCh \ {snap}
    /\ \/ snap.index =< commitIndex /\ UNCHANGED <<follower, commitIndex>>
       \/ /\ snap.index > commitIndex
          /\ follower' = Compact(follower, snap.index, snap.term)
          /\ commitIndex' = snap.index
    /\ UNCHANGED <<leader, leaderCommit, nextIndex, matchIndex, net, lost>>

-----------------------------------------------------------------------------
(* The services, and the network. *)

Snapshot ==
    /\ \/ /\ \E i \in leader.base + 1 .. leaderCommit :
                i =< MaxBase /\ leader' = Compact(leader, i, TermAt(leader, i))
          /\ UNCHANGED follower
       \/ /\ \E i \in follower.base + 1 .. commitIndex :
                i =< MaxBase /\ follower' = Compact(follower, i, TermAt(follower, i))
          /\ UNCHANGED leader
    /\ UNCHANGED <<leaderCommit, commitIndex, nextIndex, matchIndex, applyCh, net, lost>>

Lose ==
    /\ lost < MaxLost
    /\ lost' = lost + 1
    /\ \E m \in net : net' = net \ {m}
    /\ UNCHANGED <<leader, follower, leaderCommit, commitIndex, nextIndex, matchIndex, applyCh>>

HandleRequest == \E m \in net : AppendEntries(m) \/ InstallSnapshot(m)

HandleReply ==
    \E m \in net : HandleAppendEntriesReply(m) \/ HandleInstallSnapshotReply(m)

Install == \E snap \in applyCh : CondInstallSnapshot(snap)

Next == \/ Start \/ AdvanceCommitIndexForLeader \/ ReplicateOnceRound
        \/ HandleRequest \/ HandleReply \/ Install \/ Snapshot \/ Lose

\* The heartbeat timer starts rounds for ever, calls that are not lost arrive,
\* and the service keeps reading applyCh.  Nobody has to call Start or Snapshot.
Spec == /\ Init /\ [][Next]_vars
        /\ WF_vars(ReplicateOnceRound) /\ WF_vars(HandleRequest) /\ WF_vars(HandleReply)
        /\ WF_vars(Install)

-----------------------------------------------------------------------------
(* Properties. *)

TypeOK ==
    /\ leader \in Log /\ follower \in Log
    /\ {leaderCommit, commitIndex, lost} \subseteq Nat
    /\ nextIndex \in 0 .. LastIndex(leader) + 1 /\ matchIndex \in 0 .. LastIndex(leader)

\* What matchIndex claims is true of the follower's log, although replies are
\* late: entries above the leader's snapshot, up to matchIndex, are there and are
\* the leader's.  (A snapshot is counted before the follower installs it.)
MatchedIsShared ==
    \A i \in leader.base + 1 .. matchIndex :
        i >= follower.base =>
            i =< LastIndex(follower) /\ TermAt(follower, i) = TermAt(leader, i)

\* What the follower has committed is what the leader has, also when a snapshot
\* was put in front of entries that it contradicts (CondInstallSnapshot).
CommittedIsShared ==
    /\ commitIndex =< LastIndex(follower) /\ commitIndex =< leaderCommit
    /\ \A i \in leader.base + 1 .. commitIndex :
           i >= follower.base => TermAt(follower, i) = TermAt(leader, i)

\* The leader's indices stay in its log, and all three of them are true.
IndexInv == TypeOK /\ MatchedIsShared /\ CommittedIsShared

\* The follower has the leader's last entry, hence everything before it.
CaughtUp == IsLogMatched(follower, LastIndex(leader), LastTerm(leader))

\* Heartbeats bring the follower's log in line with the leader's, which is what
\* "failed to reach agreement" of the test harness waits for.
CatchesUp == <>[]CaughtUp

\* A follower that only lags behind, because its log is a prefix of the leader's,
\* and that compacts nothing, is brought up to date although rounds overtake each
\* other and are lost.
PrefixCatchesUp ==
    /\ [](follower.base = 0)
    /\ leader.base =< LastIndex(follower) /\ LastIndex(follower) =< LastIndex(leader)
    /\ TermAt(follower, LastIndex(follower)) = TermAt(leader, LastIndex(follower))
    => CatchesUp
=============================================================================
