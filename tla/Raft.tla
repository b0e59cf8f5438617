-------------------------------- MODULE Raft --------------------------------
(***************************************************************************)
(* The consensus core of src/src/raft (raft.go, rpc.go, persister.go): a   *)
(* cluster of Raft peers that elect leaders, replicate and compact their   *)
(* logs, and crash and restart, over a network that delays, reorders and   *)
(* loses calls.                                                            *)
(*                                                                         *)
(* A critical section of rf.mu is one action.  A peer's disk is a variable *)
(* of its own that only the code's persist calls write.  Commands are      *)
(* abstracted away: at most one leader creates entries of a term, so an    *)
(* entry is told apart by its index and term, and a log is the sequence of *)
(* its entries' terms.                                                     *)
(***************************************************************************)
EXTENDS RaftLog, FiniteSets

CONSTANTS
    Server,       \* the peers
    Nil,          \* votedFor = -1
    MaxTerm,      \* bound: the last term an election is started in
    MaxIndex,     \* bound: a leader accepts commands up to this log index
    MaxSnapshot,  \* bound: the service snapshots up to this log index
    MaxCalls,     \* bound: requests and replies in flight
    MaxRestarts   \* bound: crashes, over all the peers

ASSUME ServerAssumption == IsFiniteSet(Server) /\ Server # {} /\ Nil \notin Server
ASSUME BoundAssumption == {MaxTerm, MaxIndex, MaxSnapshot, MaxCalls, MaxRestarts} \subseteq Nat

VARIABLES
    currentTerm, votedFor, logs,   \* in memory, and persisted
    state, votes,                  \* role; peers whose grant grantedVotes counts
    commitIndex, nextIndex, matchIndex,
    disk,                          \* the Persister of each peer
    applyCh,                       \* snapshots waiting to be read by the service
    net,                           \* requests and replies in flight
    restarts,                      \* number of crashes so far
    staleMatch                     \* history: a leader took office with a used matchIndex

persistent == <<currentTerm, votedFor, logs>>
vars == <<currentTerm, votedFor, logs, state, votes, commitIndex, nextIndex,
          matchIndex, disk, applyCh, net, restarts, staleMatch>>

\* Mutant: the last element of the sorted matchIndex.
LargestMatch(match) == Max({match[p] : p \in Server})

\* Element n-(n/2+1) of the sorted matchIndex: the largest value that a
\* majority of the peers has reached.
MajorityMatch(match) ==
    Max({k \in {match[p] : p \in Server} :
            2 * Cardinality({p \in Server : match[p] >= k}) > Cardinality(Server)})

-----------------------------------------------------------------------------
(***************************************************************************)
(* Messages.  A reply repeats what the caller's goroutine remembers of its *)
(* arguments; replyTerm is the reply's own Term.                           *)
(***************************************************************************)
Snap == [index: Nat, term: Nat, data: Seq(Nat)]

RequestVoteArgs ==
    [type: {"RequestVote"}, from: Server, to: Server, term: Nat,
     lastLogIndex: Nat, lastLogTerm: Nat]
RequestVoteReply ==
    [type: {"RequestVoteReply"}, from: Server, to: Server, term: Nat,
     replyTerm: Nat, voteGranted: BOOLEAN]
AppendEntriesArgs ==
    [type: {"AppendEntries"}, from: Server, to: Server, term: Nat,
     prevLogIndex: Nat, prevLogTerm: Nat, entries: Seq(Nat), leaderCommit: Nat]
AppendEntriesReply ==
    [type: {"AppendEntriesReply"}, from: Server, to: Server, term: Nat,
     prevLogIndex: Nat, numEntries: Nat, replyTerm: Nat, success: BOOLEAN,
     conflictIndex: Nat, conflictTerm: Nat \cup {-1}]
InstallSnapshotArgs ==
    [type: {"InstallSnapshot"}, from: Server, to: Server, term: Nat, snap: Snap]
InstallSnapshotReply ==
    [type: {"InstallSnapshotReply"}, from: Server, to: Server, term: Nat,
     lastIncludedIndex: Nat, replyTerm: Nat]

Message == RequestVoteArgs \cup RequestVoteReply \cup AppendEntriesArgs
           \cup AppendEntriesReply \cup InstallSnapshotArgs \cup InstallSnapshotReply

IsReply(m) == m.type \in {"RequestVoteReply", "AppendEntriesReply", "InstallSnapshotReply"}

\* The calls of StartElection, as many as the network carries.
SendSome(ms) ==
    \E sent \in SUBSET ms :
        /\ Cardinality(net \cup sent) =< MaxCalls
        /\ net' = net \cup sent

\* A replication call may be in flight several times over: the heartbeat
\* goroutines and the replicator send equal arguments as long as the leader's
\* view of the peer does not change.  So delivering one copy may leave another.
\* The reply may be lost at once.
Deliver(m, out) ==
    \/ net' = net \ {m}
    \/ net' = (net \ {m}) \cup out
    \/ /\ m.type \notin {"RequestVote", "RequestVoteReply"}
       /\ Cardinality(net \cup out) =< MaxCalls
       /\ net' = net \cup out

-----------------------------------------------------------------------------
Set(f, s, v) == [f EXCEPT ![s] = v]

\* Mutant: the log is not encoded.
PersistWithoutLog(s) ==
    disk' = Set(disk, s, [currentTerm |-> currentTerm'[s], votedFor |-> votedFor'[s],
                          log |-> disk[s].log, snapshot |-> disk[s].snapshot])

\* persist(): the new currentTerm, votedFor and logs; the snapshot is kept.
Persist(s) ==
    disk' = Set(disk, s, [currentTerm |-> currentTerm'[s], votedFor |-> votedFor'[s],
                          log |-> logs'[s], snapshot |-> disk[s].snapshot])

\* Mutant: the deferred persist is missing.
PersistForgotten(cond, s) == UNCHANGED disk

PersistIf(cond, s) == IF cond THEN Persist(s) ELSE UNCHANGED disk

\* Mutant: the vote is forgotten whenever a leader is heard of.
AdoptTermAndForget(s, term) ==
    /\ currentTerm' = Set(currentTerm, s, term)
    /\ votedFor' = Set(votedFor, s, Nil)

\* Adopting a term seen in an RPC.  Only a later term forgets the vote.
AdoptTerm(s, term) ==
    /\ currentTerm' = Set(currentTerm, s, term)
    /\ votedFor' = Set(votedFor, s, IF term > currentTerm[s] THEN Nil ELSE votedFor[s])

\* ChangeState(Follower).  The vote count of an election that is over is
\* garbage: no goroutine adds to it any more.
BecomeFollower(s) ==
    /\ state' = Set(state, s, "Follower")
    /\ votes' = Set(votes, s, {})

\* A candidate or leader that learns of a later term from a reply.
StepDown(s, term) ==
    /\ AdoptTerm(s, term)
    /\ BecomeFollower(s)
    /\ UNCHANGED logs
    /\ Persist(s)

-----------------------------------------------------------------------------
(***************************************************************************)
(* Elections.                                                              *)
(***************************************************************************)

\* The ticker takes an election tick and runs StartElection.  A tick that was
\* already in the timer's channel when a candidate won is taken by a leader.
ElectionTimeout(s) ==
    /\ currentTerm[s] < MaxTerm
    /\ currentTerm' = Set(currentTerm, s, currentTerm[s] + 1)
    /\ votedFor' = Set(votedFor, s, s)
    /\ state' = Set(state, s, "Candidate")
    /\ votes' = Set(votes, s, {s})
    /\ UNCHANGED logs
    /\ Persist(s)
    /\ SendSome(
         {[type |-> "RequestVote", from |-> s, to |-> p, term |-> currentTerm[s] + 1,
           lastLogIndex |-> LastIndex(logs[s]), lastLogTerm |-> LastTerm(logs[s])]
             : p \in Server \ {s}})
    /\ UNCHANGED <<commitIndex, nextIndex, matchIndex, applyCh, restarts, staleMatch>>

VoteReply(m, term, granted) ==
    [type |-> "RequestVoteReply", from |-> m.to, to |-> m.from, term |-> m.term,
     replyTerm |-> term, voteGranted |-> granted]

\* Mutant: a second vote in the term is not refused.
DeniesOldTermOnly(s, m) == m.term < currentTerm[s]

\* The first early return of RequestVote: an old term, or the vote is taken.
DeniesVote(s, m) ==
    \/ m.term < currentTerm[s]
    \/ m.term = currentTerm[s] /\ votedFor[s] \notin {Nil, m.from}

RequestVote(s, m) ==
    /\ m.type = "RequestVote" /\ m.to = s
    /\ \/ /\ DeniesVote(s, m)
          /\ Deliver(m, {VoteReply(m, currentTerm[s], FALSE)})
          /\ UNCHANGED <<persistent, state, votes, disk>>
       \/ /\ ~DeniesVote(s, m)
          /\ LET higher == m.term > currentTerm[s]
                 grant == IsLogUpToDate(logs[s], m.lastLogIndex, m.lastLogTerm)
             IN /\ currentTerm' = Set(currentTerm, s, m.term)
                /\ votedFor' = Set(votedFor, s, IF grant THEN m.from
                                                ELSE IF higher THEN Nil ELSE votedFor[s])
                /\ UNCHANGED logs
                /\ IF higher THEN BecomeFollower(s) ELSE UNCHANGED <<state, votes>>
                /\ PersistIf(higher \/ grant, s)
                /\ Deliver(m, {VoteReply(m, m.term, grant)})
    /\ UNCHANGED <<commitIndex, nextIndex, matchIndex, applyCh, restarts, staleMatch>>

\* The goroutine that StartElection left waiting for peer m.from.  Taking
\* office touches neither nextIndex nor matchIndex.
HandleRequestVoteReply(s, m) ==
    /\ m.type = "RequestVoteReply" /\ m.to = s
    /\ Deliver(m, {})
    /\ IF m.term # currentTerm[s] \/ state[s] # "Candidate"
       THEN UNCHANGED <<persistent, state, votes, disk, staleMatch>>
       ELSE \/ /\ m.voteGranted
               /\ LET granted == votes[s] \cup {m.from}
                      wins == 2 * Cardinality(granted) > Cardinality(Server)
                  IN /\ votes' = Set(votes, s, granted)
                     /\ state' = Set(state, s, IF wins THEN "Leader" ELSE "Candidate")
                     /\ staleMatch' = (staleMatch \/ (wins /\ \E p \in Server \ {s} :
                                                              matchIndex[s][p] # 0))
               /\ UNCHANGED <<persistent, disk>>
            \/ /\ ~m.voteGranted /\ m.replyTerm > currentTerm[s]
               /\ StepDown(s, m.replyTerm)
               /\ UNCHANGED staleMatch
            \/ /\ ~m.voteGranted /\ m.replyTerm =< currentTerm[s]
               /\ UNCHANGED <<persistent, state, votes, disk, staleMatch>>
    /\ UNCHANGED <<commitIndex, nextIndex, matchIndex, applyCh, restarts>>

-----------------------------------------------------------------------------
(***************************************************************************)
(* Log replication.                                                        *)
(***************************************************************************)

\* Start(command) at a leader.  Elsewhere it returns without effect.
Start(s) ==
    /\ state[s] = "Leader"
    /\ LastIndex(logs[s]) < MaxIndex
    /\ logs' = Set(logs, s, [base |-> logs[s].base,
                             terms |-> Append(logs[s].terms, currentTerm[s])])
    /\ UNCHANGED <<currentTerm, votedFor>>
    /\ Persist(s)
    /\ matchIndex' = [matchIndex EXCEPT ![s][s] = LastIndex(logs[s]) + 1]
    /\ nextIndex' = [nextIndex EXCEPT ![s][s] = LastIndex(logs[s]) + 2]
    /\ UNCHANGED <<state, votes, commitIndex, applyCh, net, restarts, staleMatch>>

AppendArgs(s, p) ==
    LET prev == nextIndex[s][p] - 1 IN
    [type |-> "AppendEntries", from |-> s, to |-> p, term |-> currentTerm[s],
     prevLogIndex |-> prev, prevLogTerm |-> TermAt(logs[s], prev),
     entries |-> After(logs[s], prev), leaderCommit |-> commitIndex[s]]

SnapshotArgs(s, p) ==
    [type |-> "InstallSnapshot", from |-> s, to |-> p, term |-> currentTerm[s],
     snap |-> [index |-> logs[s].base, term |-> TermAt(logs[s], logs[s].base),
               data |-> disk[s].snapshot]]

\* The sending half of replicateOnceRound, which the heartbeat timer and the
\* replicator of peer p run at a leader at any time.  When prev is past the
\* leader's last entry genAppendEntriesArgs panics: the process dies there,
\* which is a Restart.
ReplicateOnceRound(s, p) ==
    LET prev == nextIndex[s][p] - 1 IN
    /\ state[s] = "Leader" /\ p # s
    /\ Cardinality(net) < MaxCalls
    /\ \/ /\ prev < logs[s].base
          /\ net' = net \cup {SnapshotArgs(s, p)}
       \/ /\ prev \in logs[s].base .. LastIndex(logs[s])
          /\ net' = net \cup {AppendArgs(s, p)}
    /\ UNCHANGED <<persistent, state, votes, commitIndex, nextIndex, matchIndex,
                   disk, applyCh, restarts, staleMatch>>

AppendReply(m, term, success, index, conflictTerm) ==
    [type |-> "AppendEntriesReply", from |-> m.to, to |-> m.from, term |-> m.term,
     prevLogIndex |-> m.prevLogIndex, numEntries |-> Len(m.entries), replyTerm |-> term,
     success |-> success, conflictIndex |-> index, conflictTerm |-> conflictTerm]

\* A request of the current or of a later term: the branches of AppendEntries
\* after the term check.
AppendRejected(s, m) ==
    LET c == Conflict(logs[s], m.prevLogIndex, m.prevLogTerm) IN
    /\ ~IsLogMatched(logs[s], m.prevLogIndex, m.prevLogTerm)
    /\ UNCHANGED <<logs, commitIndex>>
    /\ PersistIf(m.term > currentTerm[s], s)
    /\ Deliver(m, {AppendReply(m, m.term, FALSE, c.index, c.term)})

AppendAccepted(s, m) ==
    LET l == Merge(logs[s], m.prevLogIndex, m.entries)
        newCommitIndex == IF m.leaderCommit < LastIndex(l) THEN m.leaderCommit
                                                           ELSE LastIndex(l)
    IN /\ IsLogMatched(logs[s], m.prevLogIndex, m.prevLogTerm)
       /\ logs' = Set(logs, s, l)
       /\ PersistIf(m.term > currentTerm[s] \/ l # logs[s], s)
       /\ commitIndex' = Set(commitIndex, s, IF newCommitIndex > commitIndex[s]
                                             THEN newCommitIndex ELSE commitIndex[s])
       /\ Deliver(m, {AppendReply(m, m.term, TRUE, 0, 0)})

AppendEntries(s, m) ==
    /\ m.type = "AppendEntries" /\ m.to = s
    /\ \/ /\ m.term < currentTerm[s]
          /\ Deliver(m, {AppendReply(m, currentTerm[s], FALSE, 0, 0)})
          /\ UNCHANGED <<persistent, state, votes, disk, commitIndex>>
       \/ /\ m.term >= currentTerm[s]
          /\ AdoptTerm(s, m.term)
          /\ BecomeFollower(s)
          /\ AppendRejected(s, m) \/ AppendAccepted(s, m)
    /\ UNCHANGED <<nextIndex, matchIndex, applyCh, restarts, staleMatch>>

\* advanceCommitIndexForLeader, after matchIndex[s] became match.
AdvanceCommitIndexForLeader(s, match) ==
    LET new == MajorityMatch(match)
    IN commitIndex' = Set(commitIndex, s,
           IF new > commitIndex[s] /\ IsLogMatched(logs[s], new, currentTerm[s])
           THEN new ELSE commitIndex[s])

\* The receiving half of the AppendEntries branch of replicateOnceRound.
HandleAppendEntriesReply(s, m) ==
    LET p == m.from
        matched == m.prevLogIndex + m.numEntries
    IN
    /\ m.type = "AppendEntriesReply" /\ m.to = s
    /\ Deliver(m, {})
    /\ \/ /\ m.term # currentTerm[s] \/ state[s] # "Leader"
          /\ UNCHANGED <<persistent, state, votes, disk, commitIndex, nextIndex, matchIndex>>
       \/ /\ m.term = currentTerm[s] /\ state[s] = "Leader"
          /\ \/ /\ m.success
                /\ matchIndex' = [matchIndex EXCEPT ![s][p] = matched]
                /\ nextIndex' = [nextIndex EXCEPT ![s][p] = matched + 1]
                /\ AdvanceCommitIndexForLeader(s, matchIndex'[s])
                /\ UNCHANGED <<persistent, state, votes, disk>>
             \/ /\ ~m.success /\ m.replyTerm > currentTerm[s]
                /\ StepDown(s, m.replyTerm)
                /\ UNCHANGED <<commitIndex, nextIndex, matchIndex>>
             \/ /\ ~m.success /\ m.replyTerm = currentTerm[s]
                /\ nextIndex' = [nextIndex EXCEPT ![s][p] = Backup(logs[s], m)]
                /\ UNCHANGED <<persistent, state, votes, disk, commitIndex, matchIndex>>
    /\ UNCHANGED <<applyCh, restarts, staleMatch>>

-----------------------------------------------------------------------------
(***************************************************************************)
(* Snapshots.  The content of a snapshot is what the service has applied:  *)
(* the entries up to its index.                                            *)
(***************************************************************************)
FullLog(s) == disk[s].snapshot \o Tail(logs[s].terms)

SaveStateAndSnapshot(s, data) ==
    disk' = Set(disk, s, [currentTerm |-> currentTerm'[s], votedFor |-> votedFor'[s],
                          log |-> logs'[s], snapshot |-> data])

\* The service calls Snapshot with an index it has applied.
Snapshot(s, index) ==
    /\ index =< commitIndex[s] /\ index =< MaxSnapshot
    /\ index > logs[s].base /\ index =< LastIndex(logs[s])
    /\ logs' = Set(logs, s, Compact(logs[s], index, TermAt(logs[s], index)))
    /\ UNCHANGED <<currentTerm, votedFor>>
    /\ SaveStateAndSnapshot(s, SubSeq(FullLog(s), 1, index))
    /\ UNCHANGED <<state, votes, commitIndex, nextIndex, matchIndex, applyCh, net,
                   restarts, staleMatch>>

\* The reply carries the term from before the request is looked at.  The
\* snapshot itself is only handed to a goroutine that writes it to applyCh.
InstallSnapshot(s, m) ==
    /\ m.type = "InstallSnapshot" /\ m.to = s
    /\ Deliver(m, {[type |-> "InstallSnapshotReply", from |-> s, to |-> m.from,
                    term |-> m.term, lastIncludedIndex |-> m.snap.index,
                    replyTerm |-> currentTerm[s]]})
    /\ \/ /\ m.term < currentTerm[s]
          /\ UNCHANGED <<persistent, state, votes, disk, applyCh>>
       \/ /\ m.term >= currentTerm[s]
          /\ AdoptTerm(s, m.term)
          /\ BecomeFollower(s)
          /\ UNCHANGED logs
          /\ PersistIf(m.term > currentTerm[s], s)
          /\ applyCh' = Set(applyCh, s, IF m.snap.index > commitIndex[s]
                                        THEN applyCh[s] \cup {m.snap} ELSE applyCh[s])
    /\ UNCHANGED <<commitIndex, nextIndex, matchIndex, restarts, staleMatch>>

\* The receiving half of the InstallSnapshot branch of replicateOnceRound.
HandleInstallSnapshotReply(s, m) ==
    /\ m.type = "InstallSnapshotReply" /\ m.to = s
    /\ Deliver(m, {})
    /\ \/ /\ m.term # currentTerm[s] \/ state[s] # "Leader"
          /\ UNCHANGED <<persistent, state, votes, disk, nextIndex, matchIndex>>
       \/ /\ m.term = currentTerm[s] /\ state[s] = "Leader"
          /\ \/ /\ m.replyTerm > currentTerm[s]
                /\ StepDown(s, m.replyTerm)
                /\ UNCHANGED <<nextIndex, matchIndex>>
             \/ /\ m.replyTerm =< currentTerm[s]
                /\ nextIndex' = [nextIndex EXCEPT ![s][m.from] = m.lastIncludedIndex + 1]
                /\ matchIndex' = [matchIndex EXCEPT ![s][m.from] = m.lastIncludedIndex]
                /\ UNCHANGED <<persistent, state, votes, disk>>
    /\ UNCHANGED <<commitIndex, applyCh, restarts, staleMatch>>

\* The service reads a snapshot from applyCh and calls CondInstallSnapshot.
CondInstallSnapshot(s, snap) ==
    /\ applyCh' = Set(applyCh, s, applyCh[s] \ {snap})
    /\ UNCHANGED <<currentTerm, votedFor>>
    /\ \/ /\ snap.index =< commitIndex[s]
          /\ UNCHANGED <<logs, commitIndex, disk>>
       \/ /\ snap.index > commitIndex[s]
          /\ logs' = Set(logs, s, Compact(logs[s], snap.index, snap.term))
          /\ commitIndex' = Set(commitIndex, s, snap.index)
          /\ SaveStateAndSnapshot(s, snap.data)
    /\ UNCHANGED <<state, votes, nextIndex, matchIndex, net, restarts, staleMatch>>

-----------------------------------------------------------------------------
(***************************************************************************)
(* Crashes.  Make starts a peer from what its Persister holds.  Replies on *)
(* their way to the old incarnation reach nobody; its requests may still   *)
(* be delivered.                                                           *)
(***************************************************************************)
Make(s, saved, lost) ==
    /\ restarts < MaxRestarts
    /\ restarts' = restarts + 1
    /\ disk' = Set(disk, s, saved)
    /\ currentTerm' = Set(currentTerm, s, saved.currentTerm)
    /\ votedFor' = Set(votedFor, s, saved.votedFor)
    /\ logs' = Set(logs, s, saved.log)
    /\ commitIndex' = Set(commitIndex, s, saved.log.base)
    /\ BecomeFollower(s)
    /\ matchIndex' = Set(matchIndex, s, [p \in Server |-> 0])
    /\ nextIndex' = Set(nextIndex, s, [p \in Server |-> LastIndex(saved.log) + 1])
    /\ applyCh' = Set(applyCh, s, {})
    /\ net' = {m \in net \ lost : ~(IsReply(m) /\ m.to = s)}
    /\ UNCHANGED staleMatch

\* A crash between two critical sections.
Restart(s) == Make(s, disk[s], {})

\* A crash between the two persist calls of an election: the new term is
\* saved with the vote of the old one.
RestartInElection(s) ==
    /\ currentTerm[s] < MaxTerm
    /\ Make(s, [currentTerm |-> currentTerm[s] + 1, votedFor |-> votedFor[s],
                log |-> logs[s], snapshot |-> disk[s].snapshot], {})

\* A crash after the first persist of RequestVote or AppendEntries.
RestartInRPC(s, m) ==
    /\ m.type \in {"RequestVote", "AppendEntries"} /\ m.to = s
    /\ m.term > currentTerm[s]
    /\ Make(s, [currentTerm |-> m.term, votedFor |-> Nil,
                log |-> logs[s], snapshot |-> disk[s].snapshot], {m})

\* labrpc loses a request or a reply, and Call returns false.
Lose(m) ==
    /\ net' = net \ {m}
    /\ UNCHANGED <<persistent, state, votes, commitIndex, nextIndex, matchIndex, disk,
                   applyCh, restarts, staleMatch>>

-----------------------------------------------------------------------------
Init ==
    /\ currentTerm = [s \in Server |-> 0]
    /\ votedFor = [s \in Server |-> Nil]
    /\ logs = [s \in Server |-> EmptyLog]
    /\ state = [s \in Server |-> "Follower"]
    /\ votes = [s \in Server |-> {}]
    /\ commitIndex = [s \in Server |-> 0]
    /\ nextIndex = [s \in Server |-> [p \in Server |-> 1]]
    /\ matchIndex = [s \in Server |-> [p \in Server |-> 0]]
    /\ disk = [s \in Server |-> [currentTerm |-> 0, votedFor |-> Nil, log |-> EmptyLog,
                                 snapshot |-> <<>>]]
    /\ applyCh = [s \in Server |-> {}]
    /\ net = {}
    /\ restarts = 0
    /\ staleMatch = FALSE

Next ==
    \/ \E s \in Server : ElectionTimeout(s)
    \/ \E s \in Server, m \in net : RequestVote(s, m)
    \/ \E s \in Server, m \in net : HandleRequestVoteReply(s, m)
    \/ \E s \in Server : Start(s)
    \/ \E s, p \in Server : ReplicateOnceRound(s, p)
    \/ \E s \in Server, m \in net : AppendEntries(s, m)
    \/ \E s \in Server, m \in net : HandleAppendEntriesReply(s, m)
    \/ \E s \in Server, index \in 1 .. MaxSnapshot : Snapshot(s, index)
    \/ \E s \in Server, m \in net : InstallSnapshot(s, m)
    \/ \E s \in Server, m \in net : HandleInstallSnapshotReply(s, m)
    \/ \E s \in Server : \E snap \in applyCh[s] : CondInstallSnapshot(s, snap)
    \/ \E s \in Server : Restart(s)
    \/ \E s \in Server : RestartInElection(s)
    \/ \E s \in Server, m \in net : RestartInRPC(s, m)
    \/ \E m \in net : Lose(m)

Spec == Init /\ [][Next]_vars

-----------------------------------------------------------------------------
(***************************************************************************)
(* Properties.                                                             *)
(***************************************************************************)
Disk == [currentTerm: Nat, votedFor: Server \cup {Nil}, log: Log, snapshot: Seq(Nat)]

\* Type correctness: terms and indices never go negative (a rejection sets
\* nextIndex to 0 at worst) and every message in flight is well formed.
TypeOK ==
    /\ currentTerm \in [Server -> Nat]
    /\ votedFor \in [Server -> Server \cup {Nil}]
    /\ logs \in [Server -> Log]
    /\ state \in [Server -> {"Follower", "Candidate", "Leader"}]
    /\ votes \in [Server -> SUBSET Server]
    /\ commitIndex \in [Server -> Nat]
    /\ nextIndex \in [Server -> [Server -> Nat]]
    /\ matchIndex \in [Server -> [Server -> Nat]]
    /\ disk \in [Server -> Disk]
    /\ applyCh \in [Server -> SUBSET Snap]
    /\ net \subseteq Message
    /\ restarts \in Nat
    /\ staleMatch \in BOOLEAN

\* At most one leader per term (config.go:445, "term %d has %d (>1) leaders"),
\* whatever votes are lost, delayed, or forgotten in a crash.
ElectionSafety ==
    \A s, t \in Server :
        state[s] = "Leader" /\ state[t] = "Leader" /\ currentTerm[s] = currentTerm[t] => s = t

\* The induction hypothesis behind ElectionSafety.  A vote <<p, s, t>> of p for s
\* in term t that is counted, or granted in a reply still in flight, binds p:
\* p remembers it as long as it is in term t, and no two votes of p in a term
\* disagree.  A leader holds the votes of a majority.
CountedVotes == UNION {{<<p, s, currentTerm[s]>> : p \in votes[s]} : s \in Server}
GrantedVotes == {<<m.from, m.to, m.term>> :
                   m \in {r \in net : r.type = "RequestVoteReply" /\ r.voteGranted}}
Grants == CountedVotes \cup GrantedVotes

VoteInv ==
    /\ \A g \in Grants :
          currentTerm[g[1]] > g[3] \/ (currentTerm[g[1]] = g[3] /\ votedFor[g[1]] = g[2])
    /\ \A g, h \in Grants : g[1] = h[1] /\ g[3] = h[3] => g[2] = h[2]
    /\ \A s \in Server : state[s] = "Leader" =>
                             2 * Cardinality(votes[s]) > Cardinality(Server)

\* Between critical sections the disk holds what memory holds, so a crash can
\* take back neither a vote nor an entry that a reply has promised.
DiskInSync ==
    \A s \in Server :
        /\ disk[s].currentTerm = currentTerm[s]
        /\ disk[s].votedFor = votedFor[s]
        /\ disk[s].log = logs[s]

\* A peer's term never goes back and a vote cast in a term is never changed in
\* that term, by any handler or by a restart from any point of a handler.
VoteIsFinal ==
    [][\A s \in Server :
        /\ currentTerm'[s] >= currentTerm[s]
        /\ currentTerm'[s] = currentTerm[s] /\ votedFor[s] # Nil => votedFor'[s] = votedFor[s]
      ]_vars

\* Logs that hold the same entry agree on the one before it, and so on
\* everything before it, down to the higher of the two snapshots
\* (AppendEntries' check of prevLogIndex), as long as no leader trusts a
\* matchIndex left over from an earlier term of office: the snapshots that such
\* a leader commits need not fit the entries CondInstallSnapshot keeps after them.
LogMatching ==
    ~staleMatch => \A s, t \in Server : \A i \in (logs[s].base + 2) .. LastIndex(logs[s]) :
        /\ i > logs[t].base + 1 /\ i =< LastIndex(logs[t])
        /\ TermAt(logs[s], i) = TermAt(logs[t], i)
        => TermAt(logs[s], i - 1) = TermAt(logs[t], i - 1)

\* The committed entries are in the log (the slices of applier and of
\* isLogMatched are in range), under the same proviso.
CommitInLog ==
    ~staleMatch => \A s \in Server :
        commitIndex[s] \in logs[s].base .. LastIndex(logs[s])

\* A leader has every entry that some peer knew to be committed in an earlier
\* or the same term (isLogUpToDate and the majority rule), under the same proviso.
LeaderCompleteness ==
    ~staleMatch => \A s, t \in Server :
        state[s] = "Leader" /\ currentTerm[t] =< currentTerm[s] =>
            /\ commitIndex[t] =< LastIndex(logs[s])
            /\ \A i \in 1 .. commitIndex[t] : FullLog(s)[i] = FullLog(t)[i]

\* The persisted snapshot ends exactly where the persisted log begins, so that
\* a restarted service and its peer agree on what is next (SaveStateAndSnapshot).
SnapshotMeetsLog ==
    \A s \in Server :
        /\ Len(disk[s].snapshot) = disk[s].log.base
        /\ disk[s].log.base > 0 =>
               disk[s].snapshot[disk[s].log.base] = disk[s].log.terms[1]

\* The induction hypothesis behind SnapshotMeetsLog: every snapshot, on disk, in
\* a call or waiting in applyCh, ends with the entry it names, and a log is only
\* ever compacted up to its commitIndex (which CondInstallSnapshot relies on
\* when it shortens the log without looking at its first entry).
EndsWith(data, index, term) ==
    Len(data) = index /\ (index > 0 => data[index] = term)

SnapshotInv ==
    /\ \A s \in Server : EndsWith(disk[s].snapshot, logs[s].base, logs[s].terms[1])
    /\ \A s \in Server : commitIndex[s] >= logs[s].base
    /\ \A m \in net : m.type = "InstallSnapshot" =>
                         EndsWith(m.snap.data, m.snap.index, m.snap.term)
    /\ \A s \in Server : \A snap \in applyCh[s] : EndsWith(snap.data, snap.index, snap.term)

\* No two peers ever commit different entries at an index (config.go:504,
\* "committed values do not match"), without any proviso.
CommittedValuesMatch ==
    \A s, t \in Server : \A i \in 1 .. commitIndex[s] :
        i =< commitIndex[t] => FullLog(s)[i] = FullLog(t)[i]

=============================================================================
