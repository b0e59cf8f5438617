# A TLA+ verification of Raft_Implementation

The repository is a Go implementation of Raft on the skeleton of a distributed
systems course. Its own work is `src/raft` (elections, log replication,
snapshots, persistence, and a gradient manager fed from the log), a single-node
key/value server (`src/kvsrv`) and a MapReduce coordinator and worker
(`src/mr`). The rest is the course's support code (a simulated RPC network, an
encoder, a linearizability checker, test harnesses) and empty skeletons
(`kvraft`, `shardkv`, `shardctrler` servers). Paths below are relative to the
repository's `src/` directory.

## 1. Survey

| Part | State | Operations |
|---|---|---|
| Raft peer (`raft/raft.go`, `raft/rpc.go`, `raft/util.go`) | `currentTerm`, `votedFor`, `logs` (with a dummy entry that stands for the snapshot), `state`, `commitIndex`, `lastApplied`, `nextIndex`, `matchIndex`, two timers, two kinds of condition variable | `ticker`, `StartElection`, `RequestVote`, `Start`, `BroadcastHeartbeat`, `replicateOnceRound`, `AppendEntries`, `InstallSnapshot`, `Snapshot`, `CondInstallSnapshot`, `applier`, `replicator`, `Make`, `Kill` |
| `raft/persister.go` | saved Raft state, saved snapshot | `SaveStateAndSnapshot`, `ReadRaftState`, `ReadSnapshot` |
| `raft/gradient.go` | buffer, epoch, model state | `AddGradient`, `AggregateGradients`, `ApplyGradientToModel` |
| `labrpc` | endpoints, their connections, whether enabled, registered servers | `Call`, `processReq`, `MakeEnd`, `Connect`, `Enable`, `AddServer`, `DeleteServer`, `Cleanup` |
| `kvsrv` | map, cache of answers by request id | `Get`, `Put`, `Append`, their confirmations, the clerk's retry loops |
| `mr` | task table, task channels, phase | `PollTask`, `MarkFinished`, `toNextPhase`, the worker loop |
| `porcupine`, `models/kv.go` | linked list of calls and returns, bitset of linearized calls, cache, longest prefixes; the channel and the kill flag of a check | `checkSingle`, `lift`, `unlift`, `checkParallel`, `CheckOperations`, `CheckEvents`, `computeVisualizationData` |
| `raft/config.go` | a copy of what each server has applied, saved persisters, endpoint names, connections | `crash1`, `start1`, `connect`, `disconnect`, `applier`, `applierSnap`, `one`, `wait`, `nCommitted`, `checkOneLeader`, `checkTerms`, `checkNoLeader` |
| `kvraft/config.go` | servers, clerks, saved persisters, endpoint names | `ConnectAll`, `partition`, `make_partition`, `makeClient`, `deleteClient`, `ConnectClient`, `DisconnectClient`, `ShutdownServer`, `StartServer` |

How the parts interact: each Raft peer runs one `ticker`, one `applier` and one
`replicator` per other peer, plus one goroutine per RPC sent. All of them share
`rf.mu`; every one of them lets go of it while it waits for a reply, a channel
or a condition. Peers talk only through labrpc, which may lose a call, lose its
reply, delay either and let calls overtake each other. The service on top gets
committed entries and snapshots from `applyCh`, and calls back `Snapshot` and
`CondInstallSnapshot`. The persister is all that survives a crash.

The tests are concurrent programs too. A harness shuts servers down and starts
new instances while calls are on their way, and cannot stop the goroutines of
the old instance; the tester of Raft reads each server's `applyCh` in a goroutine
of its own; the checker searches every key in parallel and stops searches early.
Whether a passing test means anything depends on these being right.

What is hard here:

* replies are handled by goroutines of an election or a replication round that
  may be long over;
* a peer may crash between any two `persist` calls, also in the middle of a
  handler;
* the log's indices are shifted by compaction, so every slice expression
  depends on the first index;
* a snapshot is accepted in one critical section (`InstallSnapshot`) and put in
  place in another (`CondInstallSnapshot`), with anything in between;
* leader state (`nextIndex`, `matchIndex`) is written in `Make` and by reply
  handlers only, never when a peer takes office;
* an old instance of a server keeps sending, saving and applying beside its
  successor.

The correctness properties are Raft's: at most one leader per term, votes are
final, logs that agree at an index agree up to it, a committed entry is in the
log of every later leader, no two peers commit different entries at an index.
Added to them are the ones about durability and snapshots that this code has to
keep with its own data structures. `PROJECT.json` lists the hazards by line.

## 2. Modules

| Module | What it is |
|---|---|
| `RaftLog` | operators on compacted logs: matching, merging, conflict search, backing up |
| `Raft` | the consensus core: one action per critical section of `rf.mu`, the network, the disks |
| `CommittedLog` | what Raft promises: all peers learn the entries of one log, in order |
| `RaftPromise` | the refinement mapping from `Raft` to `CommittedLog` |
| `MCRaft` | instance for TLC: message filters that keep runs small, symmetry |
| `MCRaftReelection` | instance with a restricted schedule of elections, for one long counterexample |
| `CatchUp` | one leader and one lagging follower: the rounds that bring its log in line |
| `Ticker` | the two timers of a peer and the `ticker` goroutine |
| `Replicator` | extends `Ticker`: the replicator goroutine, its condition variable, the heartbeats' rounds |
| `Applier` | the `applier` goroutine, `applyCh`, and the service's snapshots |
| `Gradient` | extends `Applier`: the gradient manager that the applier feeds |
| `AtomicKV` | what a key/value store promises: one step per operation |
| `KVSrv` | `kvsrv`'s server, clerks and their calls; implements `AtomicKV` |
| `LabRPC` | the simulated network: a call from `Call` to its return, and the operations on ends and servers |
| `KVConfig` | extends `LabRPC`: the key/value harness that restarts servers, connects and partitions while calls are on their way |
| `MCKVConfig` | instance: which calls are made |
| `MapReduce` | the MapReduce coordinator and its workers |
| `KvModel` | the store that tests compare with (`models/kv.go`), and a definition of linearizability |
| `Porcupine` | the linearizability checker and what is drawn of its result |
| `MCPorcupine` | instance: the histories that are checked |
| `RaftTester` | the tester of Raft, with the goroutines of crashed instances |
| `MCRaftTester` | instance: the log that the servers agree on |
| `RaftInvariants` | what the proofs about `Raft` speak of: claims to votes, histories, the inductive invariants |
| `RaftLogProofs` | lemmas on logs, messages and the statements of the handlers |
| `RaftElectionProofs` | types, memory and disk, snapshot and log, votes |
| `RaftHistoryProofs` | what a history says of the state it explains; the actions that change no entry and decide none, elections among them |
| `RaftReplicationProofs` | the actions that change entries or decide them |
| `RaftSafetyProofs` | majorities; leaders, logs and commits, and the refinement of `CommittedLog` |
| `GoroutineProofs` | the safety properties of `Applier` and `Ticker` |
| `KVSrvProofs` | repeated calls to `kvsrv`, for any number of clerks, operations and lost calls |
| `KVConfigProofs` | restarts and partitions in `KVConfig`, for any number of servers, clerks and calls |

The modules around the core each take one part of the peer and let the rest of
it do what the code allows it: in `Applier`, for example, consensus is a
`commitIndex` that grows. `RaftLog` is shared by `Raft` and `CatchUp`;
`Replicator` composes the timers with replication, `Gradient` the applier with
the gradient manager, `KVConfig` the harness with the network. Definitions whose
comment begins with "Mutant" are faulty variants of the definition below them,
which the properties are tested against; no specification uses them.

The tables of this section give `Raft` in detail; section 2.1 has the others.

### State

| Variable | Code |
|---|---|
| `currentTerm`, `votedFor`, `state`, `commitIndex`, `nextIndex`, `matchIndex` | the fields of `Raft` of those names (`raft/raft.go:17-53`) |
| `logs[s]` | `rf.logs`: `base` is the index of the dummy entry, `terms` the terms of all entries, the dummy entry first |
| `votes[s]` | `grantedVotes` of the running election, with the voters' names |
| `disk[s]` | the persister: what `encodeState` wrote, and the snapshot |
| `applyCh[s]` | snapshots on their way from `InstallSnapshot` through the channel to the service |
| `net` | calls and replies in flight, a set: they overtake each other, and a message that nobody takes is lost |
| `restarts` | number of crashes so far (bounds the model) |
| `staleMatch` | history: some peer took office with a `matchIndex` left over from an earlier term of office |

An entry is represented by its term. A leader creates at most one entry per
index and term, so term and index identify the command; properties about values
are stated on terms. A snapshot is the sequence of entries it stands for,
which is what lets `SnapshotMeetsLog` and `ImplementsCommittedLog` speak about it.

### Actions

| Action | Code |
|---|---|
| `ElectionTimeout` | `ticker` case `electionTimer.C`, with `StartElection` up to the goroutines: `raft.go:420-428`, `207-215` |
| `RequestVote`, `HandleRequestVoteReply` | the handler `rpc.go:25-52`, and the body of the goroutine `raft.go:220-244` |
| `Start` | `raft.go:170-193` |
| `ReplicateOnceRound` | first critical section of `replicateOnceRound`: `raft.go:298-336` |
| `AppendEntries`, `HandleAppendEntriesReply` | `rpc.go:92-172`; `raft.go:337-385` with `advanceCommitIndexForLeader` |
| `InstallSnapshot`, `HandleInstallSnapshotReply` | `rpc.go:205-237`; `raft.go:312-332` |
| `Snapshot`, `CondInstallSnapshot` | called by the service: `raft.go:124-141`, `145-167` |
| `Restart`, `RestartInElection`, `RestartInRPC` | a crash between critical sections, between the two `persist` calls of an election, and after the first `persist` of a handler; then `Make` and `readPersist` |

A handler runs under `rf.mu` from beginning to end, so it is one step; an RPC
is three: send, handle, take the reply. A retry is a new round. A call that is
lost is a message that is never taken.

### 2.1 The other modules

| Module | State | Actions and code |
|---|---|---|
| `CatchUp` | both logs, both commit indices, `nextIndex` and `matchIndex` of the follower, `applyCh`, `net` | the two halves of `replicateOnceRound` (`raft.go:298-385`), `AppendEntries`, `InstallSnapshot`, `CondInstallSnapshot`, `Snapshot`, `Start`; the replies of other peers are `AdvanceCommitIndexForLeader` |
| `Ticker` | `state`, for each timer whether it runs and whether its channel holds a tick, the case the ticker is in | `ElectionTick`, `HeartbeatTick`, `Receive` (`raft.go:413-439`); `Win`, `StepDown`, `Hear` are all critical sections that call `ChangeState` or reset a timer |
| `Replicator` | the log's last index, `nextIndex` and `matchIndex` of the other peer, how far that one's log goes and agrees, where the replicator is, rounds in flight | `needReplicating`, `Wait`, `Signal` (`raft.go:250-263, 387-411`); both halves of a round of `replicateOnceRound` and `AppendEntries` between them, of the replicator and of a heartbeat; a round that panics; `Make` |
| `Applier` | the ends of the log, `commitIndex`, `lastApplied`, the batch being sent, what the service has | the four stretches of `applier` between lock and unlock (`raft.go:443-483`), `InstallSnapshot`, `CondInstallSnapshot`, `Snapshot`, a crash |
| `Gradient` | the batch of each log entry, the manager's buffers and model, the place in `handleGradientLog` | `AddGradient`, `AggregateGradients`, `ApplyGradientToModel` (three critical sections of `gm.mu`) before each send; a crash and `Make` with a new manager |
| `KVSrv` | the value, remembered results, calls (each with its place in the handler), each clerk's operation | the two critical sections of each handler (`kvsrv/server.go`), the clerk's loops (`kvsrv/client.go`), a call that fails |
| `LabRPC` | for each call its place in `processReq`, the server it found, its handler, what `Call` returns; ends, which of them are enabled, registered instances | the steps of `Call` and `processReq` (`labrpc.go:84-309`); `MakeEnds`, `AddServer`, `DeleteServer`, which `KVConfig` calls |
| `KVConfig` | instances of each server, which one owns the saved persister, how far a shutdown or start is, clerks, the sides of the last partition | calls and handlers; every operation of `kvraft/config.go` on connections, clerks and servers. `ShutdownServer` is `Isolate`, `Unregister`, `CopyPersister` and `StartServer` is `StartServer`, `Register`: the steps between which calls go on |
| `MapReduce` | phase, task channel, task states, workers, files written | the cases of `PollTask`, `MarkFinished` with `callDone`, `DoMapTask`, a worker's death, the coordinator's exit |
| `Porcupine` | for each partition the local variables of `checkSingle`; the channel, `kill`, the verdict, the partial linearizations, the drawing | one action per turn of `checkSingle`'s loop (`Extend`, `Skip`, `Backtrack`, `Exhaust`, `Succeed`, `StopKilled`: `checker.go:179-253`), `SendVerdict`, `Receive`, `Timeout`, `Drain`, `Finish` (`checker.go:274-353`), `Visualize` (`visualization.go`); `makeEntries`, `renumber`, `convertEntries` and the partitioning make the initial states |
| `RaftTester` | the fields of `config`; for each instance its batch and snapshot, and the goroutine reading its `applyCh`; the test's own call in progress | critical sections of `cfg.mu` in the appliers, `crash1`, `start1`, `connect`, `disconnect` (`raft/config.go`), and the loops of `one`, `wait`, `nCommitted`, `checkOneLeader`, `checkTerms`, `checkNoLeader` by the server they look at next |

What is represented how:

* `CatchUp` starts in every state that a newly elected leader and a follower
  can be in within the bounds, with `nextIndex` as `Make` leaves it: any two logs,
  a leader that has committed, and compacted, entries which the follower lacks
  or contradicts.
* `Replicator` knows of the logs where they end and how far they agree; what a
  leader finds in its log for a conflict is any index it could find. The other
  peer has any such log when it first hears of a term. The service takes no
  snapshots there, so that every round is an `AppendEntries`; `InstallSnapshot` is
  in `CatchUp`.
* `Ticker` follows timers before Go 1.23 (`go.mod` says 1.15): `Stop` and
  `Reset` do not take back a tick that is in the channel.
* `KVSrv` has one key, since keys do not interact. Strings are sequences of
  operations, so that an append that happens twice shows.
* In `LabRPC` the network is unreliable and delays replies. In `KVConfig` a
  handler has one effect, which is durable if its instance still owns the saved
  persister. The harness connects and partitions only while all servers are up,
  which is what the tests do, and has an odd number of servers, as they have.
  `partition` holds the lock of `config` and is one step: its two sides are
  disjoint, so that none of its calls undoes another.
* In `Porcupine` the hash of the cache is left out, since equality decides there.
  A word of a bitset has two bits, so that three operations take two words.
  `sort.Sort` is not stable: entries of the same time come in any order in which
  calls are before returns.
* In `RaftTester` Raft is a source of one agreed log, sent in batches from each
  instance's snapshot on. It may fail `MaxWrong` times, by sending a wrong
  command or by two leaders in a term. A snapshot that is installed is one that
  another server has now, so that the errors of `ingestSnap` do not occur.
* In `MapReduce` the reduce phase is missing because the code cannot reach it:
  `toNextPhase` goes from `MapPhase` to `AllDone`. `makeMapTasks` does not
  compile (`mr/coordinator.go:254`) and is read as giving each task its file.
* In `Gradient` a model is the sequence of groups of gradients that were
  averaged into it; parameters and epoch are functions of that. Nothing in
  the repository registers `GradientLog` with labgob, without which `persist`
  silently saves no log and `Call` panics; the module assumes that the
  application does it, as the services do with their `Op`.

## 3. Runs

Bounds are written (terms, entries, snapshot index, messages in
flight, restarts); there are three peers. Each bound is in a guard of the
specification (`MaxTerm` and so on). Deadlock is not checked: once the bounds
are used up the system stops.

| Run | Bounds | What it checks |
|---|---|---|
| `faults` | 2, 1, 0, 2, 1 | `ElectionSafety`, `VoteInv`, `VoteIsFinal`, `DiskInSync`, `ImplementsCommittedLog`: two calls in flight that overtake each other, and a crash at every persist call |
| `logs` | 3, 2, 1, 1, 0 | `LogMatching`, `LeaderCompleteness`, `CommitInLog`, `SnapshotMeetsLog`, `ImplementsCommittedLog`: conflicting logs, compaction and InstallSnapshot |
| `reelection` | 6, 2, 0, 1, 0 | finds `CommittedValuesMatch` violated |

Why the bounds are enough for the question asked: three terms let two leaders
be followed by a third that must have both leaders' committed entries; two
entries give a log with a prefix to match and an entry to conflict, or one in
the snapshot and one after it; two rounds in flight are what reordering takes;
one restart is placed at every step. In run `faults` two calls that are in flight
after the crash are for the same peer, where they can overtake each other
(`OvertakingOnly`); before it they are any two. Run `logs` has all of its bounds at once
only in part (`Combined`): the third term is for clusters without a snapshot in
which one peer is still without entries; not every peer has a snapshot, and once
one has, there is a peer with nothing after its snapshot, or without any entry.
`LogMatching` compares an entry and the one before it, from which agreement up
to an index follows. That a leader counts only entries of its own term
(`raft.go:287`) makes a difference from the fourth term on, which no run has; the
proofs cover it.

`ImplementsCommittedLog` is the refinement of `CommittedLog`: what peer `s` has
seen is its log up to `commitIndex`, snapshot included. A step of Raft lets one
peer see more of the one log, or is a crash, or changes nothing that peers have
seen. It contains state machine safety, that `commitIndex` goes back in a
crash only, and that a conflict or a snapshot never replaces what was committed.

`NoFutileMessage` leaves out states with a message whose receiver would ignore
it (equal to one in which it was lost). `NoStaleMatch` leaves out behaviours in
which a leader took office with a stale `matchIndex`: for those two peers may
commit different entries, as run `reelection` shows, and `LogMatching`,
`CommitInLog` and `LeaderCompleteness` promise nothing. That this is the only
way to lose them is what section 4 proves, without bounds.

The runs of the other modules:

| Run | Instance | What it checks |
|---|---|---|
| `catch_up` | two earlier terms, logs of 3, snapshots of 1, 2 calls in flight, 1 lost | `IndexInv` (`MatchedIsShared`, `CommittedIsShared`: what `matchIndex` and `commitIndex` claim is true), and `PrefixCatchesUp`: a follower that is only behind is brought up to date |
| `catch_up_conflict` | two earlier terms, logs of 2, 1 call | finds `CatchesUp` violated |
| `replicator` | logs of 2, a round of a heartbeat and one of the replicator in flight, any number of changes of office, lost calls and restarts | `NeverSilent`, `HeartbeatsGoOn`, and `EntriesArrive`: a leader's entries reach a peer whose log does not contradict them |
| `delivery` | log of 4 gradients in 2 batches, buffers of 2, 1 crash | `SliceInRange`, `NothingSkipped`, `ManagerInv` (`CountedOnce`), `ModelFollowsLog`, and `CommittedIsApplied`: no wakeup of the applier is lost |
| `kv_retry` | 2 clerks, 2 operations each, 2 failures | `ServerInv` (`StatusIsBounded`), and `Linearizable`: the refinement of `AtomicKV`, with its liveness |
| `rpc_crash` | 3 servers, two of which are restarted, 1 clerk, 1 call, 2 instances of a server, 3 switches of connections | `PositiveIsDurable`, `SupersededIsSilent`, `LeaderIsCutOff`, `SidesAreApart`, `HangingHandlerIsLeft` |
| `map_job` | 1 to 3 files, 3 workers, 1 dies | `TaskInv` (`HandedOutOnce`, `AllDoneIsWritten`), `JobEnds` |
| `checker` | histories of 3 operations on one or two keys, of 4 that overlap, lists of events; with and without a timeout and partial linearizations | `SearchInv` (`ListIsIntact`, `StackIsTrue`), `VerdictIsRight`, `PartialsAreLongest`, `DrawingIsSound`, `ChecksEnd` |
| `tester` | 2 servers, a log of 2, 3 instances, 2 calls of the tester, 1 failure of Raft | `AlarmsAreReal`, `DisagreementIsReported`, `SavedIsOwn`, `ConfigInv` (`EndsAreCurrent`), `OneIsAgreed`, `LeaderIsNewest` |

The invariants named `...Inv` are conjunctions with the module's type invariant;
their parts that say more are in parentheses. The types of `Raft`, `Applier`,
`Ticker` and `KVSrv` are proved. So are those of the ends, servers and calls of
`KVConfig` (`Inv` of its proofs), not of its counters and of what is only
compared (`switches`, `down`, `clerks`, `durable`); no run has a type
invariant for them, nor for what `Replicator` adds to `Ticker`.

Why these bounds are enough: a batch of the applier can be overtaken only by a
snapshot inside it or beyond it, and a log of 4 has both; 4 gradients fill a
buffer of 2 twice in one batch, or once in each of two, in either order. Logs
of 3 have a shared prefix, a conflict and a rest, and two calls in flight
overtake each other. A clerk with two operations can confirm the first, and two
failures lose a call and the retry of it. One call is enough in `KVConfig`
because no step of a call reads what another call has written, and three
switches partition, connect again and partition another way around a restart.
Three workers and one task let two of them poll while the task is held. Three
operations of a key have every order of overlapping and preceding each other
(`Times`, with calls at the time of a return and operations at the same times),
a second word in the bitset, and something to lift in the middle of the list;
with two keys one search can fail while the other runs. In `RaftTester` the
third instance is a restart, so that the goroutine of the crashed one meets its
successor's; two calls crash and start a server, or start it and ask. Once that
goroutine has touched what its successor uses, with `applierSnap`, only restarts
are followed (`MuddledOnlyRestarts`): the other properties claim nothing from
there on. In `Replicator` logs of 2 have a prefix that agrees and an entry that
is missing or contradicts; `nextIndex` may be before it, at it or past the log. `Ticker`
has finitely many states and no bound. Where an invariant is also proved
(section 4), the bounds do not matter.

### Fairness

Every liveness property rests on weak fairness of goroutines, which the Go
scheduler gives, and on calls that are not lost returning:

* `Applier`, `Gradient`: the applier's own steps, and a service that keeps reading
  `applyCh`. Nothing is assumed of consensus or of snapshots.
* `Ticker`, `Replicator`: the heartbeat timer runs down, the ticker and
  the replicator run. `Receive` of the heartbeat is strongly fair,
  since `select` chooses at random between channels that are ready. Nothing is
  assumed of the election timer: a follower that hears its leader resets it.
  The network loses any number of calls and replies, but of the rounds of
  heartbeats not all (strong fairness of `HeartbeatArrives` and
  `HeartbeatReply`; labrpc drops one in ten). Of the replicator's own
  rounds nothing is assumed: all of them may be lost.
* `CatchUp`: heartbeats start rounds for ever, requests and replies that are
  not among the `MaxLost` lost ones are handled, snapshots in `applyCh` are
  taken. Nobody need call `Start` or `Snapshot`.
* `KVSrv`: clerks call again, handlers and replies go on. The number of failures is
  bounded, since a network that always fails defeats any retry loop.
* `KVConfig`: the network's goroutines run. Nothing is assumed of handlers, which
  may hang, nor of the harness.
* `Porcupine`: each search, `checkParallel` and, if there is a timeout, its timer.
* `MapReduce`: workers that are alive and the coordinator's main loop go on.

`Raft` and the other modules have safety properties only.

### What the violated properties show

* `reelection`: `ChangeState(Leader)` does not reset `matchIndex`. Entries that
  peers acknowledged in an earlier term of office, and that have since been
  overwritten, are counted for the new ones; two peers commit different entries
  at one index. The run restricts elections to two alternating candidates to
  make the six-term counterexample reachable.
* `catch_up_conflict`: the follower's scan looks for `PrevLogTerm`, which the
  entry at `prevLogIndex` does not have, so it reports `prevLogIndex + 1` and
  `nextIndex` stays where it is, round after round.

### Provisos

Some properties are stated with a proviso because the code does not keep them
without it. TLC found a counterexample to each of the stronger statements in an
instance as small as those above; no run is kept for them.

* `nextIndex` is not reset at an election either. A peer that restarts (where
  `Make` sets it to the end of the log), loses part of its log to another
  leader and is then elected has `nextIndex` past its log, where
  `genAppendEntriesArgs` slices out of range. `Replicator` has the panic, and a
  restart after it, as `Panic`.
* `matchIndex` moves back when replies overtake each other, which the comment
  on the field excludes. `MatchedIsShared` and `ImplementsCommittedLog` do not need it.
* A leader whose `nextIndex` is below the follower's first entry is told to back
  up to 0; it sends its own snapshot, which is older than the follower's, sets
  `nextIndex` after it, and is rejected again. Hence the first conjunct of
  `PrefixCatchesUp`.
* A snapshot that is installed while a batch is sent is delivered between two
  entries of it, and entries that it covers follow. `NothingSkipped` says that
  none is passed over, not that they come in order.
* An election tick that was taken before an election was won makes the new
  leader a candidate again. Safety is not affected; `Raft` allows it too.
* A handler of `kvsrv` looks for a remembered result in one critical section and
  executes in another. If a call could fail while its handler runs, which takes
  a connection that is disabled, a request could be executed twice. The harness
  of `kvsrv` disables none, and `KVSrv` has no such step.
* `callDone` reports task 0, whatever task was done, and no task ever goes back
  into the channel: `JobEnds` is about one file and no crash.
* Buffers and models are in no snapshot, so a peer that restarts after compaction
  or installs a snapshot lacks gradients: `replayed` in `ModelFollowsLog`.
  What waits in a buffer is not in the model: the test that expects
  parameters after two gradients (`gradient_test.go:195`) does not agree with
  buffers of ten (`gradient.go:57`, `80`), and `ModelFollowsLog` follows the code.
* The goroutine that reads a crashed instance's `applyCh` writes to the same
  `lastApplied` and `logs` of the tester as its successor. In `applier` that does
  no harm. In `applierSnap` it makes the tester report entries out of order, or
  take a snapshot with a gap, of a Raft that did nothing wrong: `Muddled`. The
  persister is out of its reach even then: the first part of `SavedIsOwn`.
* `applierSnap` also reports entries out of order when a snapshot overtakes a
  batch, which the code of `Raft` permits (above): the second part of
  `AlarmsAreReal`.
* `checkParallel` without a timeout waits for ever on a history without
  operations: `ChecksEnd` excludes it. The tests never check one.
* With an even number of servers `make_partition` leaves an element of `p2` at
  its initial value 0, so that server 0 is in `p2` whether or not it is in `p1`.
  `connect` of a server that is down, and `Leader` and `wait` while one is down,
  dereference a nil pointer. The tests do none of this, nor do the models.
* The comment in `porcupine/checker.go:64` ("call if match is nil, otherwise
  return") has the two the wrong way round; `Porcupine` follows the code, where
  a call has a match.

## 4. Proofs

The theorems about `Raft` hold for any finite set of peers and any values of the
bounds (`ServerAssumption`, `BoundAssumption`), without the filters of the runs.
Those marked * have the proviso `~staleMatch`, that so far no leader took office
with a `matchIndex` left over from an earlier term of office; run `reelection`
shows that the code needs it.

* `TypeCorrect`, `DiskFollowsMemory`, `SnapshotMeetsSavedLog`
  (`RaftElectionProofs`). The invariant is `DurableInv`, the conjunction of
  `TypeOK`, `DiskInSync` and `SnapshotInv`. None of the three is inductive by
  itself: the type of the log after `CondInstallSnapshot` needs a snapshot
  index not below the first entry, which is a matter of `SnapshotInv`; after
  a restart `SnapshotInv` needs memory to equal what was on disk.
* `VotesBind`, `VotesAreFinal` (`RaftElectionProofs`) and `OneLeaderPerTerm`
  (`RaftSafetyProofs`, which has the lemmas on majorities). The invariant `ElectionInv` adds `ClaimInv` to `DurableInv`: every vote that
  is counted, or granted in a reply on its way, is one its voter still stands
  by (same term and `votedFor`, or a later term), and a leader has a majority of
  them. Two majorities share a voter, who would have voted twice. Durability is
  needed because a restart takes the vote from the disk.
* `LogsMatch`*, `CommitsAreInLog`*, `LeadersAreComplete`*, `CommitsAgree`*
  (`RaftSafetyProofs`). Why an entry is safe lies in the past: who led its term,
  what that leader's log was, and who confirmed it in that term. The code keeps
  none of this. So the invariant `SafetyInv` adds to `ElectionInv` that some
  history `h` explains the state (`Explains`): the logs of earlier leaders, their
  voters, and up to where each peer has confirmed each leader's log. An entry
  is chosen when a majority has confirmed it in its term, and choosable as long as
  a majority has or still could. The parts of `Explains` hold each other up.
  A peer keeps what it confirmed as long as it is choosable (`AckInv`), so a
  candidate has what its voters confirmed (`BallotInv`), so later leaders have
  what is choosable (`ChoiceInv`), so their `AppendEntries` overwrites none of it.
  `LeaderInv` says that a `matchIndex` is backed by a confirmation, or covers
  only what is decided anyway; here the proviso comes in, when a leader takes
  office. What a peer has after its snapshot need not continue it (`PeerLog`):
  `CondInstallSnapshot` keeps entries without comparing the one before them.
  `RaftHistoryProofs` and `RaftReplicationProofs` give for each action the step of the history: none, a
  term gets a leader, a leader adds an entry, a peer confirms entries. Of counting it uses `MajoritiesMeet` and
  `MajorityReached` (the index `advanceCommitIndexForLeader` finds is one a
  majority has reached), which `RaftSafetyProofs` proves of finite sets.
* `ServicesReadOneLog`* (`RaftSafetyProofs`): every behaviour of `Raft` in which
  `staleMatch` stays false is one of `CommittedLog`. A commit index moves in one
  peer at a time, forward, or back to the snapshot in a restart (`NextCommit`);
  what it covers stays as it was (`CommittedKept`, from the history), and is what
  other peers have.
* The log lemmas of `RaftLogProofs` include `ConflictType` and `ScanBackStops`: the follower's search
  for the first entry of the conflicting term stops at once, so the index it
  reports is always `prevLogIndex + 1`.
* `SliceStaysInRange`, `NothingIsSkipped` (`GoroutineProofs`), for any length of the log
  and any number of crashes (`BoundAssumption`). `lastApplied` is stale while a
  batch is sent, so neither is inductive. `DeliveryInv` says how far it lags:
  either the batch still covers the gap between `lastApplied` and what the
  service has, or a snapshot has moved `lastApplied` past the batch already.
* `NoPeerFallsSilent` (`GoroutineProofs`): `NeverSilent` is inductive together with
  `TTypeOK`, once "live" includes a tick in the channel and one that the ticker
  has taken.
* `ServerStaysBounded`, `RetriesAreInvisible` (`KVSrvProofs`): what the server
  remembers, and the safety part of the refinement of `AtomicKV`. A handler looks
  for a remembered result in one critical section and acts in another, so
  `StatusIsBounded` alone does not exclude that an operation is done twice, or put
  back after its confirmation. `CallInv` does: a call is its clerk's only one,
  for its current operation and phase, and what it has read of the server still
  holds when it acts.
* `PositiveReplyIsDurable`, `SupersededInstanceIsSilent`, `PartitionSeparates`,
  `LeaderStaysCutOff` (`KVConfigProofs`), for any odd number of servers, any clerks and calls, any
  bounds (`BoundAssumption`, `NameAssumption`). The invariant `Inv` has three
  parts. `PhaseInv`: how far a shutdown or a start is decides which instance is
  registered and which one owns the saved persister; in particular none is
  registered when the persister is replaced. `EndInv`: ends of superseded
  instances, and ends between the sides of a partition, are disabled.
  `CallInv(i)`: where call `i` is, and that a handler that has returned is
  durable as long as its instance owns the persister. `PositiveIsDurable` alone
  says nothing of a call whose handler has returned and whose reply is yet to be
  checked against the registered server; that check meets `PhaseInv`, by which
  an instance that is registered is also the owner. `SidesAreApart` is an action
  property and follows from `EndInv` before the step. For `LeaderIsCutOff`,
  `CutInv` says that the leader is on the side that is no majority
  (`LeaderInMinority` counts what `make_partition` takes); `EndInv` confines
  its enabled ends to that side.

Only model-checked: the liveness properties (`HangingHandlerIsLeft`, those of
`Replicator` and `Gradient`, `Linearizable` as far as operations return); the
properties of `CatchUp`, `MapReduce`, `Gradient`, `Porcupine` and `RaftTester`.
`IndexInv` of `CatchUp` and `TaskInv` of `MapReduce` are within the prover's
reach and have no proof yet. `Gradient` folds batches into a model, and
`Porcupine` and `RaftTester` search and record sequences, which takes induction
over data. Out of the prover's reach, and so for TLC in any case: liveness
under fairness and `ENABLED`, induction over data, and anything about RECURSIVE
operators (the modules with theorems reach none).

## 5. Not modelled

* `kvraft`, `shardkv` and `shardctrler` servers: skeletons whose handlers are
  empty. The clerks of the shard services are retry loops over servers that
  never answer and a configuration that nobody makes; there is nothing to check
  them against. The harnesses of these services and of `kvsrv` shut down and
  start servers the way `kvraft/config.go` does.
* The reduce phase of MapReduce, which the code cannot reach.
* `labgob`, a wrapper of an encoder that prints warnings; the HTML page and the
  marshalling of `porcupine/visualization.go`; MapReduce applications and the
  other `main` programs: input and output without protocol state.
* In the harnesses the counters of bytes and calls, log sizes, the two-minute
  limit and the options of the network, which is always unreliable here.
  `DeleteEnd` of labrpc, which nobody calls.
* Logging, statistics and float arithmetic everywhere. The length of timeouts:
  a timer that runs may fire at any time.
* `AtomicKV` on top of Raft: the repository has no service that would compose
  them, `kvraft`'s server being empty.
