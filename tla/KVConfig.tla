------------------------------ MODULE KVConfig ------------------------------
(***************************************************************************)
(* The test harness of src/src/kvraft/config.go on the network of LabRPC:  *)
(* it makes clerks, connects, disconnects and partitions, shuts servers    *)
(* down and starts new instances of them, while calls of clerks and of     *)
(* servers, superseded instances included, are on their way.  A handler's  *)
(* effect counts if it reaches the persister that the next instance is     *)
(* started from.  What the servers do with calls is left open.             *)
(*                                                                         *)
(* As the tests do, servers are connected and partitioned only while all   *)
(* of them are up, and one shut down is started again before that.         *)
(***************************************************************************)
EXTENDS LabRPC, FiniteSets

CONSTANTS
    N,              \* cfg.n
    Clerk,
    NoServer,
    Victims,        \* bound: the servers that are shut down
    Routes,         \* bound: the pairs <<caller, callee>> of the calls
    Lists,          \* bound: the lists given to the clerks' operations
    MaxInstances,   \* bound: instances of a server
    MaxSwitches     \* bound: calls of the connecting operations

ASSUME BoundAssumption ==
    MaxInstances \in Nat \ {0} /\ MaxSwitches \in Nat /\ N \in Nat /\ N % 2 = 1 /\ N > 1

All == 0 .. N - 1

ASSUME NameAssumption ==
    Clerk \cap All = {} /\ NoServer \notin All /\ Victims \subseteq All

VARIABLES
    instances,   \* number of instances of each server so far
    owner,       \* the instance that writes to cfg.saved[i], 0 if none
    phase,       \* how far ShutdownServer and StartServer are
    clerks,      \* cfg.clerks
    durable,     \* calls whose effect is in cfg.saved
    switches,
    side,        \* what holds since the last partition or ConnectAll: p1,
    cut,         \* the leader make_partition put in the minority, and
    late         \* calls made by an instance after it was isolated

config == <<instances, owner, phase, clerks, switches, side, cut>>
vars == <<Network, calls, config, durable, late>>

\* cfg.endnames[i]: a fresh set for each instance.
Endnames(i) == [of : {i}, instance : {instances[i]}, to : All]

\* The ends of a clerk.
ClerkEnds(ck) == [of : {ck}, instance : {1}, to : All]

\* The ends of the servers that lead from one of p to one of q, or back.
Between(p, q) ==
    {e \in UNION {Endnames(j) : j \in All} : \/ e.of \in p /\ e.to \in q
                                             \/ e.of \in q /\ e.to \in p}

\* connectUnlocked and disconnectUnlocked of every server of p: a loop of these
\* calls adds or removes all that any of them does.
Connected(E, p, to) == E \cup Between(p, to)
Disconnected(E, p, from) == E \ Between(p, from)

\* make_config: every server started and connected.
Init ==
    /\ MakeNetwork
    /\ instances = [i \in All |-> 1] /\ owner = instances /\ servers = instances
    /\ phase = [i \in All |-> "up"]
    /\ ends = [of : All, instance : {1}, to : All] /\ enabled = ends
    /\ clerks = {} /\ durable = {} /\ switches = 0
    /\ side = All /\ cut = NoServer /\ late = {}

-----------------------------------------------------------------------------
(* Calls. *)

\* The instance that the end belongs to has been isolated by ShutdownServer.
Superseded(e) ==
    /\ e.of \in All
    /\ e.instance # instances[e.of] \/ phase[e.of] \in {"isolated", "deleted", "down"}

MakeCall(i) ==
    \E e \in ends :
        /\ <<e.of, e.to>> \in Routes
        /\ Call(i, e)
        /\ late' = IF Superseded(e) THEN late \cup {i} ELSE late
        /\ UNCHANGED <<Network, config, durable>>

Process(i) == ProcessReq(i) /\ UNCHANGED <<Network, config, durable, late>>

\* The handler changes its server's state and saves it to its persister.
Execute(i) ==
    /\ Handle(i)
    /\ durable' = IF instance[i] = owner[end[i].to] THEN durable \cup {i} ELSE durable
    /\ UNCHANGED <<Network, config, late>>

-----------------------------------------------------------------------------
(* Connections.  ShutdownServer holds cfg.mu. *)

Unlocked == \A j \in All : phase[j] \notin {"isolated", "deleted"}
AllUp == \A j \in All : phase[j] = "up"

Switch(E) ==
    /\ switches < MaxSwitches /\ switches' = switches + 1
    /\ enabled' = E
    /\ UNCHANGED <<servers, down, calls, instances, owner, phase, durable, late>>

ConnectAll ==
    /\ AllUp
    /\ Switch(Connected(enabled, All, All))
    /\ side' = All /\ cut' = NoServer
    /\ UNCHANGED <<ends, clerks>>

\* One of the two loops of partition.  The sides have no server in common, so
\* what one call connects no other disconnects.
Separate(E, p, q) == Connected(Disconnected(E, p, q), p, p)

Partition(p1, p2) ==
    /\ AllUp
    /\ Switch(Separate(Separate(enabled, p1, p2), p2, p1))
    /\ side' = p1
    /\ UNCHANGED <<ends, clerks>>

\* The tests' partitioner: any two sides.
Repartition == \E p1 \in SUBSET All : Partition(p1, All \ p1) /\ cut' = NoServer

\* Mutant: the servers are taken as they come, the leader too.
MakePartitionInOrder(l) == 0 .. N \div 2

\* make_partition: p1, the first N / 2 + 1 servers other than the leader.  The
\* rest of them and the leader are p2.
MakePartition(l) ==
    {i \in All \ {l} : Cardinality({j \in All \ {l} : j < i}) =< N \div 2}

\* With the server that Leader() finds, or 0.
PartitionLeader ==
    \E l \in All : Partition(MakePartition(l), All \ MakePartition(l)) /\ cut' = l

MakeClient(ck, to) ==
    /\ Unlocked /\ MakeEnds(ClerkEnds(ck)) /\ clerks' = clerks \cup {ck}
    /\ Switch(enabled \cup {e \in ClerkEnds(ck) : e.to \in to})
    /\ UNCHANGED <<side, cut>>

\* The clerk is forgotten; its ends stay.
DeleteClient(ck) ==
    /\ Unlocked /\ ck \in clerks /\ clerks' = clerks \ {ck}
    /\ Switch(enabled)
    /\ UNCHANGED <<ends, side, cut>>

ConnectClient(ck, to) ==
    /\ Unlocked /\ ck \in clerks
    /\ Switch(enabled \cup {e \in ClerkEnds(ck) : e.to \in to})
    /\ UNCHANGED <<ends, clerks, side, cut>>

DisconnectClient(ck, from) ==
    /\ Unlocked /\ ck \in clerks
    /\ Switch(enabled \ {e \in ClerkEnds(ck) : e.to \in from})
    /\ UNCHANGED <<ends, clerks, side, cut>>

-----------------------------------------------------------------------------
(* Servers. *)

Proceeds(i, from, to) ==
    /\ phase[i] = from /\ phase' = [phase EXCEPT ![i] = to]
    /\ UNCHANGED <<down, calls, clerks, durable, switches, side, cut, late>>

\* Mutant: the ends of the server itself are left alone.
IsolateIncoming(i) ==
    /\ Unlocked /\ instances[i] < MaxInstances
    /\ Proceeds(i, "up", "isolated")
    /\ enabled' = enabled \ {e \in Between({i}, All) : e.to = i}
    /\ UNCHANGED <<ends, servers, instances, owner>>

\* ShutdownServer: the server's ends and those that lead to it are disabled, ...
Isolate(i) ==
    /\ Unlocked /\ instances[i] < MaxInstances
    /\ Proceeds(i, "up", "isolated")
    /\ enabled' = Disconnected(enabled, {i}, All)
    /\ UNCHANGED <<ends, servers, instances, owner>>

\* ... no more calls reach it, ...
Unregister(i) ==
    /\ Proceeds(i, "isolated", "deleted")
    /\ DeleteServer(i)
    /\ UNCHANGED <<ends, enabled, instances, owner>>

\* ... and then its persister is replaced by a copy.
CopyPersister(i) ==
    /\ Proceeds(i, "deleted", "down")
    /\ owner' = [owner EXCEPT ![i] = 0]
    /\ UNCHANGED <<ends, enabled, servers, instances>>

\* StartServer: fresh ends, which are disabled, and the copy; the new instance
\* runs, ...
StartServer(i) ==
    /\ Unlocked
    /\ Proceeds(i, "down", "starting")
    /\ instances' = [instances EXCEPT ![i] = @ + 1]
    /\ owner' = [owner EXCEPT ![i] = instances'[i]]
    /\ MakeEnds(Endnames(i)')
    /\ UNCHANGED <<enabled, servers>>

\* ... and is registered.
Register(i) ==
    /\ Proceeds(i, "starting", "up")
    /\ AddServer(i, instances[i])
    /\ UNCHANGED <<ends, enabled, instances, owner>>

Cleanup ==
    /\ Unlocked /\ ~down /\ down' = TRUE
    /\ UNCHANGED <<ends, enabled, servers, calls, config, durable, late>>

Next ==
    \/ \E i \in CallId : MakeCall(i) \/ Process(i) \/ Execute(i)
    \/ ConnectAll \/ Repartition \/ PartitionLeader
    \/ \E ck \in Clerk, to \in Lists :
           MakeClient(ck, to) \/ ConnectClient(ck, to) \/ DisconnectClient(ck, to)
    \/ \E ck \in Clerk : DeleteClient(ck)
    \/ \E i \in Victims :
           Isolate(i) \/ Unregister(i) \/ CopyPersister(i) \/ StartServer(i) \/ Register(i)
    \/ Cleanup

\* The network's goroutines run.  Nothing is assumed of handlers: they may hang.
Spec == Init /\ [][Next]_vars /\ \A i \in CallId : WF_vars(Process(i))

-----------------------------------------------------------------------------
(* Properties. *)

\* "to avoid situation in which a client gets a positive reply to an Append, but
\* the server persisted the update into the old Persister": what processReq
\* reports as done is in the persister that the next instance starts from.
PositiveIsDurable == \A i \in CallId : answer[i] => i \in durable

\* What an instance sends after ShutdownServer has isolated it is never handled
\* by anyone, also when its successor is started and connected: the successor
\* has ends of its own.
SupersededIsSilent == \A i \in late : handler[i] = "none"

\* After partition, a request of one side is not taken to a server of the other
\* side, until the servers are connected again.
SidesAreApart ==
    [][\A i \in CallId :
          /\ step[i] = "sent" /\ step'[i] = "read"
          /\ end[i].of \in All
          => (end[i].of \in side <=> end[i].to \in side)]_vars

\* "put current leader in minority": the leader that make_partition was made
\* for reaches no majority, not even when it is restarted.
LeaderIsCutOff ==
    cut # NoServer => 2 * Cardinality(Endnames(cut) \cap enabled) < N

\* A handler that hangs does not hold its caller once the server is gone.
HangingHandlerIsLeft ==
    \A i \in CallId :
        step[i] = "executing" /\ IsServerDead(i) ~>
            step[i] = "returned" \/ ~IsServerDead(i)
=============================================================================
