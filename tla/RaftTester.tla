----------------------------- MODULE RaftTester -----------------------------
(***************************************************************************)
(* The tester of src/src/raft/config.go, which decides whether Raft passes *)
(* its tests: it crashes, restarts, connects and disconnects servers,      *)
(* keeps a copy of what each has applied, and raises an alarm when the     *)
(* copies disagree, an entry comes out of order, a term has two leaders or *)
(* agreement is not reached.  A crashed Raft cannot be stopped: its        *)
(* goroutines, and the tester's that reads its applyCh, run on beside      *)
(* those of the instance that replaces it.                                 *)
(*                                                                         *)
(* Raft itself is what the tester sees of it: every instance sends the     *)
(* commands of one agreed log in batches and in order, from its snapshot   *)
(* on, and servers lead terms.  It may also fail, a bounded number of      *)
(* times, for that is what the tester is there to find.                    *)
(***************************************************************************)
EXTENDS Integers, Sequences, FiniteSets, FiniteSetsExt, Functions

CONSTANTS
    N,                  \* servers 1 .. N
    Chosen,             \* the agreed log, a sequence of commands
    Command,
    SnapShotInterval,
    Expected,           \* the numbers of servers that one and wait are called with
    Victims,            \* the servers that the test crashes, connects and disconnects
    MaxStarts,          \* bound: instances, of all servers
    MaxCalls,           \* bound: calls of the tester by the test
    MaxWrong,           \* bound: failures of Raft
    MaxTerm             \* bound

VARIABLES
    test,           \* "applier", "applierSnap" or "leaders": what the test is about
    connected, rafts, saved, logs, lastApplied,     \* fields of config
    names,          \* endnames[i] are those made for instance names[i]
    enabled,        \* ends <<i, g, j>> from instance g of i to j that are enabled
    owner,          \* owner[i]: the instance whose persister is saved[i], 0 if none
    starts,         \* number of instances so far; an instance is its number
    calls,
    raft,           \* raft[g]: instance g, as far as applyCh goes
    reader,         \* reader[g]: the goroutine that reads its applyCh
    leads, term,    \* the term that a server leads (0: none), its term
    led,            \* the terms that have had a leader
    thread,         \* what the test's own goroutine is doing
    alarm,          \* why the test failed, or "none"
    wrong,          \* number of failures of Raft
    excuses         \* history: "stale" or "overtaken", see AlarmsAreReal

Server == 1 .. N
Instance == 1 .. MaxStarts
MaxIndex == Len(Chosen)

net == <<connected, names, enabled>>
copies == <<saved, owner, logs, lastApplied>>
terms == <<leads, term, led>>
vars == <<test, net, rafts, copies, starts, calls, raft, reader, terms, thread, alarm, wrong, excuses>>

NoSnapshot == [index |-> 0, log |-> <<>>]
Idle == [op |-> "idle"]
Unborn == [server |-> 0, status |-> "unborn", next |-> 1, end |-> 0, done |-> 0]
Waiting == [at |-> "receive", index |-> 0, command |-> 0, err |-> "none"]

\* log.Fatalf ends the process, t.Fatalf the test.
Running == alarm = "none"

Init ==
    /\ test \in {"applier", "applierSnap", "leaders"}
    /\ connected = [i \in Server |-> TRUE]
    /\ names = [i \in Server |-> i] /\ rafts = [i \in Server |-> i]
    /\ enabled = {<<i, i, j>> : i, j \in Server}
    /\ saved = [i \in Server |-> NoSnapshot] /\ owner = [i \in Server |-> i]
    /\ logs = [i \in Server |-> <<>>] /\ lastApplied = [i \in Server |-> 0]
    /\ starts = N /\ calls = 0
    /\ raft = [g \in Instance |->
                  IF g <= N THEN [Unborn EXCEPT !.server = g, !.status = "running"] ELSE Unborn]
    /\ reader = [g \in Instance |-> Waiting]
    /\ leads = [i \in Server |-> 0] /\ term = [i \in Server |-> 0] /\ led = {}
    /\ thread = Idle /\ alarm = "none" /\ wrong = 0 /\ excuses = {}

-----------------------------------------------------------------------------
(* Raft, as the tester sees it. *)

raftOnly == <<test, net, rafts, copies, starts, calls, thread, alarm>>

\* The applier copies what is committed.  One that was past its check for
\* killed() when Kill was called does so once more.
TakeBatch(g) ==
    /\ Running /\ test # "leaders" /\ raft[g].status \in {"running", "killed"}
    /\ raft[g].next > raft[g].end
    /\ \E k \in raft[g].done + 1 .. MaxIndex :
        raft' = [raft EXCEPT ![g].next = raft[g].done + 1, ![g].end = k, ![g].done = k,
                             ![g].status = IF @ = "killed" THEN "stopped" ELSE @]
    /\ UNCHANGED <<raftOnly, reader, terms, wrong, excuses>>

\* A server takes office in a later term, which has had no leader, or has.
Elect(i) ==
    /\ Running /\ test = "leaders" /\ rafts[i] # 0
    /\ \E t \in term[i] + 1 .. MaxTerm :
        /\ t \in led => wrong < MaxWrong
        /\ wrong' = IF t \in led THEN wrong + 1 ELSE wrong
        /\ leads' = [leads EXCEPT ![i] = t] /\ term' = [term EXCEPT ![i] = t]
        /\ led' = led \cup {t}
    /\ UNCHANGED <<raftOnly, raft, reader, excuses>>

\* A server hears of a later term, or is a candidate in one.
StepDown(i) ==
    /\ Running /\ test = "leaders" /\ rafts[i] # 0
    /\ \E t \in term[i] + 1 .. MaxTerm : term' = [term EXCEPT ![i] = t]
    /\ leads' = [leads EXCEPT ![i] = 0]
    /\ UNCHANGED <<raftOnly, led, raft, reader, wrong, excuses>>

Raft == (\E g \in Instance : TakeBatch(g)) \/ (\E i \in Server : Elect(i) \/ StepDown(i))

-----------------------------------------------------------------------------
(* The goroutines that read applyCh. *)

\* Instance g of server i has been replaced.
Stale(g) == names[raft[g].server] # g

readersOnly == <<test, net, rafts, starts, calls, terms, thread>>

\* The goroutine of a crashed instance is at work on lastApplied and the copy.
Muddles(g) == IF test = "applierSnap" /\ Stale(g) THEN {"stale"} ELSE {}

\* An entry comes through applyCh: the agreed one, or not.  applierSnap compares
\* its index with lastApplied, without the lock.
Receive(g) ==
    /\ Running /\ reader[g].at = "receive" /\ raft[g].next <= raft[g].end
    /\ raft' = [raft EXCEPT ![g].next = @ + 1]
    /\ LET index == raft[g].next
           inOrder == test = "applierSnap" => index = lastApplied[raft[g].server] + 1
       IN  \E c \in Command :
            /\ c # Chosen[index] => wrong < MaxWrong
            /\ wrong' = IF c # Chosen[index] THEN wrong + 1 ELSE wrong
            /\ reader' = [reader EXCEPT ![g] =
                   [at |-> IF inOrder THEN "log" ELSE "apply", index |-> index, command |-> c,
                    err |-> IF inOrder THEN "none" ELSE "order"]]
    /\ excuses' = excuses \cup Muddles(g)
    /\ UNCHANGED <<readersOnly, copies, alarm>>

\* Mutant: the entry is only compared with the server's own copy.
DiffersFromOwn(i, index, command) ==
    index \in DOMAIN logs[i] /\ logs[i][index] # command

\* Some server has already committed a different value for this entry.
Differs(i, index, command) ==
    \E j \in Server : index \in DOMAIN logs[j] /\ logs[j][index] # command

\* checkLogs, with the checks that applier and applierSnap make of its result.
CheckLogs(g) ==
    LET i == raft[g].server
        m == reader[g]
        err == IF m.index > 1 /\ m.index - 1 \notin DOMAIN logs[i] THEN "order"
               ELSE IF Differs(i, m.index, m.command) THEN "mismatch"
               ELSE "none"
    IN  /\ Running /\ m.at = "log"
        /\ logs' = [logs EXCEPT ![i] =
               [k \in DOMAIN @ \cup {m.index} |-> IF k = m.index THEN m.command ELSE @[k]]]
        /\ \/ /\ test = "applier"
              /\ alarm' = err
              /\ reader' = [reader EXCEPT ![g] = Waiting]
           \/ /\ test = "applierSnap"
              /\ reader' = [reader EXCEPT ![g].at = "apply", ![g].err = err]
              /\ UNCHANGED alarm
        /\ excuses' = excuses \cup Muddles(g)
        /\ UNCHANGED <<readersOnly, saved, owner, lastApplied, raft, wrong>>

\* Mutant: the instances of a server share one persister.
SharesPersister(g) == TRUE

\* crash1 and start1 copy the persister: what an old instance saves goes into one
\* that nobody reads.
OwnsPersister(g) == owner[raft[g].server] = g

\* The copy up to index; an entry that is not there is nil (0 here).
Xlog(i, index) == [k \in 0 .. index |-> IF k \in DOMAIN logs[i] THEN logs[i][k] ELSE 0]

\* lastApplied; every SnapShotInterval entries rf.Snapshot, which ignores an
\* older one and saves to the persister of the instance; then the error, if
\* there is one.  The lock is released in between, but only a goroutine that
\* has been replaced shares lastApplied[i] and logs[i] with another.
Apply(g) ==
    LET i == raft[g].server
        m == reader[g]
    IN  /\ Running /\ m.at = "apply"
        /\ lastApplied' = [lastApplied EXCEPT ![i] = m.index]
        /\ saved' = IF (m.index + 1) % SnapShotInterval = 0 /\ OwnsPersister(g) /\ m.index > saved[i].index
                    THEN [saved EXCEPT ![i] = [index |-> m.index, log |-> Xlog(i, m.index)]]
                    ELSE saved
        /\ alarm' = m.err
        /\ reader' = [reader EXCEPT ![g] = Waiting]
        /\ excuses' = excuses \cup Muddles(g)
        /\ UNCHANGED <<readersOnly, owner, logs, raft, wrong>>

\* A snapshot of another server comes through applyCh, and CondInstallSnapshot
\* accepts it: ingestSnap replaces the copy.  What the applier has taken from
\* the log before is still to come.  CondInstallSnapshot compares with
\* commitIndex, which is at least what the applier has taken.  The errors of
\* ingestSnap are about snapshots that no server makes.
InstallSnapshot(g) ==
    LET i == raft[g].server IN
    /\ Running /\ test = "applierSnap" /\ raft[g].status # "unborn" /\ reader[g].at = "receive"
    /\ \E j \in Server \ {i} :
        /\ saved[j].index > raft[g].done
        /\ logs' = [logs EXCEPT ![i] = saved[j].log]
        /\ lastApplied' = [lastApplied EXCEPT ![i] = saved[j].index]
        /\ saved' = IF OwnsPersister(g) THEN [saved EXCEPT ![i] = saved[j]] ELSE saved
        /\ raft' = [raft EXCEPT ![g].done = saved[j].index]
    /\ excuses' = excuses \cup Muddles(g) \cup (IF raft[g].next <= raft[g].end THEN {"overtaken"} ELSE {})
    /\ UNCHANGED <<readersOnly, owner, reader, alarm, wrong>>

Readers ==
    \E g \in Instance : Receive(g) \/ CheckLogs(g) \/ Apply(g) \/ InstallSnapshot(g)

-----------------------------------------------------------------------------
(* The test's goroutine: crash1, start1, connect, disconnect. *)

\* The test calls the tester.
Called == Running /\ thread.op \in {"idle", "returned"} /\ calls < MaxCalls /\ calls' = calls + 1

Detached(i) == {e \in enabled : e # <<i, names[i], e[3]>> /\ (e[3] = i => e[2] # names[e[1]])}

\* crash1 disconnects the server; start1 begins with a crash1.
Crash(i, again) ==
    /\ Called /\ (again => starts < MaxStarts)
    /\ thread' = [op |-> "copy", server |-> i, again |-> again]
    /\ connected' = [connected EXCEPT ![i] = FALSE]
    /\ enabled' = Detached(i)
    /\ UNCHANGED <<test, names, rafts, copies, starts, raft, reader, terms, alarm, wrong, excuses>>

\* From here on the old instance writes to a persister that nobody reads.
Copy ==
    /\ Running /\ thread.op = "copy"
    /\ owner' = [owner EXCEPT ![thread.server] = 0]
    /\ thread' = [thread EXCEPT !.op = "kill"]
    /\ UNCHANGED <<test, net, rafts, saved, logs, lastApplied, starts, calls, raft, reader, terms, alarm, wrong, excuses>>

Kill ==
    /\ Running /\ thread.op = "kill"
    /\ LET i == thread.server IN
       /\ raft' = IF rafts[i] = 0 THEN raft ELSE [raft EXCEPT ![rafts[i]].status = "killed"]
       /\ rafts' = [rafts EXCEPT ![i] = 0] /\ leads' = [leads EXCEPT ![i] = 0]
    /\ thread' = IF thread.again THEN [thread EXCEPT !.op = "reset"] ELSE Idle
    /\ UNCHANGED <<test, net, copies, starts, calls, reader, term, led, alarm, wrong, excuses>>

\* Mutant: the new instance is given the ends of the old one.
FreshNamesKept(i) == UNCHANGED names

FreshNames(i) == names' = [names EXCEPT ![i] = starts + 1]

\* Mutant: only the copy goes back.
RewindLogs(i) ==
    /\ logs' = IF saved[i].index > 0 THEN [logs EXCEPT ![i] = saved[i].log] ELSE logs
    /\ UNCHANGED lastApplied

\* lastApplied[i] = 0, or what ingestSnap makes of the snapshot.
Rewind(i) ==
    /\ lastApplied' = [lastApplied EXCEPT ![i] = saved[i].index]
    /\ logs' = IF saved[i].index > 0 THEN [logs EXCEPT ![i] = saved[i].log] ELSE logs

\* start1: fresh ends, and the copy goes back to the snapshot.
Reset ==
    /\ Running /\ thread.op = "reset"
    /\ FreshNames(thread.server) /\ Rewind(thread.server)
    /\ thread' = [thread EXCEPT !.op = "make"]
    /\ UNCHANGED <<test, connected, enabled, rafts, saved, owner, starts, calls, raft, reader, terms, alarm, wrong, excuses>>

\* Make, and the new goroutine.
Make ==
    /\ Running /\ thread.op = "make"
    /\ starts' = starts + 1
    /\ LET i == thread.server
           k == saved[i].index
       IN  /\ raft' = [raft EXCEPT ![starts'] =
                  [server |-> i, status |-> "running", next |-> k + 1, end |-> k, done |-> k]]
           /\ rafts' = [rafts EXCEPT ![i] = starts'] /\ owner' = [owner EXCEPT ![i] = starts']
    /\ thread' = Idle
    /\ UNCHANGED <<test, net, saved, logs, lastApplied, calls, reader, terms, alarm, wrong, excuses>>

Switch ==
    /\ Called /\ thread' = Idle
    /\ UNCHANGED <<test, names, rafts, copies, starts, raft, reader, terms, alarm, wrong, excuses>>

\* Tests connect a server that is running.
Connect(i) ==
    /\ rafts[i] # 0
    /\ connected' = [connected EXCEPT ![i] = TRUE]
    /\ enabled' = enabled \cup UNION {{<<i, names[i], j>>, <<j, names[j], i>>} :
                                         j \in {j \in Server : connected'[j]}}
    /\ Switch

Disconnect(i) ==
    /\ connected' = [connected EXCEPT ![i] = FALSE]
    /\ enabled' = Detached(i)
    /\ Switch

-----------------------------------------------------------------------------
(* The test's goroutine: nCommitted, one and wait. *)

asking == <<test, net, rafts, copies, starts, raft, reader, terms, wrong, excuses>>
queryOnly == <<asking, calls>>

Poll == [server |-> 1, count |-> 0, cmd |-> 0]

\* one(command, expected): a connected server claims to be the leader and gives
\* the command an index, which may be one that others have filled already.
One(command, expected) ==
    /\ Called /\ test # "leaders"
    /\ \E i \in Server : connected[i] /\ rafts[i] # 0
    /\ \E index \in 1 .. MaxIndex :
        thread' = [op |-> "one", index |-> index, command |-> command, expected |-> expected, poll |-> Poll]
    /\ UNCHANGED <<asking, alarm>>

\* wait(index, expected, startTerm).
Wait(index, expected) ==
    /\ Called /\ test # "leaders"
    /\ thread' = [op |-> "wait", index |-> index, expected |-> expected, final |-> FALSE, poll |-> Poll]
    /\ UNCHANGED <<asking, alarm>>

Polling == thread.op \in {"one", "wait"} /\ thread.poll.server <= N
Polled == thread.op \in {"one", "wait"} /\ thread.poll.server > N

\* nCommitted looks at one server after the other, and lets go of the lock.
NCommitted ==
    /\ Running /\ Polling
    /\ LET p == thread.poll
           held == thread.index \in DOMAIN logs[p.server]
           cmd1 == logs[p.server][thread.index]
       IN  /\ thread' = [thread EXCEPT !.poll =
                  [server |-> p.server + 1,
                   count |-> IF held THEN p.count + 1 ELSE p.count,
                   cmd |-> IF held THEN cmd1 ELSE p.cmd]]
           /\ alarm' = IF held /\ p.count > 0 /\ p.cmd # cmd1 THEN "values" ELSE alarm
    /\ UNCHANGED queryOnly

Enough == thread.poll.count >= thread.expected

\* Mutant: any command at the index will do.
OneSatisfiedByAny == thread.poll.count > 0 /\ Enough

OneSatisfied == thread.poll.count > 0 /\ Enough /\ thread.poll.cmd = thread.command

Returned(index, command) == [op |-> "returned", index |-> index, command |-> command]

OneReturns ==
    /\ Running /\ Polled /\ thread.op = "one" /\ OneSatisfied
    /\ thread' = Returned(thread.index, thread.command)
    /\ UNCHANGED <<queryOnly, alarm>>

\* Look again; or submit the command again; or time is up.
OneGoesOn ==
    /\ Running /\ Polled /\ thread.op = "one" /\ ~OneSatisfied
    /\ \/ thread' = [thread EXCEPT !.poll = Poll] /\ UNCHANGED alarm
       \/ thread' = Idle /\ alarm' \in {"none", "agreement"}
    /\ UNCHANGED queryOnly

\* Enough, or 30 rounds: look once more.  Or someone has moved on to a new term.
WaitGoesOn ==
    /\ Running /\ Polled /\ thread.op = "wait" /\ ~thread.final
    /\ \/ thread' = [thread EXCEPT !.poll = Poll, !.final = TRUE]
       \/ ~Enough /\ thread' \in {[thread EXCEPT !.poll = Poll], Idle}
    /\ UNCHANGED <<queryOnly, alarm>>

WaitReturns ==
    /\ Running /\ Polled /\ thread.op = "wait" /\ thread.final
    /\ \/ Enough /\ thread' = Returned(thread.index, thread.poll.cmd) /\ UNCHANGED alarm
       \/ ~Enough /\ thread' = Idle /\ alarm' = "agreement"
    /\ UNCHANGED queryOnly

-----------------------------------------------------------------------------
(* The test's goroutine: checkOneLeader, checkTerms and checkNoLeader. *)

Scan == [server |-> 1, leaders |-> {}, terms |-> {}]

\* What connected servers lead, for LeaderIsNewest.
Leading == {<<leads[i], i>> : i \in {i \in Server : connected[i] /\ leads[i] > 0}}

BeginScan(op) ==
    /\ Called /\ test = "leaders"
    /\ thread' = [op |-> op, scan |-> Scan, before |-> Leading]
    /\ UNCHANGED <<asking, alarm>>

Scanning == thread.op \in {"oneLeader", "terms", "noLeader"}

\* GetState of one connected server after the other.
GetState ==
    /\ Running /\ Scanning /\ thread.scan.server <= N
    /\ LET i == thread.scan.server IN
       thread' = [thread EXCEPT !.scan =
           [server |-> i + 1,
            leaders |-> IF connected[i] /\ leads[i] > 0 THEN @.leaders \cup {<<leads[i], i>>} ELSE @.leaders,
            terms |-> IF connected[i] THEN @.terms \cup {term[i]} ELSE @.terms]]
    /\ UNCHANGED <<queryOnly, alarm>>

\* Mutant: the leader of the first term that was seen.
LastTermIsFirst(ls) == Min({l[1] : l \in ls})

LastTermWithLeader(ls) == Max({l[1] : l \in ls})

CheckOneLeader ==
    /\ Running /\ thread.op = "oneLeader" /\ thread.scan.server > N
    /\ LET ls == thread.scan.leaders IN
       \/ /\ \E l, k \in ls : l # k /\ l[1] = k[1]
          /\ alarm' = "leaders" /\ thread' = Idle
       \/ /\ ls # {} /\ \A l, k \in ls : l[1] = k[1] => l = k
          /\ \E l \in ls :
                /\ l[1] = LastTermWithLeader(ls)
                /\ thread' = [op |-> "returned", leader |-> l, before |-> thread.before]
          /\ UNCHANGED alarm
       \/ ls = {} /\ thread' = [thread EXCEPT !.scan = Scan, !.before = Leading] /\ UNCHANGED alarm
       \/ ls = {} /\ alarm' = "no leader" /\ thread' = Idle
    /\ UNCHANGED queryOnly

CheckTerms ==
    /\ Running /\ thread.op = "terms" /\ thread.scan.server > N
    /\ alarm' = IF Cardinality(thread.scan.terms) > 1 THEN "terms" ELSE alarm
    /\ thread' = Idle
    /\ UNCHANGED queryOnly

CheckNoLeader ==
    /\ Running /\ thread.op = "noLeader" /\ thread.scan.server > N
    /\ alarm' = IF thread.scan.leaders # {} THEN "a leader" ELSE alarm
    /\ thread' = Idle
    /\ UNCHANGED queryOnly

Harness ==
    \/ \E i \in Victims : (\E again \in BOOLEAN : Crash(i, again)) \/ Connect(i) \/ Disconnect(i)
    \/ Copy \/ Kill \/ Reset \/ Make

Queries ==
    \/ \E n \in Expected : (\E c \in Command : One(c, n)) \/ \E index \in 1 .. MaxIndex : Wait(index, n)
    \/ NCommitted \/ OneReturns \/ OneGoesOn \/ WaitGoesOn \/ WaitReturns
    \/ \E op \in {"oneLeader", "terms", "noLeader"} : BeginScan(op)
    \/ GetState \/ CheckOneLeader \/ CheckTerms \/ CheckNoLeader

Next == Raft \/ Readers \/ Harness \/ Queries

Spec == Init /\ [][Next]_vars

-----------------------------------------------------------------------------
(* Properties. *)

\* The fields of config have their types; an instance that was not killed is the
\* one that is registered for its server, and saved is its persister.
TypeOK ==
    /\ connected \in [Server -> BOOLEAN] /\ rafts \in [Server -> 0 .. starts]
    /\ \A i \in Server : rafts[i] # 0 => raft[rafts[i]].server = i /\ owner[i] \in {0, rafts[i]}
    /\ \A g \in Instance : raft[g].status = "running" => rafts[raft[g].server] = g
    /\ lastApplied \in [Server -> 0 .. MaxIndex] /\ owner \in [Server -> 0 .. starts]
    /\ \A i \in Server : DOMAIN logs[i] \subseteq 0 .. MaxIndex /\ saved[i].index \in 0 .. MaxIndex
    /\ starts <= MaxStarts /\ wrong \in 0 .. MaxWrong /\ excuses \subseteq {"stale", "overtaken"}

\* A goroutine that reads the applyCh of a crashed instance has touched what the
\* tester keeps of the instance that replaced it.  With applierSnap this breaks
\* the tester: nothing below is claimed from there on.  With applier it does no
\* harm.
Muddled == "stale" \in excuses

\* The tester does not cry wolf.  That values do not match, or that a term has
\* two leaders, is reported only of a Raft that failed, although the copies are
\* read one by one and, with applier, goroutines of crashed instances still
\* write to them.  That entries are out of order is reported only by
\* applierSnap, when a snapshot overtook entries.
AlarmsAreReal ==
    ~Muddled => /\ alarm \in {"mismatch", "values", "leaders"} => wrong > 0
                /\ alarm = "order" => test = "applierSnap" /\ "overtaken" \in excuses

\* Nothing escapes the tester: as soon as two copies hold different commands at
\* an index, some goroutine is about to report it, through restarts and
\* snapshots that replace the copies.
DisagreementIsReported ==
    /\ ~Muddled
    /\ \E i, j \in Server : \E k \in DOMAIN logs[i] \cap DOMAIN logs[j] : logs[i][k] # logs[j][k]
    => alarm # "none" \/ \E g \in Instance : reader[g].err # "none"

\* "a fresh persister, so old instance doesn't overwrite new instance's persisted
\* state": what a server restarts from is never ahead of what its present
\* instance has been through, although the goroutines of crashed ones take
\* snapshots of the copy that they share with it; and it is the agreed log up to
\* the snapshot's index, without a gap.
SavedIsOwn ==
    /\ \A i \in Server : rafts[i] # 0 => saved[i].index <= raft[rafts[i]].done
    /\ ~Muddled /\ wrong = 0 =>
           \A i \in Server : \A k \in 1 .. saved[i].index : saved[i].log[k] = Chosen[k]

\* "so that old crashed instance's ClientEnds can't send": the ends that are
\* enabled are those of the present instances of two servers that are connected.
EndsAreCurrent ==
    enabled = {<<i, rafts[i], j>> : i, j \in {i \in Server : connected[i]}}

\* What config keeps of instances, persisters and ends belongs together.
ConfigInv == TypeOK /\ EndsAreCurrent

\* one() and wait() report agreement only on what was agreed, even when the
\* command was overtaken at its index by another, and although entries are
\* applied and snapshots replace copies between two looks.
OneIsAgreed ==
    ~Muddled /\ wrong = 0 /\ thread.op = "returned" /\ test # "leaders" =>
        Chosen[thread.index] = thread.command

\* checkOneLeader, which asks one server after the other, returns a leader at
\* least as new as any that led a connected server when it began to ask and
\* still does.
LeaderIsNewest ==
    thread.op = "returned" /\ test = "leaders" =>
        \A l \in thread.before : leads[l[2]] = l[1] => thread.leader[1] >= l[1]
=============================================================================
