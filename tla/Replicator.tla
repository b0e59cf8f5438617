----------------------------- MODULE Replicator -----------------------------
(***************************************************************************)
(* How entries get from a peer, whenever it is the leader, to one other    *)
(* peer: the replicator goroutine with its condition variable, which Start *)
(* signals, and the rounds that the heartbeat timer of module Ticker       *)
(* starts.  Nothing but Make and replies sets matchIndex and nextIndex, so *)
(* a leader begins with what an earlier term of office has left.           *)
(*                                                                         *)
(* The logs are the ends of them: where they end, and how far the other    *)
(* one agrees with this one.  Their terms are left out, so what the        *)
(* leader finds in its log for a conflict is any index it could find.      *)
(* The service takes no snapshots: the first index is 0 and every round is *)
(* an AppendEntries.  InstallSnapshot, the terms of the entries and        *)
(* commitIndex are in CatchUp.                                             *)
(***************************************************************************)
EXTENDS Ticker, Integers, FiniteSets

CONSTANTS
    MaxIndex,    \* bound: length of the logs
    MaxCalls     \* bound: rounds of heartbeats in flight

ASSUME BoundAssumption == {MaxIndex, MaxCalls} \subseteq Nat

VARIABLES
    lastIndex,   \* rf.getLastLog().Index
    nextIndex, matchIndex,   \* rf.nextIndex[peer], rf.matchIndex[peer]
    peer,        \* the other peer, from its first round of this term on
    replicator,  \* where the goroutine is
    spawned,     \* a goroutine of BroadcastHeartbeat waits for rf.mu
    calls,       \* rounds of heartbeats of this term in flight
    call         \* the replicator's own

indices == <<lastIndex, nextIndex, matchIndex>>
rounds == <<replicator, spawned, calls, call>>
allvars == <<timers, indices, peer, rounds>>

\* The other peer has not heard of this term yet.
Unheard == [term |-> "earlier", last |-> 0, agree |-> 0]

\* A call whose reply will not be looked at.
Ignored == [prev |-> 0, last |-> 0, reply |-> "ignored"]

RInit ==
    /\ TInit
    /\ lastIndex = 0 /\ nextIndex = 1 /\ matchIndex = 0 /\ peer = Unheard
    /\ replicator = "checking" /\ spawned = FALSE /\ calls = {} /\ call = Ignored

-----------------------------------------------------------------------------
(* The ticker's actions, with what they do to replication. *)

\* Mutant: heartbeats only signal the replicator (isHeartbeat = false).
SignalAll(isHeartbeat) ==
    /\ replicator' = IF replicator = "waiting" THEN "checking" ELSE replicator
    /\ UNCHANGED spawned

\* BroadcastHeartbeat: a goroutine per peer, or a signal to its replicator.
\* Signal is lost on a replicator that is not in Wait yet.
BroadcastHeartbeat(isHeartbeat) ==
    IF isHeartbeat
    THEN spawned' = TRUE /\ UNCHANGED replicator
    ELSE /\ replicator' = IF replicator = "waiting" THEN "checking" ELSE replicator
         /\ UNCHANGED spawned

Clock ==
    /\ \E t \in Timer : Fire(t) \/ Receive(t)
    /\ UNCHANGED <<indices, peer, rounds>>

Beat ==
    /\ HeartbeatTick
    /\ IF state = "Leader" THEN BroadcastHeartbeat(TRUE) ELSE UNCHANGED <<replicator, spawned>>
    /\ UNCHANGED <<indices, peer, calls, call>>

\* Replies to rounds of a term that is over are ignored.
Forget == calls' = {} /\ call' = Ignored /\ peer' = Unheard

Elect == ElectionTick /\ Forget /\ UNCHANGED <<indices, replicator, spawned>>

TakeOffice ==
    /\ Win
    /\ BroadcastHeartbeat(TRUE)
    /\ UNCHANGED <<indices, peer, calls, call>>

\* The log is another leader's then: it may cut it, or extend it.
LoseOffice ==
    /\ \/ StepDown /\ UNCHANGED lastIndex
       \/ Hear /\ lastIndex' \in 0 .. MaxIndex
    /\ Forget
    /\ UNCHANGED <<nextIndex, matchIndex, replicator, spawned>>

\* The process ends, and is started again: Make, with the log that was saved.
Restart ==
    /\ state' = "Follower" /\ ticker' = "select"
    /\ armed' = [t \in Timer |-> TRUE] /\ tick' = [t \in Timer |-> FALSE]
    /\ nextIndex' = lastIndex + 1 /\ matchIndex' = 0
    /\ replicator' = "checking" /\ spawned' = FALSE
    /\ Forget
    /\ UNCHANGED lastIndex

-----------------------------------------------------------------------------
(* Start, the replicator and the rounds. *)

Start ==
    /\ state = "Leader" /\ lastIndex < MaxIndex
    /\ lastIndex' = lastIndex + 1
    /\ BroadcastHeartbeat(FALSE)
    /\ UNCHANGED <<timers, nextIndex, matchIndex, peer, calls, call>>

\* needReplicating, under rf.mu; Wait comes after it is released.
NeedReplicating ==
    /\ replicator = "checking"
    /\ replicator' = IF state = "Leader" /\ matchIndex < lastIndex THEN "sending" ELSE "idle"
    /\ UNCHANGED <<timers, indices, peer, spawned, calls, call>>

Wait ==
    /\ replicator = "idle"
    /\ replicator' = "waiting"
    /\ UNCHANGED <<timers, indices, peer, spawned, calls, call>>

\* genAppendEntriesArgs slices the log after prevLogIndex, which must be in it.
PrevInLog == nextIndex - 1 <= lastIndex

Request == [prev |-> nextIndex - 1, last |-> lastIndex, reply |-> "none"]

\* replicateOnceRound of the replicator, up to the call.
ReplicatorRound ==
    /\ replicator = "sending"
    /\ \/ /\ state = "Leader" /\ PrevInLog
          /\ replicator' = "calling" /\ call' = Request
       \/ state # "Leader" /\ replicator' = "checking" /\ UNCHANGED call
    /\ UNCHANGED <<timers, indices, peer, spawned, calls>>

\* replicateOnceRound of a heartbeat's goroutine, up to the call.
HeartbeatRound ==
    /\ spawned /\ spawned' = FALSE
    /\ \/ /\ state = "Leader" /\ PrevInLog /\ Cardinality(calls) < MaxCalls
          /\ calls' = calls \cup {Request}
       \/ state # "Leader" /\ UNCHANGED calls
    /\ UNCHANGED <<timers, indices, peer, replicator, call>>

\* Either of them panics.
Panic ==
    /\ spawned \/ replicator = "sending"
    /\ state = "Leader" /\ ~PrevInLog
    /\ Restart

-----------------------------------------------------------------------------
(* The other peer. *)

\* The other peer p takes a round of this term, and answers.  Where it has entries
\* after the last one that agrees, they are of other terms.  Of the arguments
\* and the reply, only what the leader will look at is kept: ConflictIndex is
\* p.last + 1 for a short log, and prevLogIndex + 1 for a conflict.
Answer(p, c) ==
    CASE p.term = "later" -> [Ignored EXCEPT !.reply = "later"]
      [] p.term = "this" /\ c.prev <= p.agree -> [Ignored EXCEPT !.reply = "success", !.last = c.last]
      [] p.term = "this" /\ c.prev > p.last -> [Ignored EXCEPT !.reply = "short", !.last = p.last]
      [] OTHER -> [Ignored EXCEPT !.reply = "conflict", !.prev = c.prev]

\* Its log then: the entries replace what does not agree with them.
Merged(p, c) ==
    IF Answer(p, c).reply = "success" /\ c.last > p.agree
    THEN [p EXCEPT !.agree = c.last, !.last = c.last] ELSE p

\* The other peer when a round arrives: the logs that it may have when it first
\* hears of this term; or it has heard of a later one since, as a voter, a
\* candidate or a follower.
Heard ==
    {[Unheard EXCEPT !.term = "later"]} \cup
        (CASE peer.term = "earlier" ->
                {p \in [term : {"this"}, last : 0 .. MaxIndex, agree : 0 .. lastIndex] : p.agree <= p.last}
           [] peer.term = "this" -> {peer}
           [] peer.term = "later" -> {})

\* AppendEntries, for a round of a heartbeat and for one of the replicator.
HeartbeatArrives ==
    /\ \E p \in Heard, c \in calls :
        /\ c.reply = "none"
        /\ calls' = (calls \ {c}) \cup {Answer(p, c)}
        /\ peer' = Merged(p, c)
    /\ UNCHANGED <<timers, indices, replicator, spawned, call>>

ReplicatorArrives ==
    /\ call.reply = "none"
    /\ \E p \in Heard : call' = Answer(p, call) /\ peer' = Merged(p, call)
    /\ UNCHANGED <<timers, indices, replicator, spawned, calls>>

-----------------------------------------------------------------------------
(* The replies. *)

\* What replicateOnceRound makes of a reply, in the term it was sent in: after
\* a conflict it goes on from the last entry of the term of prevLogIndex
\* before it, if there is one.
Take(c) ==
    \/ /\ c.reply = "success"
       /\ matchIndex' = c.last /\ nextIndex' = c.last + 1
       /\ UNCHANGED timers
    \/ /\ c.reply = "short"
       /\ nextIndex' = c.last + 1
       /\ UNCHANGED <<timers, matchIndex>>
    \/ /\ c.reply = "conflict"
       /\ nextIndex' \in {c.prev + 1} \cup 1 .. c.prev - 1
       /\ UNCHANGED <<timers, matchIndex>>
    \/ /\ c.reply = "later"
       /\ StepDown
       /\ UNCHANGED <<nextIndex, matchIndex>>

HeartbeatReply ==
    /\ \E c \in calls :
        /\ Take(c)
        /\ IF c.reply = "later" THEN Forget
           ELSE calls' = calls \ {c} /\ UNCHANGED <<peer, call>>
    /\ UNCHANGED <<lastIndex, replicator, spawned>>

ReplicatorReply ==
    /\ replicator = "calling" /\ replicator' = "checking"
    /\ IF call.reply = "ignored" THEN UNCHANGED <<timers, nextIndex, matchIndex>> ELSE Take(call)
    /\ IF call.reply = "later" THEN Forget ELSE call' = Ignored /\ UNCHANGED <<peer, calls>>
    /\ UNCHANGED <<lastIndex, spawned>>

\* A call that fails, before or after it has arrived: the heartbeat's goroutine
\* ends, the replicator goes on.
Lose ==
    /\ \/ /\ \E c \in calls : calls' = calls \ {c}
          /\ UNCHANGED <<replicator, call>>
       \/ /\ replicator = "calling" /\ replicator' = "checking"
          /\ call' = Ignored
          /\ UNCHANGED calls
    /\ UNCHANGED <<timers, indices, peer, spawned>>

RNext ==
    \/ Clock \/ Beat \/ Elect \/ TakeOffice \/ LoseOffice \/ Restart
    \/ Start \/ NeedReplicating \/ Wait \/ ReplicatorRound \/ HeartbeatRound \/ Panic
    \/ HeartbeatArrives \/ ReplicatorArrives \/ HeartbeatReply \/ ReplicatorReply \/ Lose

\* Goroutines are scheduled, and the network loses any number of calls and replies
\* but not all of them.
RFairness ==
    /\ WF_allvars(Fire("heartbeat") /\ UNCHANGED <<indices, peer, rounds>>)
    /\ SF_allvars(Receive("heartbeat") /\ UNCHANGED <<indices, peer, rounds>>)
    /\ WF_allvars(Elect) /\ WF_allvars(Beat)
    /\ WF_allvars(NeedReplicating \/ Wait \/ ReplicatorRound \/ ReplicatorReply)
    /\ WF_allvars(HeartbeatRound \/ Panic)
    /\ SF_allvars(HeartbeatArrives) /\ SF_allvars(HeartbeatReply)

RSpec == RInit /\ [][RNext]_allvars /\ RFairness

-----------------------------------------------------------------------------
(* Properties. *)

\* The other peer has an entry that contradicts this peer's log.
Conflicts == peer.agree < peer.last

\* Whatever a leader has in its log reaches the other peer while it stays in
\* office, unless that has entries that contradict it: although signals to the
\* replicator and calls are lost, replies overtake each other, and nextIndex and
\* matchIndex are left over from an earlier term, so that the replicator may see
\* nothing to do and the first rounds are rejected.  Heartbeats carry entries
\* too.  (With a contradicting entry it need not: CatchesUp of module CatchUp.)
\* Start adds no entries past MaxIndex, so the other peer gets to the end.
EntriesArrive == []<>(state # "Leader" \/ Conflicts \/ peer.agree >= lastIndex)
=============================================================================
