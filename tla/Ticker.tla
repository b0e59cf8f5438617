------------------------------- MODULE Ticker -------------------------------
(***************************************************************************)
(* The two timers of one peer, the ticker goroutine that waits for them,   *)
(* and the critical sections of rf.mu that start and stop them.            *)
(*                                                                         *)
(* A Go timer sends one tick into a channel of capacity one.  Stop and     *)
(* Reset do not take back a tick that is already there (go.mod: go 1.15),  *)
(* and a tick the ticker has taken waits for rf.mu.  Terms are left out:   *)
(* the timers depend on the state alone.                                   *)
(***************************************************************************)
VARIABLES
    state,
    armed,    \* armed[t]: timer t is running
    tick,     \* tick[t]: there is a tick in the channel of timer t
    ticker    \* the case of select that the ticker is in, "select" if none

timers == <<state, armed, tick, ticker>>

Timer == {"election", "heartbeat"}

TTypeOK ==
    /\ state \in {"Follower", "Candidate", "Leader"}
    /\ armed \in [Timer -> BOOLEAN] /\ tick \in [Timer -> BOOLEAN]
    /\ ticker \in Timer \cup {"select"}

TInit ==
    /\ state = "Follower"
    /\ armed = [t \in Timer |-> TRUE] /\ tick = [t \in Timer |-> FALSE]
    /\ ticker = "select"

Reset(a, t) == [a EXCEPT ![t] = TRUE]
Stop(a, t) == [a EXCEPT ![t] = FALSE]

\* Mutant: a leader that is deposed leaves its election timer stopped.
TimersKept(a, from, to) ==
    CASE from = to -> a
      [] from # to /\ to = "Follower" -> Stop(a, "heartbeat")
      [] from # to /\ to = "Candidate" -> a
      [] from # to /\ to = "Leader" -> Reset(Stop(a, "election"), "heartbeat")

\* What ChangeState does to the timers.
TimersAfter(a, from, to) ==
    CASE from = to -> a
      [] from # to /\ to = "Follower" -> Stop(Reset(a, "election"), "heartbeat")
      [] from # to /\ to = "Candidate" -> a
      [] from # to /\ to = "Leader" -> Reset(Stop(a, "election"), "heartbeat")

-----------------------------------------------------------------------------
(* The runtime's timers, and the ticker. *)

Fire(t) ==
    /\ armed[t]
    /\ armed' = Stop(armed, t)
    /\ tick' = [tick EXCEPT ![t] = TRUE]
    /\ UNCHANGED <<state, ticker>>

\* select: the ticker receives from one of the channels.
Receive(t) ==
    /\ ticker = "select" /\ tick[t]
    /\ ticker' = t
    /\ tick' = [tick EXCEPT ![t] = FALSE]
    /\ UNCHANGED <<state, armed>>

\* case electionTimer.C, under rf.mu.  The state is not looked at.
ElectionTick ==
    /\ ticker = "election"
    /\ state' = "Candidate"
    /\ armed' = Reset(TimersAfter(armed, state, "Candidate"), "election")
    /\ ticker' = "select"
    /\ UNCHANGED tick

\* Mutant: the heartbeat timer is not started again.
HeartbeatTickOnce ==
    /\ ticker = "heartbeat"
    /\ ticker' = "select"
    /\ UNCHANGED <<state, armed, tick>>

\* case heartbeatTimer.C, under rf.mu.
HeartbeatTick ==
    /\ ticker = "heartbeat"
    /\ armed' = IF state = "Leader" THEN Reset(armed, "heartbeat") ELSE armed
    /\ ticker' = "select"
    /\ UNCHANGED <<state, tick>>

-----------------------------------------------------------------------------
(* Other critical sections. *)

\* A vote reply makes a candidate the leader.
Win ==
    /\ state = "Candidate"
    /\ state' = "Leader"
    /\ armed' = TimersAfter(armed, state, "Leader")
    /\ UNCHANGED <<tick, ticker>>

\* A reply with a higher term (StartElection, replicateOnceRound), or a vote
\* request with a higher term that is not granted.
StepDown ==
    /\ state' = "Follower"
    /\ armed' = TimersAfter(armed, state, "Follower")
    /\ UNCHANGED <<tick, ticker>>

\* AppendEntries or InstallSnapshot of a leader, or a vote that is granted.
Hear ==
    /\ state' = "Follower"
    /\ armed' = Reset(TimersAfter(armed, state, "Follower"), "election")
    /\ UNCHANGED <<tick, ticker>>

TNext ==
    \/ \E t \in Timer : Fire(t) \/ Receive(t)
    \/ ElectionTick \/ HeartbeatTick
    \/ Win \/ StepDown \/ Hear

\* The heartbeat timer runs down and the ticker is scheduled; select does not
\* pass over a channel for ever.  Nothing is assumed of the election timer, which
\* a follower that hears from its leader resets before it runs down.
TFairness ==
    /\ WF_timers(Fire("heartbeat")) /\ SF_timers(Receive("heartbeat"))
    /\ WF_timers(ElectionTick) /\ WF_timers(HeartbeatTick)

TSpec == TInit /\ [][TNext]_timers /\ TFairness

-----------------------------------------------------------------------------
(* Properties. *)

\* A timer will still do its work: it runs, or its tick is on the way.
Live(t) == armed[t] \/ tick[t] \/ ticker = t

\* A peer that is not the leader always has an election timeout ahead of it, and
\* a leader a heartbeat: no order of Stop, Reset and late ticks silences a peer.
NeverSilent == IF state = "Leader" THEN Live("heartbeat") ELSE Live("election")

\* Leaders keep sending heartbeats, as long as they are leaders.
HeartbeatsGoOn == []<>(state # "Leader" \/ ticker = "heartbeat")
=============================================================================
