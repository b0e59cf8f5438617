-------------------------- MODULE GoroutineProofs ---------------------------
(***************************************************************************)
(* Proofs about the goroutines of one peer: the order of delivery in       *)
(* module Applier, for any length of the log and any number of crashes,    *)
(* and the timers of module Ticker.                                        *)
(***************************************************************************)
EXTENDS Applier, Ticker, TLAPS

-----------------------------------------------------------------------------
(* The applier. *)


\* Why the applier's slice stays inside the log.  While a batch is on its way
\* the service may discard entries above lastApplied, but only ones that it has
\* been given, and these end where lastApplied will be when the batch is done.
DeliveryInv ==
    /\ TypeOK
    /\ first <= applied /\ applied <= commitIndex /\ commitIndex <= last
    /\ lastApplied <= applied
    /\ applier # "sending" => lastApplied = applied
    /\ applier = "sending" =>
           /\ next <= end + 1 /\ end <= commitIndex
           /\ \/ lastApplied < end /\ applied = next - 1
              \/ lastApplied >= end /\ applied = lastApplied /\ next <= applied + 1

LEMMA InitDelivery == Init => DeliveryInv
  BY DEF Init, DeliveryInv, TypeOK

LEMMA NextDelivery == DeliveryInv /\ [Next]_vars => DeliveryInv'
<1> SUFFICES ASSUME DeliveryInv, [Next]_vars PROVE DeliveryInv'
  OBVIOUS
<1> USE BoundAssumption DEF DeliveryInv, TypeOK
<1>1. CASE Replicate
  BY <1>1 DEF Replicate, Signal
<1>2. CASE InstallSnapshot
  BY <1>2 DEF InstallSnapshot, log
<1>3. CASE Wait
  BY <1>3 DEF Wait, log
<1>4. CASE TakeBatch
  BY <1>4 DEF TakeBatch, log
<1>5. CASE DeliverCommand
  BY <1>5 DEF DeliverCommand, Larger, log
<1>6. CASE FinishBatch
  BY <1>6 DEF FinishBatch, Larger, log
<1>7. CASE Snapshot
  BY <1>7 DEF Snapshot
<1>8. CASE CondInstallSnapshot
  BY <1>8 DEF CondInstallSnapshot, Larger, log
<1>9. CASE Restart
  BY <1>9 DEF Restart, log
<1>10. CASE UNCHANGED vars
  BY <1>10 DEF vars
<1> QED
  BY <1>1, <1>2, <1>3, <1>4, <1>5, <1>6, <1>7, <1>8, <1>9, <1>10 DEF Next

\* The applier never slices rf.logs out of range, whatever Snapshot and
\* CondInstallSnapshot discard while it sends a batch.
THEOREM SliceStaysInRange == Spec => []SliceInRange
<1>1. DeliveryInv => SliceInRange
  BY DEF DeliveryInv, TypeOK, SliceInRange
<1> QED
  BY <1>1, InitDelivery, NextDelivery, PTL DEF Spec

\* The applier never passes over an entry.
THEOREM NothingIsSkipped == Spec => []NothingSkipped
<1>1. DeliveryInv => NothingSkipped
  BY DEF DeliveryInv, TypeOK, NothingSkipped, Upcoming
<1> QED
  BY <1>1, InitDelivery, NextDelivery, PTL DEF Spec

-----------------------------------------------------------------------------
(* The ticker: no order of Stop, Reset and late ticks silences a peer. *)

TickerInv == TTypeOK /\ NeverSilent

LEMMA InitTicker == TInit => TickerInv
  BY DEF TInit, TickerInv, TTypeOK, NeverSilent, Live, Timer

\* One step of the ticker, of a timer or of a handler leaves a live timer.
LEMMA NextTicker == TickerInv /\ [TNext]_timers => TickerInv'
<1> SUFFICES ASSUME TickerInv, [TNext]_timers PROVE TickerInv'
  OBVIOUS
<1> USE DEF TickerInv, TTypeOK, NeverSilent, Live, Timer, Reset, Stop
<1>1. ASSUME NEW t \in Timer, Fire(t) PROVE TickerInv'
  BY <1>1 DEF Fire
<1>2. ASSUME NEW t \in Timer, Receive(t) PROVE TickerInv'
  BY <1>2 DEF Receive
<1>3. CASE ElectionTick
  BY <1>3 DEF ElectionTick, TimersAfter
<1>4. CASE HeartbeatTick
  BY <1>4 DEF HeartbeatTick
<1>5. CASE Win
  BY <1>5, Zenon DEF Win, TimersAfter
<1>6. CASE StepDown
  BY <1>6, Zenon DEF StepDown, TimersAfter
<1>7. CASE Hear
  BY <1>7, Zenon DEF Hear, TimersAfter
<1>8. CASE UNCHANGED timers
  BY <1>8 DEF timers
<1> QED
  BY <1>1, <1>2, <1>3, <1>4, <1>5, <1>6, <1>7, <1>8 DEF TNext

\* A follower or candidate always has an election timeout ahead of it, and a
\* leader a heartbeat (ChangeState, ticker).
THEOREM NoPeerFallsSilent == TSpec => []NeverSilent
<1>1. TickerInv => NeverSilent
  BY DEF TickerInv
<1> QED
  BY <1>1, InitTicker, NextTicker, PTL DEF TSpec
=============================================================================
