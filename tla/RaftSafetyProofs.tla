-------------------------- MODULE RaftSafetyProofs --------------------------
(***************************************************************************)
(* State machine safety: as long as no leader trusts a matchIndex left     *)
(* over from an earlier term of office, logs match, leaders have all that  *)
(* is committed, and no two peers commit different entries at an index.    *)
(* For any number of peers, entries, crashes and messages.                 *)
(*                                                                         *)
(* The argument needs the past: which peer led a term, what it wrote, and  *)
(* who acknowledged it in that term.  None of this is in the state of the  *)
(* cluster, so the inductive invariant says that some history h explains   *)
(* the state.  A step of the cluster comes with a step of the history.     *)
(***************************************************************************)
EXTENDS RaftElectionProofs, RaftReplicationProofs, RaftPromise, FiniteSetTheorems

\* The leaves that name no prover are for the SMT solver.
USE SMTT(30)

LEMMA QuorumsMeet ==
    ASSUME NEW Q \in SUBSET Server, NEW R \in SUBSET Server, Majority(Q), Majority(R)
    PROVE  \E p \in Server : p \in Q /\ p \in R
<1>1. Cardinality(Server) \in Nat /\ Cardinality(Q) \in Nat /\ Cardinality(R) \in Nat
  BY ServerAssumption, FS_Subset, FS_CardinalityType, Zenon
<1>2. Cardinality(Q) + Cardinality(R) > Cardinality(Server)
  BY <1>1 DEF Majority
<1> QED
  BY <1>2, ServerAssumption, FS_MajoritiesIntersect, Zenon

LEMMA SmallestExists ==
    ASSUME NEW S \in SUBSET Nat, S # {}
    PROVE  \E x \in S : \A y \in S : x =< y
<1>1. \A a, b \in Nat : <<a, b>> \in OpToRel(<, Nat) <=> a < b
  BY Zenon DEF OpToRel
<1>2. PICK x \in S : \A y \in S : ~(<<y, x>> \in OpToRel(<, Nat))
  BY NatLessThanWellFounded, WFMin, Zenon
<1>3. \A y \in S : ~(y < x)
  BY <1>1, <1>2, Zenon
<1> QED
  BY <1>3

\* The index that advanceCommitIndexForLeader picks is one that a majority of
\* the peers has reached.
LEMMA MajorityMatchFacts ==
    ASSUME NEW match \in [Server -> Nat], NEW n \in Nat, \A p \in Server : match[p] =< n
    PROVE  /\ MajorityMatch(match) \in Nat
           /\ \E Q \in SUBSET Server : Majority(Q) /\ \A p \in Q : match[p] >= MajorityMatch(match)
<1> DEFINE V == {match[p] : p \in Server}
           Reach(k) == {p \in Server : match[p] >= k}
           S == {k \in V : 2 * Cardinality(Reach(k)) > Cardinality(Server)}
<1>1. PICK x \in V : \A y \in V : x =< y
  <2>1. V \in SUBSET Nat /\ V # {}
    BY ServerAssumption, Zenon
  <2> HIDE DEF V
  <2> QED
    BY <2>1, SmallestExists, Zenon
<1>2. Reach(x) = Server
  BY <1>1, Zenon
<1>3. Cardinality(Server) \in Nat \ {0}
  <2>1. Cardinality(Server) \in Nat /\ Cardinality(Server) # 0
    BY ServerAssumption, FS_CardinalityType, FS_EmptySet, Zenon
  <2> QED
    BY <2>1, Zenon
<1>4. x \in S
  <2>1. 2 * Cardinality(Server) > Cardinality(Server)
    BY <1>3
  <2> QED
    BY <1>2, <2>1, Zenon
<1>5. S \in SUBSET (0 .. n)
  OBVIOUS
<1>6. Max(S) \in S
  <2> HIDE DEF S
  <2> QED
    BY <1>4, <1>5, MaxIsElement, Zenon
<1>7. MajorityMatch(match) = Max(S)
  BY Zenon DEF MajorityMatch
<1> DEFINE k == Max(S)
<1>8. k \in Nat /\ 2 * Cardinality(Reach(k)) > Cardinality(Server)
  <2>1. k \in S
    BY <1>6, Zenon
  <2> HIDE DEF k
  <2> QED
    BY <1>5, <2>1, Zenon
<1> HIDE DEF k
<1>9. Reach(k) \in SUBSET Server /\ Majority(Reach(k)) /\ \A p \in Reach(k) : match[p] >= k
  BY <1>8, Zenon DEF Majority
<1> QED
  BY <1>7, <1>8, <1>9, Zenon DEF k

\* Two leaders of a term would share a voter.
LEMMA MajorityVotesOnce == ElectionInv => ElectionSafety
<1> SUFFICES ASSUME ElectionInv, NEW s \in Server, NEW t \in Server,
                    state[s] = "Leader", state[t] = "Leader", currentTerm[s] = currentTerm[t]
             PROVE  s = t
  BY Zenon DEF ElectionSafety
<1>1. TypeOK /\ ClaimInv
  BY Zenon DEF ElectionInv, DurableInv
<1>2. votes[s] \subseteq Server /\ votes[t] \subseteq Server /\ currentTerm[s] \in Nat
  BY <1>1, ZenonT(30) DEF TypeOK
<1>3. Majority(votes[s]) /\ Majority(votes[t])
  BY <1>1, Zenon DEF ClaimInv, Majority
<1>4. PICK p \in Server : p \in votes[s] /\ p \in votes[t]
  BY <1>2, <1>3, QuorumsMeet, Zenon
<1>5. Claim(p, s, currentTerm[s]) /\ Claim(p, t, currentTerm[s])
  BY <1>4, ZenonT(30) DEF Claim
<1> QED
  BY <1>1, <1>2, <1>5, ZenonT(30) DEF ClaimInv

-----------------------------------------------------------------------------
(* All steps together. *)

\* No step moves the dummy entry of a log without snapshot.
LEMMA OneLogKeepsDummy ==
    ASSUME TypeOK, DummyInv, NEW s \in Server, NEW l, logs' = Set(logs, s, l),
           l.base = 0 => l.terms[1] = 0
    PROVE  DummyInv'
BY Zenon DEF TypeOK, DummyInv, Set

LEMMA NextDummy ==
    ASSUME DurableInv, DummyInv, [Next]_vars
    PROVE  DummyInv'
<1>0. TypeOK
  BY Zenon DEF DurableInv
<1>1. CASE UNCHANGED logs
  BY <1>1, Zenon DEF DummyInv
<1>2. ASSUME NEW s \in Server, Start(s) PROVE DummyInv'
  <2> DEFINE l == [base |-> logs[s].base, terms |-> Append(logs[s].terms, currentTerm[s])]
  <2>1. logs[s] \in Log /\ currentTerm[s] \in Nat /\ logs' = Set(logs, s, l)
    BY <1>0, <1>2, ZenonT(30) DEF Start, TypeOK
  <2>2. /\ logs[s].terms \in Seq(Nat) /\ Len(logs[s].terms) \in Nat \ {0}
    BY <2>1, LogFacts, Zenon
  <2>3. 1 \in 1 .. Len(logs[s].terms)
    BY <2>2
  <2>4. Append(logs[s].terms, currentTerm[s])[1] = logs[s].terms[1]
    BY <2>1, <2>2, <2>3
  <2>5. l.base = 0 => l.terms[1] = 0
    BY <2>4, Zenon DEF DummyInv
  <2> HIDE DEF l
  <2> QED
    BY <1>0, <2>1, <2>5, OneLogKeepsDummy, ZenonT(30)
<1>3. ASSUME NEW s \in Server, NEW m \in net, AppendEntries(s, m) PROVE DummyInv'
  <2>1. CASE AppendAccepted(s, m)
    <3> DEFINE l == Merge(logs[s], m.prevLogIndex, m.entries)
    <3>1. m \in AppendEntriesArgs /\ logs[s] \in Log
      BY <1>0, <1>3, MessageKind, ZenonT(30) DEF TypeOK, AppendEntries
    <3>2. /\ logs' = Set(logs, s, l) /\ m.entries \in Seq(Nat)
          /\ m.prevLogIndex \in logs[s].base .. LastIndex(logs[s])
      BY <2>1, <3>1, ZenonT(30) DEF AppendAccepted, IsLogMatched, AppendEntriesArgs
    <3>3. l.base = logs[s].base /\ l.terms[1] = logs[s].terms[1]
      BY <3>1, <3>2, MergeKeepsFirst, Zenon
    <3>4. l.base = 0 => l.terms[1] = 0
      BY <3>3, Zenon DEF DummyInv
    <3> HIDE DEF l
    <3> QED
      BY <1>0, <3>2, <3>4, OneLogKeepsDummy, Zenon
  <2>2. CASE ~AppendAccepted(s, m)
    BY <1>1, <1>3, <2>2, ZenonT(30) DEF AppendEntries, AppendRejected, persistent
  <2> QED
    BY <2>1, <2>2, Zenon
<1>4. ASSUME NEW s \in Server, NEW i \in 1 .. MaxSnapshot, Snapshot(s, i) PROVE DummyInv'
  <2> DEFINE l == Compact(logs[s], i, TermAt(logs[s], i))
  <2>1. logs' = Set(logs, s, l) /\ l.base = i
    BY <1>4, ZenonT(30) DEF Snapshot, Compact
  <2>2. l.base # 0
    BY <2>1, BoundAssumption
  <2> HIDE DEF l
  <2> QED
    BY <1>0, <2>1, <2>2, OneLogKeepsDummy, ZenonT(30)
<1>5. ASSUME NEW s \in Server, NEW snap \in applyCh[s], CondInstallSnapshot(s, snap)
      PROVE  DummyInv'
  <2>1. CASE UNCHANGED logs
    BY <1>1, <2>1, Zenon
  <2>2. CASE /\ snap.index > commitIndex[s]
             /\ logs' = Set(logs, s, Compact(logs[s], snap.index, snap.term))
    <3> DEFINE l == Compact(logs[s], snap.index, snap.term)
    <3>1. l.base = snap.index
      BY Zenon DEF Compact
    <3>2. snap.index \in Nat /\ commitIndex[s] \in Nat
      BY <1>0, SnapFields, Zenon DEF TypeOK
    <3>3. l.base # 0
      BY <2>2, <3>1, <3>2
    <3>4. logs' = Set(logs, s, l)
      BY <2>2, Zenon
    <3> HIDE DEF l
    <3> QED
      BY <1>0, <3>3, <3>4, OneLogKeepsDummy, Zenon
  <2> QED
    BY <1>5, <2>1, <2>2, Zenon DEF CondInstallSnapshot
<1>6. ASSUME NEW s \in Server,
             Restart(s) \/ RestartInElection(s) \/ \E m \in net : RestartInRPC(s, m)
      PROVE  DummyInv'
  BY <1>1, <1>6, CrashLogs, ZenonT(30)
<1>7. ASSUME NEW s \in Server, NEW m \in net,
             \/ RequestVote(s, m) \/ HandleRequestVoteReply(s, m)
             \/ HandleAppendEntriesReply(s, m) \/ InstallSnapshot(s, m)
             \/ HandleInstallSnapshotReply(s, m)
      PROVE  DummyInv'
  <2>1. UNCHANGED logs
    BY <1>7, ZenonT(30) DEF RequestVote, HandleRequestVoteReply, StepDown,
                HandleAppendEntriesReply, InstallSnapshot, HandleInstallSnapshotReply, persistent
  <2> QED
    BY <1>1, <2>1, Zenon
<1>8. ASSUME NEW s \in Server, ElectionTimeout(s) PROVE DummyInv'
  BY <1>1, <1>8, Zenon DEF ElectionTimeout
<1>9. ASSUME NEW s \in Server, NEW p \in Server, ReplicateOnceRound(s, p) PROVE DummyInv'
  BY <1>1, <1>9, ZenonT(30) DEF ReplicateOnceRound, persistent
<1>10. ASSUME NEW m \in net, Lose(m) PROVE DummyInv'
  BY <1>1, <1>10, Zenon DEF Lose, persistent
<1>11. CASE UNCHANGED vars
  BY <1>1, <1>11, Zenon DEF vars
<1> QED
  BY <1>2, <1>3, <1>4, <1>5, <1>6, <1>7, <1>8, <1>9, <1>10, <1>11, ZenonT(30) DEF Next

\* Every step of the cluster is a safe step of some history.
LEMMA NextSafeStep ==
    ASSUME NEW h, StepContext(h), [Next]_vars, ~staleMatch'
    PROVE  \E g : SafeStep(h, g)
<1>1. ASSUME NEW s \in Server, ElectionTimeout(s) PROVE \E g : SafeStep(h, g)
  BY <1>1, ElectionTimeoutSafe, Zenon
<1>2. ASSUME NEW s \in Server, NEW m \in net, RequestVote(s, m) PROVE \E g : SafeStep(h, g)
  BY <1>2, RequestVoteSafe, Zenon
<1>3. ASSUME NEW s \in Server, NEW m \in net, HandleRequestVoteReply(s, m)
      PROVE  \E g : SafeStep(h, g)
  BY <1>3, HandleRequestVoteReplySafe, Zenon
<1>4. ASSUME NEW s \in Server, Start(s) PROVE \E g : SafeStep(h, g)
  BY <1>4, StartSafe, ZenonT(30)
<1>5. ASSUME NEW s \in Server, NEW p \in Server, ReplicateOnceRound(s, p)
      PROVE  \E g : SafeStep(h, g)
  BY <1>5, ReplicateOnceRoundSafe, Zenon
<1>6. ASSUME NEW s \in Server, NEW m \in net, AppendEntries(s, m)
      PROVE  \E g : SafeStep(h, g)
  BY <1>6, AppendEntriesSafe, ZenonT(30)
<1>7. ASSUME NEW s \in Server, NEW m \in net, HandleAppendEntriesReply(s, m)
      PROVE  \E g : SafeStep(h, g)
  BY <1>7, HandleAppendEntriesReplySafe, Zenon
<1>8. ASSUME NEW s \in Server, NEW i \in 1 .. MaxSnapshot, Snapshot(s, i)
      PROVE  \E g : SafeStep(h, g)
  <2>1. i \in Nat
    BY BoundAssumption
  <2> QED
    BY <1>8, <2>1, SnapshotSafe, Zenon
<1>9. ASSUME NEW s \in Server, NEW m \in net, InstallSnapshot(s, m)
      PROVE  \E g : SafeStep(h, g)
  BY <1>9, InstallSnapshotSafe, Zenon
<1>10. ASSUME NEW s \in Server, NEW m \in net, HandleInstallSnapshotReply(s, m)
       PROVE  \E g : SafeStep(h, g)
  BY <1>10, HandleInstallSnapshotReplySafe, Zenon
<1>11. ASSUME NEW s \in Server, NEW snap \in applyCh[s], CondInstallSnapshot(s, snap)
       PROVE  \E g : SafeStep(h, g)
  BY <1>11, CondInstallSnapshotSafe, Zenon
<1>12. ASSUME NEW s \in Server,
              Restart(s) \/ RestartInElection(s) \/ \E m \in net : RestartInRPC(s, m)
       PROVE  \E g : SafeStep(h, g)
  BY <1>12, CrashSafe, Zenon
<1>13. ASSUME NEW m \in net, Lose(m) PROVE \E g : SafeStep(h, g)
  BY <1>13, LoseSafe, ZenonT(30)
<1>14. CASE UNCHANGED vars
  BY <1>14, StutterSafe, Zenon
<1> QED
  BY <1>1, <1>2, <1>3, <1>4, <1>5, <1>6, <1>7, <1>8, <1>9, <1>10, <1>11, <1>12, <1>13,
     <1>14, Zenon DEF Next

LEMMA InitHistory == \E h : Lineage(h) /\ h.led = {} /\ \A T \in Nat, p \in Server : h.acked[T][p] = 0
<1>1. PICK s : s \in Server
  BY ServerAssumption, Zenon
<1> DEFINE h == [led |-> {}, leader |-> [T \in Nat |-> s], voters |-> [T \in Nat |-> {}],
                 log |-> [T \in Nat |-> [k \in Nat |-> 0]], len |-> [T \in Nat |-> 0],
                 acked |-> [T \in Nat |-> [p \in Server |-> 0]]]
<1>2. h \in History
  BY <1>1, Zenon DEF History
<1>3. /\ \A T \in Nat : h.len[T] = 0
      /\ \A T \in Nat, p \in Server : h.acked[T][p] = 0
      /\ h.led = {}
  BY Zenon
<1> HIDE DEF h
<1>4. Lineage(h)
  BY <1>2, <1>3 DEF Lineage
<1> QED
  BY <1>3, <1>4, Zenon

LEMMA InitSafe == Init => SafetyInv
<1> SUFFICES ASSUME Init PROVE SafetyInv
  BY Zenon
<1>1. ElectionInv
  BY InitElection, Zenon
<1>2. DummyInv
  BY Zenon DEF Init, DummyInv, EmptyLog
<1>3. LogShape
  BY <1>1, <1>2, EntryFacts, Zenon DEF ElectionInv
<1>4. PICK h : Lineage(h) /\ h.led = {} /\ \A T \in Nat, p \in Server : h.acked[T][p] = 0
  BY InitHistory, Zenon
<1>5. \A T, i : ~Created(h, T, i)
  BY <1>4, Zenon DEF Created
<1>6. \A T, i : ~Chosen(h, T, i) /\ ~Choosable(h, T, i)
  BY <1>5, Zenon DEF Chosen, Choosable
<1>7. /\ \A s \in Server : state[s] = "Follower" /\ commitIndex[s] = 0 /\ applyCh[s] = {}
      /\ \A s \in Server : Last(s) = 0
      /\ net = {}
  <2>1. LastIndex(EmptyLog) = 0
    <3>1. Len(<<0>>) = 1
      BY Zenon
    <3> QED
      BY <3>1 DEF LastIndex, EmptyLog
  <2> QED
    BY <2>1, Zenon DEF Init, Last
<1>8. HistoryInv(h)
  BY <1>4 DEF HistoryInv
<1>9. VoterInv(h) /\ LeaderInv(h) /\ PeerInv(h)
  BY <1>4, <1>7 DEF VoterInv, LeaderInv, PeerInv, PeerLog
<1>10. CommitInv(h)
  BY <1>7 DEF CommitInv, PeerDecided
<1>11. ChoiceInv(h) /\ AckInv(h) /\ BallotInv(h)
  BY <1>6, Zenon DEF ChoiceInv, AckInv, BallotInv
<1>12. MessageInv(h) /\ ApplyInv(h)
  BY <1>7, Zenon DEF MessageInv, ApplyInv
<1>13. Explains(h)
  BY <1>8, <1>9, <1>10, <1>11, <1>12, Zenon DEF Explains
<1> QED
  BY <1>1, <1>2, <1>13, Zenon DEF SafetyInv

\* A leader that once trusted a used matchIndex is not forgotten.
LEMMA StaleMatchStays ==
    ASSUME [Next]_vars, staleMatch
    PROVE  staleMatch'
<1>1. UNCHANGED staleMatch \/ \E s \in Server, m \in net : HandleRequestVoteReply(s, m)
  BY Zenon DEF Next, vars, ElectionTimeout, RequestVote, Start, ReplicateOnceRound, AppendEntries,
         HandleAppendEntriesReply, Snapshot, InstallSnapshot, HandleInstallSnapshotReply,
         CondInstallSnapshot, Restart, RestartInElection, RestartInRPC, Make, Lose
<1> QED
  BY <1>1, Zenon DEF HandleRequestVoteReply

LEMMA NextContext ==
    ASSUME NEW h, ElectionInv, DummyInv, Explains(h), [Next]_vars
    PROVE  StepContext(h)
<1>1. DurableInv /\ ElectionInv' /\ DurableInv'
  BY NextElection, Zenon DEF ElectionInv
<1>2. VoteSafeStep /\ DummyInv'
  BY <1>1, NextVotes, NextDummy, Zenon
<1>3. LogShape /\ LogShape'
  BY <1>1, <1>2, EntryFacts, EntryFactsNext, Zenon
<1>4. MajoritiesMeet /\ MajorityReached
  BY QuorumsMeet, MajorityMatchFacts, Zenon DEF MajoritiesMeet, MajorityReached
<1> QED
  BY <1>1, <1>2, <1>3, <1>4, Zenon DEF StepContext

\* Every step preserves the invariant.
LEMMA NextSafe == SafetyInv /\ [Next]_vars => SafetyInv'
<1> SUFFICES ASSUME SafetyInv, [Next]_vars PROVE SafetyInv'
  BY Zenon
<1>1. ElectionInv /\ DummyInv /\ ElectionInv' /\ DurableInv
  BY NextElection, Zenon DEF SafetyInv, ElectionInv
<1>2. DummyInv'
  BY <1>1, NextDummy, Zenon
<1>3. ASSUME ~staleMatch' PROVE (\E h : Explains(h))'
  <2>1. ~staleMatch
    BY <1>3, StaleMatchStays, Zenon
  <2>2. PICK h : Explains(h)
    BY <2>1, Zenon DEF SafetyInv
  <2>3. StepContext(h)
    BY <1>1, <2>2, NextContext, Zenon
  <2>4. PICK g : SafeStep(h, g)
    BY <1>3, <2>3, NextSafeStep, ZenonT(30)
  <2>5. Explains(g)'
    BY <2>3, <2>4, SafeStepExplained, Zenon DEF StepContext
  <2> QED
    BY <2>5, Zenon
<1> QED
  BY <1>1, <1>2, <1>3, ZenonT(30) DEF SafetyInv

-----------------------------------------------------------------------------
(* What the invariant says of the logs. *)

LEMMA LogsShareHistory ==
    ASSUME NEW h, Explains(h), LogShape
    PROVE  \A s, t \in Server : \A i \in (logs[s].base + 2) .. LastIndex(logs[s]) :
               /\ i > logs[t].base + 1 /\ i =< LastIndex(logs[t])
               /\ TermAt(logs[s], i) = TermAt(logs[t], i)
               => TermAt(logs[s], i - 1) = TermAt(logs[t], i - 1)
<1> SUFFICES ASSUME NEW s \in Server, NEW t \in Server,
                    NEW i \in (logs[s].base + 2) .. Last(s),
                    i > logs[t].base + 1, i =< Last(t),
                    TermAt(logs[s], i) = TermAt(logs[t], i)
             PROVE  TermAt(logs[s], i - 1) = TermAt(logs[t], i - 1)
  BY Zenon DEF Last
<1>1. Lineage(h) /\ PeerInv(h) /\ h \in History
  BY Zenon DEF Explains, HistoryInv, Lineage
<1>2. /\ logs[s].base \in Nat /\ Last(s) \in Nat /\ logs[t].base \in Nat /\ Last(t) \in Nat
      /\ TopTerm(s) \in Nat /\ TopTerm(t) \in Nat
  BY Zenon DEF LogShape
<1>3. /\ i \in Nat /\ i - 1 \in 1 .. i /\ Last(s) > 0 /\ Last(t) > 0
      /\ i \in (logs[s].base + 1) .. Last(s) /\ i - 1 \in (logs[s].base + 1) .. Last(s)
      /\ i \in (logs[t].base + 1) .. Last(t) /\ i - 1 \in (logs[t].base + 1) .. Last(t)
      /\ i \in logs[s].base .. Last(s) /\ i - 1 \in logs[s].base .. Last(s)
      /\ i \in logs[t].base .. Last(t) /\ i - 1 \in logs[t].base .. Last(t)
  BY <1>2
<1>4. /\ TermAt(logs[s], i) = Entry(s, i) /\ TermAt(logs[s], i - 1) = Entry(s, i - 1)
      /\ TermAt(logs[t], i) = Entry(t, i) /\ TermAt(logs[t], i - 1) = Entry(t, i - 1)
  BY <1>3, ZenonT(30) DEF LogShape
<1>5. PICK T \in Nat : T = TopTerm(s)
  BY <1>2, Zenon
<1>6. PICK U \in Nat : U = TopTerm(t)
  BY <1>2, ZenonT(30)
<1>7. /\ Last(s) =< h.len[T] /\ Entry(s, i) = h.log[T][i] /\ Entry(s, i - 1) = h.log[T][i - 1]
  BY <1>1, <1>3, <1>5 DEF PeerInv, PeerLog, Created
<1>8. /\ Last(t) =< h.len[U] /\ Entry(t, i) = h.log[U][i] /\ Entry(t, i - 1) = h.log[U][i - 1]
  BY <1>1, <1>3, <1>6 DEF PeerInv, PeerLog, Created
<1>9. i \in 1 .. h.len[T] /\ i =< h.len[U]
  <2>1. h.len[T] \in Nat /\ h.len[U] \in Nat
    BY <1>1, HistoryFacts, Zenon
  <2> QED
    BY <1>2, <1>3, <1>7, <1>8, <2>1
<1>10. h.log[T][i] = h.log[U][i]
  BY <1>4, <1>7, <1>8, ZenonT(30)
<1>11. h.log[T][i - 1] = h.log[U][i - 1]
  BY <1>1, <1>3, <1>9, <1>10, SharedPast
<1> QED
  BY <1>4, <1>7, <1>8, <1>11, Zenon

LEMMA LeaderHasCommits ==
    ASSUME NEW h, Explains(h), LogShape, NEW s \in Server, NEW t \in Server,
           state[s] = "Leader", currentTerm[t] =< currentTerm[s]
    PROVE  /\ commitIndex[t] =< Last(s)
           /\ \A i \in 1 .. commitIndex[t] : FullLog(s)[i] = FullLog(t)[i]
<1>1. Lineage(h) /\ ChoiceInv(h) /\ h \in History
  BY Zenon DEF Explains, HistoryInv, Lineage
<1>2. /\ commitIndex[t] \in Nat /\ Last(s) \in Nat /\ Last(t) \in Nat
      /\ currentTerm[s] \in Nat /\ currentTerm[t] \in Nat
      /\ commitIndex[t] =< Last(t)
  BY Zenon DEF LogShape, Explains, CommitInv
<1>3. CASE commitIndex[t] = 0
  BY <1>2, <1>3
<1>4. CASE commitIndex[t] > 0
  <2>1. PICK U \in Nat : U = currentTerm[s]
    BY <1>2, Zenon
  <2>2. /\ U \in h.led /\ Last(s) = h.len[U]
        /\ \A k \in 1 .. h.len[U] : Entry(s, k) = h.log[U][k]
    BY <2>1, Zenon DEF Explains, LeaderInv, Leads
  <2>3. PICK T, j \in Nat : /\ T =< currentTerm[t] /\ commitIndex[t] =< j /\ Chosen(h, T, j)
                            /\ Has(h, t, T, commitIndex[t])
    BY <1>4, Zenon DEF Explains, CommitInv, PeerDecided
  <2>4. T =< U
    BY <1>2, <2>1, <2>3
  <2>5. Extends(h, U, T, j)
    BY <1>1, <2>2, <2>3, <2>4, ChosenFacts, LaterExtends, Zenon
  <2>6. j =< Last(s) /\ commitIndex[t] =< Last(s)
    BY <1>2, <2>2, <2>3, <2>5 DEF Extends
  <2>7. ASSUME NEW i \in 1 .. commitIndex[t] PROVE FullLog(s)[i] = FullLog(t)[i]
    <3>1. i \in 1 .. Last(s) /\ i \in 1 .. Last(t) /\ i \in 1 .. j /\ i \in 1 .. h.len[U]
      BY <1>2, <2>2, <2>3, <2>6
    <3>2. FullLog(s)[i] = Entry(s, i) /\ FullLog(t)[i] = Entry(t, i)
      BY <3>1, Zenon DEF LogShape
    <3>3. Entry(s, i) = h.log[U][i] /\ h.log[U][i] = h.log[T][i] /\ Entry(t, i) = h.log[T][i]
      BY <2>2, <2>3, <2>5, <3>1, Zenon DEF Extends, Has
    <3> QED
      BY <3>2, <3>3, ZenonT(30)
  <2> QED
    BY <2>6, <2>7, Zenon
<1> QED
  BY <1>2, <1>3, <1>4

LEMMA CommitsShareHistory ==
    ASSUME NEW h, Explains(h), LogShape
    PROVE  CommittedValuesMatch
<1> SUFFICES ASSUME NEW s \in Server, NEW t \in Server, NEW i \in 1 .. commitIndex[s],
                    i =< commitIndex[t]
             PROVE  FullLog(s)[i] = FullLog(t)[i]
  BY Zenon DEF CommittedValuesMatch
<1>1. Lineage(h) /\ ChoiceInv(h) /\ h \in History
  BY Zenon DEF Explains, HistoryInv, Lineage
<1>2. /\ commitIndex[s] \in Nat /\ commitIndex[t] \in Nat /\ Last(s) \in Nat /\ Last(t) \in Nat
      /\ commitIndex[s] =< Last(s) /\ commitIndex[t] =< Last(t)
  BY Zenon DEF LogShape, Explains, CommitInv
<1>3. /\ commitIndex[s] > 0 /\ commitIndex[t] > 0
      /\ i \in 1 .. Last(s) /\ i \in 1 .. Last(t) /\ i \in 1 .. commitIndex[t]
  BY <1>2
<1>4. PICK T, j \in Nat : /\ commitIndex[s] =< j /\ Chosen(h, T, j)
                          /\ Has(h, s, T, commitIndex[s])
  BY <1>3, Zenon DEF Explains, CommitInv, PeerDecided
<1>5. PICK U, k \in Nat : /\ commitIndex[t] =< k /\ Chosen(h, U, k)
                          /\ Has(h, t, U, commitIndex[t])
  BY <1>3, Zenon DEF Explains, CommitInv, PeerDecided
<1>6. i \in 1 .. j /\ i =< k
  BY <1>2, <1>4, <1>5
<1>7. h.log[T][i] = h.log[U][i]
  <2>1. Choosable(h, T, j) /\ Choosable(h, U, k)
    BY <1>1, <1>4, <1>5, ChosenFacts, Zenon
  <2> QED
    BY <1>1, <1>6, <2>1, ChoicesAgree
<1>8. Entry(s, i) = h.log[T][i] /\ Entry(t, i) = h.log[U][i]
  BY <1>3, <1>4, <1>5, ZenonT(30) DEF Has
<1>9. FullLog(s)[i] = Entry(s, i) /\ FullLog(t)[i] = Entry(t, i)
  BY <1>3, Zenon DEF LogShape
<1> QED
  BY <1>7, <1>8, <1>9, Zenon

LEMMA SafetyImplies ==
    SafetyInv => /\ LogMatching /\ CommitInLog /\ LeaderCompleteness
                 /\ ~staleMatch => CommittedValuesMatch
<1> SUFFICES ASSUME SafetyInv, ~staleMatch
             PROVE  /\ LogMatching /\ CommitInLog /\ LeaderCompleteness
                    /\ CommittedValuesMatch
  BY Zenon DEF LogMatching, CommitInLog, LeaderCompleteness
<1>1. PICK h : Explains(h)
  BY Zenon DEF SafetyInv
<1>2. LogShape
  BY EntryFacts, Zenon DEF SafetyInv, ElectionInv
<1>3. LogMatching
  BY <1>1, <1>2, LogsShareHistory, Zenon DEF LogMatching
<1>4. CommitInLog
  <2>1. \A s \in Server : /\ commitIndex[s] \in Nat /\ logs[s].base \in Nat /\ Last(s) \in Nat
                          /\ logs[s].base =< commitIndex[s] /\ commitIndex[s] =< Last(s)
    BY <1>1, <1>2, ZenonT(30) DEF LogShape, Explains, CommitInv
  <2>2. \A s \in Server : commitIndex[s] \in logs[s].base .. Last(s)
    BY <2>1
  <2> QED
    BY <2>2, Zenon DEF CommitInLog, Last
<1>5. LeaderCompleteness
  BY <1>1, <1>2, LeaderHasCommits, Zenon DEF LeaderCompleteness, Last
<1> QED
  BY <1>1, <1>2, <1>3, <1>4, <1>5, CommitsShareHistory, ZenonT(30)

-----------------------------------------------------------------------------
(* The promise to services. *)

\* What a step does to commitIndex: one peer learns more, or restarts at the
\* end of its snapshot.
CommitMoves(s) ==
    /\ \A t \in Server \ {s} : commitIndex'[t] = commitIndex[t]
    /\ \/ restarts' = restarts /\ commitIndex'[s] >= commitIndex[s]
       \/ restarts' = restarts + 1 /\ commitIndex'[s] =< commitIndex[s]

LEMMA SetCommit ==
    ASSUME TypeOK, NEW s \in Server, NEW n, commitIndex' = Set(commitIndex, s, n)
    PROVE  commitIndex'[s] = n /\ \A t \in Server \ {s} : commitIndex'[t] = commitIndex[t]
BY Zenon DEF TypeOK, Set

LEMMA NextCommit ==
    ASSUME DurableInv, [Next]_vars
    PROVE  UNCHANGED <<commitIndex, restarts>> \/ \E s \in Server : CommitMoves(s)
<1> DEFINE Goal == UNCHANGED <<commitIndex, restarts>> \/ \E s \in Server : CommitMoves(s)
<1>0. TypeOK /\ \A s \in Server : commitIndex[s] \in Nat
  BY Zenon DEF DurableInv, TypeOK
<1>1. ASSUME NEW s \in Server, NEW m \in net, AppendEntries(s, m) PROVE Goal
  <2>1. CASE UNCHANGED commitIndex
    BY <1>1, <2>1, Zenon DEF AppendEntries
  <2>2. CASE AppendAccepted(s, m)
    <3>1. PICK n : commitIndex' = Set(commitIndex, s, IF n > commitIndex[s] THEN n ELSE commitIndex[s])
      BY <2>2, Zenon DEF AppendAccepted
    <3>2. /\ commitIndex'[s] = IF n > commitIndex[s] THEN n ELSE commitIndex[s]
          /\ \A t \in Server \ {s} : commitIndex'[t] = commitIndex[t]
      BY <1>0, <3>1, SetCommit, Zenon
    <3>3. commitIndex'[s] \in Nat
      BY <1>0, <1>1, AppendEntriesType, ZenonT(30) DEF TypeOK
    <3>4. commitIndex'[s] >= commitIndex[s]
      BY <1>0, <3>2, <3>3
    <3> QED
      BY <1>1, <3>2, <3>4, ZenonT(30) DEF AppendEntries, CommitMoves
  <2> QED
    BY <1>1, <2>1, <2>2, ZenonT(30) DEF AppendEntries, AppendRejected
<1>2. ASSUME NEW s \in Server, NEW m \in net, HandleAppendEntriesReply(s, m) PROVE Goal
  <2>1. CASE UNCHANGED commitIndex
    BY <1>2, <2>1, ZenonT(30) DEF HandleAppendEntriesReply
  <2>2. CASE AdvanceCommitIndexForLeader(s, matchIndex'[s])
    <3>1. PICK n : /\ commitIndex' = Set(commitIndex, s, n)
                   /\ n > commitIndex[s] \/ n = commitIndex[s]
      BY <2>2, Zenon DEF AdvanceCommitIndexForLeader
    <3>2. /\ commitIndex'[s] = n
          /\ \A t \in Server \ {s} : commitIndex'[t] = commitIndex[t]
      BY <1>0, <3>1, SetCommit, ZenonT(30)
    <3>3. commitIndex'[s] \in Nat
      BY <1>0, <1>2, HandleAppendEntriesReplyType, Zenon DEF TypeOK
    <3>4. commitIndex'[s] >= commitIndex[s]
      BY <1>0, <3>1, <3>2, <3>3
    <3> QED
      BY <1>2, <3>2, <3>4, Zenon DEF HandleAppendEntriesReply, CommitMoves
  <2> QED
    BY <1>2, <2>1, <2>2, Zenon DEF HandleAppendEntriesReply
<1>3. ASSUME NEW s \in Server, NEW snap \in applyCh[s], CondInstallSnapshot(s, snap) PROVE Goal
  <2>1. CASE UNCHANGED commitIndex
    BY <1>3, <2>1, ZenonT(30) DEF CondInstallSnapshot
  <2>2. CASE snap.index > commitIndex[s] /\ commitIndex' = Set(commitIndex, s, snap.index)
    <3>1. /\ commitIndex'[s] = snap.index
          /\ \A t \in Server \ {s} : commitIndex'[t] = commitIndex[t]
      BY <1>0, <2>2, SetCommit, Zenon
    <3>2. snap.index \in Nat
      BY <1>0, SnapFields, Zenon DEF TypeOK
    <3>3. commitIndex'[s] >= commitIndex[s]
      BY <1>0, <2>2, <3>1, <3>2
    <3> QED
      BY <1>3, <3>1, <3>3, ZenonT(30) DEF CondInstallSnapshot, CommitMoves
  <2> QED
    BY <1>3, <2>1, <2>2, Zenon DEF CondInstallSnapshot
<1>4. ASSUME NEW s \in Server,
             Restart(s) \/ RestartInElection(s) \/ \E m \in net : RestartInRPC(s, m)
      PROVE  Goal
  <2>1. disk[s].log = logs[s]
    BY Zenon DEF DurableInv, DiskInSync
  <2>2. restarts' = restarts + 1 /\ commitIndex' = Set(commitIndex, s, logs[s].base)
    BY <1>4, <2>1, Zenon DEF Restart, RestartInElection, RestartInRPC, Make
  <2>3. logs[s].base =< commitIndex[s]
    BY Zenon DEF DurableInv, SnapshotInv
  <2>4. /\ commitIndex'[s] = logs[s].base
        /\ \A t \in Server \ {s} : commitIndex'[t] = commitIndex[t]
    BY <1>0, <2>2, SetCommit, ZenonT(30)
  <2> QED
    BY <2>2, <2>3, <2>4, Zenon DEF CommitMoves
<1>5. ASSUME UNCHANGED vars PROVE Goal
  BY <1>5, ZenonT(30) DEF vars
<1>6. ASSUME NEW s \in Server, NEW m \in net,
             \/ RequestVote(s, m) \/ HandleRequestVoteReply(s, m) \/ InstallSnapshot(s, m)
             \/ HandleInstallSnapshotReply(s, m)
      PROVE  Goal
  BY <1>6, Zenon DEF RequestVote, HandleRequestVoteReply, InstallSnapshot,
                     HandleInstallSnapshotReply
<1>7. ASSUME NEW s \in Server, ElectionTimeout(s) PROVE Goal
  BY <1>7, Zenon DEF ElectionTimeout
<1>8. ASSUME NEW s \in Server, Start(s) PROVE Goal
  BY <1>8, Zenon DEF Start
<1>9. ASSUME NEW s \in Server, NEW p \in Server, ReplicateOnceRound(s, p) PROVE Goal
  BY <1>9, Zenon DEF ReplicateOnceRound
<1>10. ASSUME NEW s \in Server, NEW i \in 1 .. MaxSnapshot, Snapshot(s, i) PROVE Goal
  BY <1>10, Zenon DEF Snapshot
<1>11. ASSUME NEW m \in net, Lose(m) PROVE Goal
  BY <1>11, Zenon DEF Lose
<1> HIDE DEF Goal
<1>12. Goal
  BY <1>1, <1>2, <1>3, <1>4, <1>5, <1>6, <1>7, <1>8, <1>9, <1>10, <1>11, ZenonT(30) DEF Next
<1> QED
  BY <1>12 DEF Goal

\* No step takes back what a peer knows to be committed, except that a restart
\* leaves it knowing less of it.
LEMMA CommittedKept ==
    ASSUME SafetyInv, [Next]_vars, ~staleMatch',
           NEW s \in Server, NEW i \in 1 .. commitIndex[s]
    PROVE  Entry(s, i)' = Entry(s, i)
<1>1. ~staleMatch
  BY StaleMatchStays, ZenonT(30)
<1>2. PICK h : Explains(h)
  BY <1>1, ZenonT(30) DEF SafetyInv
<1>3. StepContext(h)
  BY <1>2, NextContext, ZenonT(30) DEF SafetyInv
<1>4. PICK g : SafeStep(h, g)
  BY <1>3, NextSafeStep, ZenonT(30)
<1>5. KeepStep(h) /\ CommitInv(h) /\ LogShape /\ LogShape' /\ VoteStep /\ h \in History
  BY <1>3, <1>4, ContextFacts, Zenon DEF SafeStep
<1>0. PICK n \in Nat : n = commitIndex[s]
  BY <1>5, ZenonT(30) DEF LogShape
<1>6. /\ i \in 1 .. n /\ currentTerm[s] \in Nat /\ currentTerm'[s] \in Nat
      /\ currentTerm'[s] >= currentTerm[s] /\ PeerDecided(h, s, n)
  BY <1>0, <1>5, ZenonT(30) DEF LogShape, VoteStep, CommitInv
<1>7. n > 0
  BY <1>6
<1>8. PICK T, j \in Nat :
          T =< currentTerm[s] /\ n =< j /\ Chosen(h, T, j) /\ Has(h, s, T, n)
  BY <1>6, <1>7, ZenonT(30) DEF PeerDecided
<1>9. Choosable(h, T, j) /\ T =< currentTerm'[s]
  <2>1. Choosable(h, T, j)
    BY <1>5, <1>8, ChosenFacts, ZenonT(30)
  <2> QED
    BY <1>6, <1>8, <2>1
<1>10. Has(h, s, T, n)'
  BY <1>5, <1>6, <1>8, <1>9, Zenon DEF KeepStep
<1>11. Entry(s, i) = h.log[T][i]
  BY <1>6, <1>8, ZenonT(30) DEF Has
<1>12. Entry(s, i)' = h.log[T][i]
  BY <1>6, <1>10, ZenonT(30) DEF Has
<1> QED
  BY <1>11, <1>12, ZenonT(30)

\* What the peers know to be committed, entry by entry, and that they agree.
SeenOK ==
    /\ \A s \in Server :
          /\ commitIndex[s] \in Nat /\ Seen(s) \in Seq(Nat) /\ Len(Seen(s)) = commitIndex[s]
          /\ \A i \in 1 .. commitIndex[s] : Seen(s)[i] = Entry(s, i)
    /\ \A s, t \in Server : \A i \in 1 .. commitIndex[s] :
          i =< commitIndex[t] => Seen(s)[i] = Seen(t)[i]

LEMMA SeenSlice ==
    ASSUME NEW f \in Seq(Nat), NEW n \in Nat, n =< Len(f),
           NEW g, g = IF n = 0 THEN <<>> ELSE SubSeq(f, 1, n)
    PROVE  g \in Seq(Nat) /\ Len(g) = n /\ \A i \in 1 .. n : g[i] = f[i]
<1>1. CASE n = 0
  BY <1>1
<1>2. CASE n # 0
  <2>1. n \in 1 .. Len(f) /\ \A i \in 1 .. Len(f) : f[i] \in Nat
    BY <1>2, SeqElement
  <2> QED
    BY <1>2, <2>1
<1> QED
  BY <1>1, <1>2, ZenonT(30)

LEMMA SameSeq ==
    ASSUME NEW a \in Seq(Nat), NEW b \in Seq(Nat), Len(a) = Len(b),
           \A i \in 1 .. Len(a) : a[i] = b[i]
    PROVE  a = b
OBVIOUS

LEMMA SeenIs == SafetyInv /\ ~staleMatch => SeenOK
<1> SUFFICES ASSUME SafetyInv, ~staleMatch PROVE SeenOK
  BY Zenon
<1>1. PICK h : Explains(h)
  BY Zenon DEF SafetyInv
<1>2. LogShape /\ TypeOK /\ SnapshotInv /\ CommitInv(h) /\ CommittedValuesMatch
  BY <1>1, EntryFacts, SafetyImplies, ZenonT(30) DEF SafetyInv, ElectionInv, DurableInv, Explains
<1>3. ASSUME NEW s \in Server
      PROVE  /\ commitIndex[s] \in Nat /\ Seen(s) \in Seq(Nat) /\ Len(Seen(s)) = commitIndex[s]
             /\ \A i \in 1 .. commitIndex[s] : Seen(s)[i] = FullLog(s)[i]
             /\ \A i \in 1 .. commitIndex[s] : Seen(s)[i] = Entry(s, i)
  <2>1. /\ commitIndex[s] \in Nat /\ Last(s) \in Nat /\ commitIndex[s] =< Last(s)
        /\ \A i \in 1 .. Last(s) : FullLog(s)[i] = Entry(s, i)
    BY <1>2, ZenonT(30) DEF LogShape, CommitInv
  <2>2. FullLog(s) \in Seq(Nat) /\ Len(FullLog(s)) = Last(s)
    BY <1>2, FullLogFacts, Zenon DEF Last
  <2>3. /\ Seen(s) \in Seq(Nat) /\ Len(Seen(s)) = commitIndex[s]
        /\ \A i \in 1 .. commitIndex[s] : Seen(s)[i] = FullLog(s)[i]
    <3>1. commitIndex[s] =< Len(FullLog(s))
      BY <2>1, <2>2, ZenonT(30)
    <3>2. Seen(s) = IF commitIndex[s] = 0 THEN <<>> ELSE SubSeq(FullLog(s), 1, commitIndex[s])
      BY Zenon DEF Seen
    <3> QED
      BY <2>1, <2>2, <3>1, <3>2, SeenSlice
  <2>4. \A i \in 1 .. commitIndex[s] : i \in 1 .. Last(s)
    BY <2>1
  <2> QED
    BY <2>1, <2>3, <2>4, ZenonT(30)
<1>4. ASSUME NEW s \in Server, NEW t \in Server, NEW i \in 1 .. commitIndex[s],
             i =< commitIndex[t]
      PROVE  Seen(s)[i] = Seen(t)[i]
  <2>1. i \in 1 .. commitIndex[t]
    BY <1>3, <1>4
  <2>2. FullLog(s)[i] = FullLog(t)[i]
    BY <1>2, <1>4, Zenon DEF CommittedValuesMatch
  <2> QED
    BY <1>3, <2>1, <2>2, ZenonT(30)
<1> QED
  BY <1>3, <1>4, Zenon DEF SeenOK

LEMMA SeenIsNext == (SafetyInv /\ ~staleMatch => SeenOK)'
BY SeenIs, PTL

\* Initially no peer knows of a committed entry.
LEMMA InitPromise == Init => Promise!Init
<1> SUFFICES ASSUME Init PROVE Promise!Init
  BY Zenon
<1>1. restarts = 0 /\ \A s \in Server : Seen(s) = <<>>
  BY Zenon DEF Init, Seen
<1> QED
  BY <1>1, ZenonT(30) DEF Promise!Init

\* Every step lets one peer learn more, or makes it forget by a crash, or
\* changes nothing that the services can see.
LEMMA NextPromise ==
    SafetyInv /\ ~staleMatch' /\ [Next]_vars => [Promise!Next]_(Promise!vars)
<1> SUFFICES ASSUME SafetyInv, ~staleMatch', [Next]_vars
             PROVE  [Promise!Next]_(Promise!vars)
  BY Zenon
<1>1. SeenOK /\ SeenOK' /\ DurableInv
  <2>1. ~staleMatch /\ SafetyInv'
    BY StaleMatchStays, NextSafe, ZenonT(30)
  <2> QED
    BY <2>1, SeenIs, SeenIsNext, Zenon DEF SafetyInv, ElectionInv
<1>2. ASSUME NEW t \in Server, NEW i \in 1 .. commitIndex[t], i \in 1 .. commitIndex'[t]
      PROVE  Seen(t)'[i] = Seen(t)[i]
  <2>1. Entry(t, i)' = Entry(t, i)
    BY <1>2, CommittedKept, ZenonT(30)
  <2>2. \A j \in 1 .. commitIndex'[t] : Seen(t)'[j] = Entry(t, j)'
    BY <1>1, Zenon DEF SeenOK
  <2> QED
    BY <1>1, <1>2, <2>1, <2>2, Zenon DEF SeenOK
<1>3. ASSUME NEW t \in Server, commitIndex'[t] = commitIndex[t]
      PROVE  Seen(t)' = Seen(t)
  <2>1. /\ Seen(t) \in Seq(Nat) /\ Seen(t)' \in Seq(Nat)
        /\ Len(Seen(t)') = commitIndex[t] /\ Len(Seen(t)) = commitIndex[t]
    BY <1>1, <1>3, Zenon DEF SeenOK
  <2>2. \A i \in 1 .. Len(Seen(t)) : Seen(t)'[i] = Seen(t)[i]
    BY <1>2, <1>3, <2>1, ZenonT(30)
  <2> QED
    BY <2>1, <2>2, SameSeq, Zenon
<1>4. CASE UNCHANGED <<commitIndex, restarts>>
  <2>1. [s \in Server |-> Seen(s)]' = [s \in Server |-> Seen(s)]
    BY <1>3, <1>4, Zenon
  <2> QED
    BY <1>4, <2>1, ZenonT(30) DEF Promise!vars
<1>5. ASSUME NEW s \in Server, CommitMoves(s)
      PROVE  [Promise!Next]_(Promise!vars)
  <2>1. \A t \in Server \ {s} : Seen(t)' = Seen(t)
    BY <1>3, <1>5, Zenon DEF CommitMoves
  <2>2. /\ Len(Seen(s)) = commitIndex[s] /\ Len(Seen(s)') = commitIndex'[s]
        /\ commitIndex[s] \in Nat /\ commitIndex'[s] \in Nat
    BY <1>1, Zenon DEF SeenOK
  <2>3. CASE restarts' = restarts /\ commitIndex'[s] = commitIndex[s]
    <3>1. commitIndex'[s] = commitIndex[s] /\ \A t \in Server : Seen(t)' = Seen(t)
      BY <1>3, <2>1, <2>3, Zenon
    <3>2. [t \in Server |-> Seen(t)]' = [t \in Server |-> Seen(t)]
      BY <3>1, Zenon
    <3> QED
      BY <2>3, <3>2, ZenonT(30) DEF Promise!vars
  <2>4. CASE restarts' = restarts /\ commitIndex'[s] > commitIndex[s]
    <3>1. Seen(s)' # Seen(s)
      BY <2>2, <2>4
    <3>2. /\ Len(Seen(s)) =< Len(Seen(s)')
          /\ \A i \in 1 .. Len(Seen(s)) : Seen(s)[i] = Seen(s)'[i]
      <4>1. commitIndex[s] =< commitIndex'[s]
        BY <2>2, <2>4
      <4>2. \A i \in 1 .. commitIndex[s] : i \in 1 .. commitIndex'[s]
        BY <2>2, <4>1
      <4> QED
        BY <1>2, <2>2, <4>1, <4>2, Zenon
    <3>3. ASSUME NEW t \in Server \ {s}
          PROVE  \/ /\ Len(Seen(t)) =< Len(Seen(s)')
                    /\ \A i \in 1 .. Len(Seen(t)) : Seen(t)[i] = Seen(s)'[i]
                 \/ /\ Len(Seen(s)') =< Len(Seen(t))
                    /\ \A i \in 1 .. Len(Seen(s)') : Seen(s)'[i] = Seen(t)[i]
      <4>1. /\ Seen(t)' = Seen(t) /\ commitIndex'[t] \in Nat /\ Len(Seen(t)) = commitIndex'[t]
            /\ \A i \in 1 .. commitIndex'[t] : i =< commitIndex'[s] => Seen(t)'[i] = Seen(s)'[i]
            /\ \A i \in 1 .. commitIndex'[s] : i =< commitIndex'[t] => Seen(s)'[i] = Seen(t)'[i]
        BY <1>1, <2>1, Zenon DEF SeenOK
      <4>2. CASE commitIndex'[t] =< commitIndex'[s]
        <5>1. \A i \in 1 .. commitIndex'[t] : i =< commitIndex'[s]
          BY <2>2, <4>1, <4>2
        <5> QED
          BY <2>2, <4>1, <4>2, <5>1, Zenon
      <4>3. CASE commitIndex'[s] =< commitIndex'[t]
        <5>1. \A i \in 1 .. commitIndex'[s] : i =< commitIndex'[t]
          BY <2>2, <4>1, <4>3
        <5> QED
          BY <2>2, <4>1, <4>3, <5>1, Zenon
      <4>4. commitIndex'[t] =< commitIndex'[s] \/ commitIndex'[s] =< commitIndex'[t]
        BY <2>2, <4>1
      <4> QED
        BY <4>2, <4>3, <4>4, Zenon
    <3>4. Promise!Learn(s)
      BY <2>4, <3>1, <3>2, <3>3, Zenon DEF Promise!Learn, Promise!Prefix
    <3> QED
      BY <2>1, <3>4, ZenonT(30) DEF Promise!Next
  <2>5. CASE restarts' = restarts + 1 /\ commitIndex'[s] =< commitIndex[s]
    <3>1. \A i \in 1 .. commitIndex'[s] : i \in 1 .. commitIndex[s]
      BY <2>2, <2>5
    <3>2. Promise!Crash(s)
      BY <1>2, <2>2, <2>5, <3>1, Zenon DEF Promise!Crash, Promise!Prefix
    <3> QED
      BY <2>1, <3>2, Zenon DEF Promise!Next
  <2>6. commitIndex'[s] >= commitIndex[s] =>
            commitIndex'[s] = commitIndex[s] \/ commitIndex'[s] > commitIndex[s]
    BY <2>2
  <2> QED
    BY <1>5, <2>3, <2>4, <2>5, <2>6, Zenon DEF CommitMoves
<1> QED
  BY <1>1, <1>4, <1>5, NextCommit, Zenon

-----------------------------------------------------------------------------
(* The theorems. *)

\* At most one leader per term (checkOneLeader in config.go), for any number of
\* peers, whatever the network does and wherever peers crash.
THEOREM OneLeaderPerTerm == Spec => []ElectionSafety
BY InitElection, NextElection, MajorityVotesOnce, PTL DEF Spec

\* Logs that hold the same entry hold the same entries before it: the check of
\* prevLogIndex in AppendEntries is enough, through crashes and snapshots, for
\* any number of peers and any bounds, as long as no leader took office with a
\* matchIndex left over from before (ChangeState resets none).
THEOREM LogsMatch == Spec => []LogMatching
BY InitSafe, NextSafe, SafetyImplies, PTL DEF Spec

\* commitIndex never leaves the log: the slices of applier are in range, under
\* the same proviso.
THEOREM CommitsAreInLog == Spec => []CommitInLog
BY InitSafe, NextSafe, SafetyImplies, PTL DEF Spec

\* A leader has every entry any peer of its or an earlier term knew committed:
\* isLogUpToDate and the majority rule of advanceCommitIndexForLeader are enough,
\* under the same proviso.
THEOREM LeadersAreComplete == Spec => []LeaderCompleteness
BY InitSafe, NextSafe, SafetyImplies, PTL DEF Spec

\* No two peers commit different entries at an index, as long as no leader took
\* office with a matchIndex left over from before (ChangeState resets none).
THEOREM CommitsAgree == Spec => [](~staleMatch => CommittedValuesMatch)
BY InitSafe, NextSafe, SafetyImplies, PTL DEF Spec

\* What a service is promised: the peers learn one log in order, a step lets at
\* most one peer know more, only a crash makes it forget, and no two peers commit
\* different entries, as long as no leader trusts a matchIndex left over from an
\* earlier term of office (ChangeState resets none).
THEOREM ServicesReadOneLog == Spec /\ []~staleMatch => ImplementsCommittedLog
BY InitSafe, NextSafe, InitPromise, NextPromise, PTL DEF Spec, ImplementsCommittedLog, Promise!Spec

=============================================================================
