------------------------- MODULE RaftElectionProofs -------------------------
(***************************************************************************)
(* What a peer keeps across a crash, and what that does for votes.         *)
(*                                                                         *)
(* The type invariant, the agreement of memory and disk and that of        *)
(* snapshot and log are proved together: CondInstallSnapshot is only well  *)
(* typed because a log is never compacted past its commitIndex, and a      *)
(* restart only preserves that because the disk holds the log that memory  *)
(* holds.                                                                  *)
(*                                                                         *)
(* For votes, the proof follows single ones.  A Claim is a vote that       *)
(* somebody may still count.  Every step keeps three things: peers do not  *)
(* go back on a vote, a claim that appears is backed by the voter's memory *)
(* at that moment, and a peer that becomes leader holds claims of a        *)
(* majority.                                                               *)
(***************************************************************************)
EXTENDS RaftLogProofs, WellFoundedInduction

\* The leaves that name no prover are for the SMT solver.
USE SMTT(30)

\* Only peer s changes what persist() saves.
ChangesOnly(s) ==
    \A p \in Server \ {s} :
        /\ currentTerm'[p] = currentTerm[p]
        /\ votedFor'[p] = votedFor[p]
        /\ logs'[p] = logs[p]

\* Logs keep their first entry, peers keep their snapshots.
SnapshotsKept ==
    \A s \in Server :
        /\ disk'[s].snapshot = disk[s].snapshot
        /\ logs'[s].base = logs[s].base
        /\ logs'[s].terms[1] = logs[s].terms[1]

NoNewSnapshotCall == \A m \in net' : m.type = "InstallSnapshot" => m \in net

CommitGrows == \A s \in Server : commitIndex'[s] >= commitIndex[s]

-----------------------------------------------------------------------------
(* Logs. *)

\* A nonempty set of bounded naturals has a largest element.
LEMMA MaxIsElement ==
    ASSUME NEW n \in Nat, NEW S \in SUBSET (0 .. n), S # {}
    PROVE  Max(S) \in S
<1> DEFINE T == {n - x : x \in S}
<1>0. PICK e \in S : TRUE
  BY Zenon
<1>1. T \subseteq Nat /\ T # {}
  <2>1. \A x \in S : n - x \in Nat
    OBVIOUS
  <2>2. n - e \in T
    BY Zenon
  <2> QED
    BY <2>1, <2>2, Zenon
<1>2. \A a, b \in Nat : <<a, b>> \in OpToRel(<, Nat) <=> a < b
  BY Zenon DEF OpToRel
<1>3. PICK x \in T : \A y \in T : ~(<<y, x>> \in OpToRel(<, Nat))
  BY <1>1, NatLessThanWellFounded, WFMin, Zenon
<1>4. \A y \in T : ~(y < x)
  <2> HIDE DEF T
  <2> QED
    BY <1>1, <1>2, <1>3, Zenon
<1>5. PICK z \in S : x = n - z
  BY Zenon
<1>6. \A y \in S : z >= y
  <2> TAKE y \in S
  <2>1. n - y \in T
    BY Zenon
  <2>2. ~(n - y < x)
    BY <1>4, <2>1, Zenon
  <2> QED
    BY <1>5, <2>2
<1> QED
  BY <1>6, Zenon DEF Max

LEMMA MergeType ==
    ASSUME NEW l \in Log, NEW i \in l.base .. LastIndex(l), NEW entries \in Seq(Nat)
    PROVE  Merge(l, i, entries) \in Log
<1> DEFINE c == UpTo(l, i) \o entries
<1>1. UpTo(l, i) \in Seq(Nat) /\ Len(UpTo(l, i)) >= 1
  BY SliceFacts, LogFacts
<1>2. c \in Seq(Nat) /\ Len(c) >= 1
  BY <1>1, SeqConcat, SeqLength
<1>3. c # <<>>
  BY <1>2, SeqEmpty
<1>4. [base |-> l.base, terms |-> c] \in Log
  BY <1>2, <1>3, LogFacts, Zenon DEF Log
<1> QED
  BY <1>4, Zenon DEF Merge

LEMMA AppendType ==
    ASSUME NEW l \in Log, NEW t \in Nat
    PROVE  [base |-> l.base, terms |-> Append(l.terms, t)] \in Log
<1>1. l.terms \in Seq(Nat) /\ l.base \in Nat
  BY LogFacts, Zenon
<1>2. Append(l.terms, t) \in Seq(Nat) /\ Len(Append(l.terms, t)) = Len(l.terms) + 1
  BY <1>1
<1>3. Append(l.terms, t) # <<>>
  BY <1>1, <1>2, SeqEmpty, SeqLength
<1> QED
  BY <1>1, <1>2, <1>3, Zenon DEF Log

LEMMA CompactType ==
    ASSUME NEW l \in Log, NEW i \in Nat, i >= l.base, NEW t \in Nat
    PROVE  Compact(l, i, t) \in Log
<1>1. <<t>> \in Seq(Nat) \ {<<>>}
  OBVIOUS
<1>2. CASE i > LastIndex(l)
  BY <1>1, <1>2, Zenon DEF Compact, Log
<1>3. CASE ~(i > LastIndex(l))
  <2>1. i \in l.base .. LastIndex(l)
    BY <1>3, LogFacts
  <2>2. After(l, i) \in Seq(Nat)
    BY <2>1, SliceFacts, Zenon
  <2>3. <<t>> \o After(l, i) \in Seq(Nat) /\ Len(<<t>> \o After(l, i)) >= 1
    BY <1>1, <2>2, SeqConcat, SeqLength
  <2>4. <<t>> \o After(l, i) # <<>>
    BY <2>3, SeqEmpty
  <2> QED
    BY <1>3, <2>3, <2>4, Zenon DEF Compact, Log
<1> QED
  BY <1>2, <1>3, Zenon

\* A rejecting follower stops its backward scan at prevLogIndex itself, for the
\* entry there is what did not match: the conflict index is prevLogIndex + 1.
LEMMA ScanBackStops ==
    ASSUME NEW l \in Log, NEW t, NEW i \in l.base .. LastIndex(l), TermAt(l, i) # t
    PROVE  ScanBack(l, i, t) = i
<1> DEFINE P(k) == /\ k >= l.base => TermAt(l, k) # t
                   /\ \A j \in (k + 1) .. i : TermAt(l, j) = t
<1>1. i \in (l.base - 1) .. i /\ P(i)
  BY LogFacts
<1>2. \A k \in (l.base - 1) .. i : P(k) => k = i
  BY LogFacts
<1> QED
  BY <1>1, <1>2, Zenon DEF ScanBack

\* The index a leader backs up to is one of its own log or the reported one.
LEMMA BackupType ==
    ASSUME NEW l \in Log, NEW m \in AppendEntriesReply
    PROVE  Backup(l, m) \in Nat
<1> DEFINE hits == {i \in l.base .. (m.prevLogIndex - 1) : TermAt(l, i) = m.conflictTerm}
<1>1. m.prevLogIndex \in Nat /\ m.conflictIndex \in Nat
  BY Zenon DEF AppendEntriesReply
<1>2. hits \in SUBSET (0 .. m.prevLogIndex)
  BY <1>1, LogFacts
<1>3. hits # {} => Max(hits) \in Nat
  <2> SUFFICES ASSUME hits # {} PROVE Max(hits) \in Nat
    BY Zenon
  <2>1. Max(hits) \in hits
    <3> HIDE DEF hits
    <3> QED
      BY <1>1, <1>2, MaxIsElement, Zenon
  <2> QED
    BY <1>1, <1>2, <2>1
<1> QED
  BY <1>1, <1>3, Zenon DEF Backup

LEMMA DeliverType ==
    ASSUME net \subseteq Message, NEW m, NEW out \in SUBSET Message, Deliver(m, out)
    PROVE  net' \subseteq Message
BY Zenon DEF Deliver

LEMMA PersistType ==
    ASSUME NEW s \in Server, disk \in [Server -> Disk],
           currentTerm'[s] \in Nat, votedFor'[s] \in Server \cup {Nil}, logs'[s] \in Log,
           Persist(s)
    PROVE  disk' \in [Server -> Disk]
BY Zenon DEF Persist, Set, Disk

LEMMA ElectionTimeoutType ==
    ASSUME TypeOK, NEW s \in Server, ElectionTimeout(s)
    PROVE  TypeOK'
<1> USE DEF TypeOK
<1>1. /\ currentTerm' \in [Server -> Nat] /\ votedFor' \in [Server -> Server \cup {Nil}]
      /\ state' \in [Server -> {"Follower", "Candidate", "Leader"}]
      /\ votes' \in [Server -> SUBSET Server]
  BY DEF ElectionTimeout, Set
<1>2. disk' \in [Server -> Disk]
  BY <1>1, PersistType, Zenon DEF ElectionTimeout
<1>3. logs[s] \in Log /\ LastIndex(logs[s]) \in Nat /\ LastTerm(logs[s]) \in Nat
  BY LogFacts, Zenon
<1>4. net' \subseteq Message
  BY <1>3 DEF ElectionTimeout, SendSome, Message, RequestVoteArgs
<1> QED
  BY <1>1, <1>2, <1>4, Zenon DEF ElectionTimeout

LEMMA RequestVoteType ==
    ASSUME TypeOK, NEW s \in Server, NEW m \in net, RequestVote(s, m)
    PROVE  TypeOK'
<1> USE DEF TypeOK
<1>1. m \in RequestVoteArgs
  BY MessageKind, Zenon DEF RequestVote
<1>x. m.term \in Nat /\ m.from \in Server
  BY <1>1, Zenon DEF RequestVoteArgs
<1>2. /\ currentTerm' \in [Server -> Nat] /\ votedFor' \in [Server -> Server \cup {Nil}]
      /\ state' \in [Server -> {"Follower", "Candidate", "Leader"}]
      /\ votes' \in [Server -> SUBSET Server] /\ logs' \in [Server -> Log]
  <2>1. CASE DeniesVote(s, m)
    BY <2>1, Zenon DEF RequestVote, persistent
  <2>2. CASE ~DeniesVote(s, m)
    <3>1. PICK v \in Server \cup {Nil} : votedFor' = Set(votedFor, s, v)
      BY <1>x, <2>2, Zenon DEF RequestVote
    <3>2. /\ currentTerm' = Set(currentTerm, s, m.term) /\ UNCHANGED logs
          /\ BecomeFollower(s) \/ UNCHANGED <<state, votes>>
      BY <2>2, Zenon DEF RequestVote
    <3> QED
      BY <1>x, <3>1, <3>2, Zenon DEF Set, BecomeFollower
  <2> QED
    BY <2>1, <2>2, Zenon
<1>3. disk' \in [Server -> Disk]
  BY <1>2, PersistType, Zenon DEF RequestVote, PersistIf
<1>4. \A t \in Nat, g \in BOOLEAN : {VoteReply(m, t, g)} \subseteq Message
  BY <1>1 DEF VoteReply, RequestVoteArgs, RequestVoteReply, Message
<1>5. net' \subseteq Message
  BY <1>1, <1>4, DeliverType, Zenon DEF RequestVote, RequestVoteArgs, IsLogUpToDate
<1> QED
  BY <1>2, <1>3, <1>5, Zenon DEF RequestVote

\* What StepDown does to the types, for the three handlers of replies.
LEMMA StepDownType ==
    ASSUME TypeOK, NEW s \in Server, NEW t \in Nat, StepDown(s, t)
    PROVE  /\ currentTerm' \in [Server -> Nat] /\ votedFor' \in [Server -> Server \cup {Nil}]
           /\ state' \in [Server -> {"Follower", "Candidate", "Leader"}]
           /\ votes' \in [Server -> SUBSET Server] /\ logs' \in [Server -> Log]
           /\ disk' \in [Server -> Disk]
<1> USE DEF TypeOK
<1>1. /\ currentTerm' \in [Server -> Nat] /\ votedFor' \in [Server -> Server \cup {Nil}]
      /\ state' \in [Server -> {"Follower", "Candidate", "Leader"}]
      /\ votes' \in [Server -> SUBSET Server] /\ logs' \in [Server -> Log]
  BY Zenon DEF StepDown, AdoptTerm, BecomeFollower, Set
<1> QED
  BY <1>1, PersistType, Zenon DEF StepDown

LEMMA HandleRequestVoteReplyType ==
    ASSUME TypeOK, NEW s \in Server, NEW m \in net, HandleRequestVoteReply(s, m)
    PROVE  TypeOK'
<1> USE DEF TypeOK
<1>1. m \in RequestVoteReply
  BY MessageKind, Zenon DEF HandleRequestVoteReply
<1>2. m.replyTerm \in Nat /\ m.from \in Server
  BY <1>1, Zenon DEF RequestVoteReply
<1>3. net' \subseteq Message
  BY DeliverType, Zenon DEF HandleRequestVoteReply
<1>4. CASE /\ UNCHANGED <<persistent, disk>>
           /\ votes' \in [Server -> SUBSET Server]
           /\ state' \in [Server -> {"Follower", "Candidate", "Leader"}]
           /\ staleMatch' \in BOOLEAN
  BY <1>3, <1>4, Zenon DEF HandleRequestVoteReply, persistent
<1>5. CASE StepDown(s, m.replyTerm) /\ UNCHANGED staleMatch
  BY <1>2, <1>3, <1>5, StepDownType, Zenon DEF HandleRequestVoteReply
<1> QED
  <2>1. CASE UNCHANGED <<persistent, state, votes, disk, staleMatch>>
    BY <1>4, <2>1, Zenon
  <2>2. CASE /\ \E g \in SUBSET Server, r \in {"Leader", "Candidate"} :
                   votes' = Set(votes, s, g) /\ state' = Set(state, s, r)
             /\ staleMatch' \in BOOLEAN
             /\ UNCHANGED <<persistent, disk>>
    BY <1>4, <2>2, ZenonT(30) DEF Set
  <2> QED
    BY <1>2, <1>5, <2>1, <2>2, Zenon DEF HandleRequestVoteReply

LEMMA StartType ==
    ASSUME TypeOK, NEW s \in Server, Start(s)
    PROVE  TypeOK'
<1> USE DEF TypeOK
<1>1. logs[s] \in Log /\ LastIndex(logs[s]) \in Nat /\ logs[s].terms \in Seq(Nat)
      /\ logs[s].base \in Nat
  BY LogFacts, Zenon
<1>3. logs' \in [Server -> Log]
  BY <1>1, AppendType, Zenon DEF Start, Set
<1>4. disk' \in [Server -> Disk]
  BY <1>3, PersistType, Zenon DEF Start
<1>5. matchIndex' \in [Server -> [Server -> Nat]] /\ nextIndex' \in [Server -> [Server -> Nat]]
  BY <1>1, SMTT(30) DEF Start
<1> QED
  BY <1>3, <1>4, <1>5, Zenon DEF Start

LEMMA ReplicateOnceRoundType ==
    ASSUME TypeOK, NEW s \in Server, NEW p \in Server, ReplicateOnceRound(s, p)
    PROVE  TypeOK'
<1> USE DEF TypeOK
<1> DEFINE l == logs[s]
           prev == nextIndex[s][p] - 1
<1>1. l \in Log /\ l.base \in Nat /\ LastIndex(l) \in Nat /\ LastIndex(l) >= l.base
      /\ \A i \in l.base .. LastIndex(l) : TermAt(l, i) \in Nat
  BY LogFacts, Zenon
<1>2. CASE prev < l.base /\ net' = net \cup {SnapshotArgs(s, p)}
  <2>1. TermAt(l, l.base) \in Nat
    <3> HIDE DEF l
    <3> QED
      BY <1>1
  <2>2. disk[s].snapshot \in Seq(Nat)
    BY Zenon DEF Disk
  <2>3. SnapshotArgs(s, p) \in InstallSnapshotArgs
    BY <1>1, <2>1, <2>2, Zenon DEF SnapshotArgs, InstallSnapshotArgs, Snap
  <2> QED
    BY <1>2, <2>3, Zenon DEF ReplicateOnceRound, Message, persistent
<1>3. CASE prev \in l.base .. LastIndex(l) /\ net' = net \cup {AppendArgs(s, p)}
  <2>1. prev \in Nat /\ TermAt(l, prev) \in Nat
    BY <1>1, <1>3
  <2>2. After(l, prev) \in Seq(Nat)
    BY <1>1, <1>3, SliceFacts, Zenon
  <2>3. AppendArgs(s, p) \in AppendEntriesArgs
    BY <2>1, <2>2, Zenon DEF AppendArgs, AppendEntriesArgs
  <2> QED
    BY <1>3, <2>3, Zenon DEF ReplicateOnceRound, Message, persistent
<1> QED
  BY <1>2, <1>3, Zenon DEF ReplicateOnceRound

LEMMA AppendReplyType ==
    ASSUME net \subseteq Message, NEW m \in AppendEntriesArgs, NEW t \in Nat,
           NEW b \in BOOLEAN, NEW i \in Nat, NEW c \in Nat \cup {-1},
           Deliver(m, {AppendReply(m, t, b, i, c)})
    PROVE  net' \subseteq Message
<1>1. /\ m.term \in Nat /\ m.from \in Server /\ m.to \in Server
      /\ m.prevLogIndex \in Nat /\ m.entries \in Seq(Nat)
  BY Zenon DEF AppendEntriesArgs
<1>2. Len(m.entries) \in Nat
  BY <1>1, SeqLength, Zenon
<1>3. AppendReply(m, t, b, i, c) \in AppendEntriesReply
  BY <1>1, <1>2, Zenon DEF AppendReply, AppendEntriesReply
<1>4. {AppendReply(m, t, b, i, c)} \subseteq Message
  BY <1>3, Zenon DEF Message
<1> QED
  BY <1>4, DeliverType, Zenon

\* The index and term that a rejection carries are an index and a term.
LEMMA ConflictType ==
    ASSUME NEW l \in Log, NEW prev \in Nat, NEW term \in Nat, ~IsLogMatched(l, prev, term)
    PROVE  Conflict(l, prev, term).index \in Nat /\ Conflict(l, prev, term).term \in Nat \cup {-1}
<1>1. l.base \in Nat /\ LastIndex(l) \in Nat /\ l.base <= LastIndex(l)
  BY LogFacts, Zenon
<1>2. CASE prev < l.base
  <2>1. ~(prev > LastIndex(l))
    BY <1>1, <1>2
  <2> QED
    BY <1>2, <2>1, Zenon DEF Conflict
<1>3. CASE prev > LastIndex(l) /\ ~(prev < l.base)
  BY <1>1, <1>3 DEF Conflict
<1>4. CASE ~(prev < l.base) /\ ~(prev > LastIndex(l))
  <2>1. prev \in l.base .. LastIndex(l)
    BY <1>1, <1>4
  <2>2. TermAt(l, prev) # term
    BY <2>1, Zenon DEF IsLogMatched
  <2>3. ScanBack(l, prev, term) = prev
    BY <2>1, <2>2, ScanBackStops, Zenon
  <2> QED
    BY <1>4, <2>3 DEF Conflict
<1> QED
  BY <1>2, <1>3, <1>4, Zenon

LEMMA AppendRejectedType ==
    ASSUME TypeOK, NEW s \in Server, NEW m \in AppendEntriesArgs, AppendRejected(s, m)
    PROVE  net' \subseteq Message
<1> DEFINE c == Conflict(logs[s], m.prevLogIndex, m.prevLogTerm)
<1>1. net \subseteq Message /\ logs[s] \in Log
  BY Zenon DEF TypeOK
<1>2. m.term \in Nat /\ m.prevLogIndex \in Nat /\ m.prevLogTerm \in Nat
  BY Zenon DEF AppendEntriesArgs
<1>3. ~IsLogMatched(logs[s], m.prevLogIndex, m.prevLogTerm)
  BY Zenon DEF AppendRejected
<1>4. c.index \in Nat /\ c.term \in Nat \cup {-1}
  BY <1>1, <1>2, <1>3, ConflictType, Zenon
<1>5. Deliver(m, {AppendReply(m, m.term, FALSE, c.index, c.term)}) /\ FALSE \in BOOLEAN
  BY Zenon DEF AppendRejected
<1> HIDE DEF c
<1> QED
  BY <1>1, <1>2, <1>4, <1>5, AppendReplyType, Zenon

LEMMA AppendEntriesType ==
    ASSUME TypeOK, NEW s \in Server, NEW m \in net, AppendEntries(s, m)
    PROVE  TypeOK'
<1> USE DEF TypeOK
<1>1. m \in AppendEntriesArgs
  BY MessageKind, Zenon DEF AppendEntries
<1>2. /\ m.term \in Nat /\ m.from \in Server /\ m.prevLogIndex \in Nat
      /\ m.entries \in Seq(Nat) /\ m.leaderCommit \in Nat
  BY <1>1, Zenon DEF AppendEntriesArgs
<1>3. FALSE \in BOOLEAN /\ TRUE \in BOOLEAN /\ 0 \in Nat /\ 0 \in Nat \cup {-1}
      /\ currentTerm[s] \in Nat /\ net \subseteq Message
  BY Zenon
<1>5. CASE /\ Deliver(m, {AppendReply(m, currentTerm[s], FALSE, 0, 0)})
           /\ UNCHANGED <<persistent, state, votes, disk, commitIndex>>
  <2>1. net' \subseteq Message
    BY <1>1, <1>3, <1>5, AppendReplyType, Zenon
  <2> QED
    BY <1>5, <2>1, Zenon DEF AppendEntries, persistent
<1>6. CASE /\ AdoptTerm(s, m.term) /\ BecomeFollower(s)
           /\ AppendRejected(s, m) \/ AppendAccepted(s, m)
  <2>1. UNCHANGED <<nextIndex, matchIndex, applyCh, restarts, staleMatch>>
    BY Zenon DEF AppendEntries
  <2>2. /\ currentTerm' \in [Server -> Nat] /\ votedFor' \in [Server -> Server \cup {Nil}]
        /\ state' \in [Server -> {"Follower", "Candidate", "Leader"}]
        /\ votes' \in [Server -> SUBSET Server]
    BY <1>2, <1>6, Zenon DEF AdoptTerm, BecomeFollower, Set
  <2>3. CASE AppendRejected(s, m)
    <3>1. logs' \in [Server -> Log] /\ commitIndex' \in [Server -> Nat]
      BY <2>3, Zenon DEF AppendRejected
    <3>2. disk' \in [Server -> Disk]
      BY <2>2, <2>3, <3>1, PersistType, Zenon DEF AppendRejected, PersistIf
    <3>3. net' \subseteq Message
      BY <1>1, <2>3, AppendRejectedType, Zenon
    <3> QED
      BY <2>1, <2>2, <3>1, <3>2, <3>3, Zenon
  <2>4. CASE AppendAccepted(s, m)
    <3> DEFINE l == Merge(logs[s], m.prevLogIndex, m.entries)
    <3>1. logs[s] \in Log /\ m.prevLogIndex \in logs[s].base .. LastIndex(logs[s])
      BY <2>4, Zenon DEF AppendAccepted, IsLogMatched
    <3>2. l \in Log /\ LastIndex(l) \in Nat
      BY <1>2, <3>1, MergeType, LogFacts, Zenon
    <3>3. logs' \in [Server -> Log]
      BY <2>4, <3>2, Zenon DEF AppendAccepted, Set
    <3>4. commitIndex' \in [Server -> Nat]
      BY <1>2, <2>4, <3>2, Zenon DEF AppendAccepted, Set
    <3>5. disk' \in [Server -> Disk]
      BY <2>2, <2>4, <3>3, PersistType, Zenon DEF AppendAccepted, PersistIf
    <3>6. Deliver(m, {AppendReply(m, m.term, TRUE, 0, 0)})
      BY <2>4, Zenon DEF AppendAccepted
    <3>7. net' \subseteq Message
      BY <1>1, <1>2, <1>3, <3>6, AppendReplyType, Zenon
    <3> QED
      BY <2>1, <2>2, <3>3, <3>4, <3>5, <3>7, Zenon
  <2> QED
    BY <1>6, <2>3, <2>4, Zenon
<1> QED
  BY <1>5, <1>6, Zenon DEF AppendEntries

LEMMA HandleAppendEntriesReplyType ==
    ASSUME TypeOK, NEW s \in Server, NEW m \in net, HandleAppendEntriesReply(s, m)
    PROVE  TypeOK'
<1> USE DEF TypeOK
<1>1. m \in AppendEntriesReply
  BY MessageKind, Zenon DEF HandleAppendEntriesReply
<1>2. /\ m.from \in Server /\ m.replyTerm \in Nat
      /\ m.prevLogIndex + m.numEntries \in Nat /\ m.prevLogIndex + m.numEntries + 1 \in Nat
  BY <1>1 DEF AppendEntriesReply
<1>3. net' \subseteq Message /\ UNCHANGED <<applyCh, restarts, staleMatch>>
  BY DeliverType, Zenon DEF HandleAppendEntriesReply
<1>4. CASE UNCHANGED <<persistent, state, votes, disk, commitIndex, nextIndex, matchIndex>>
  BY <1>3, <1>4, Zenon DEF persistent
<1>5. CASE /\ matchIndex' = [matchIndex EXCEPT ![s][m.from] = m.prevLogIndex + m.numEntries]
           /\ nextIndex' = [nextIndex EXCEPT ![s][m.from] = m.prevLogIndex + m.numEntries + 1]
           /\ AdvanceCommitIndexForLeader(s, matchIndex'[s])
           /\ UNCHANGED <<persistent, state, votes, disk>>
  <2>1. matchIndex' \in [Server -> [Server -> Nat]] /\ nextIndex' \in [Server -> [Server -> Nat]]
    BY <1>2, <1>5, Zenon
  <2>2. \A i : i \in logs[s].base .. LastIndex(logs[s]) => i \in Nat
    BY LogFacts
  <2>3. commitIndex' \in [Server -> Nat]
    BY <1>5, <2>2, Zenon DEF AdvanceCommitIndexForLeader, IsLogMatched, Set
  <2> QED
    BY <1>3, <1>5, <2>1, <2>3, Zenon DEF persistent
<1>6. CASE StepDown(s, m.replyTerm) /\ UNCHANGED <<commitIndex, nextIndex, matchIndex>>
  BY <1>2, <1>3, <1>6, StepDownType, Zenon
<1>7. CASE /\ nextIndex' = [nextIndex EXCEPT ![s][m.from] = Backup(logs[s], m)]
           /\ UNCHANGED <<persistent, state, votes, disk, commitIndex, matchIndex>>
  <2>1. nextIndex' \in [Server -> [Server -> Nat]]
    BY <1>1, <1>2, <1>7, BackupType, Zenon
  <2> QED
    BY <1>3, <1>7, <2>1, Zenon DEF persistent
<1> QED
  BY <1>4, <1>5, <1>6, <1>7, Zenon DEF HandleAppendEntriesReply

LEMMA InstallSnapshotType ==
    ASSUME TypeOK, NEW s \in Server, NEW m \in net, InstallSnapshot(s, m)
    PROVE  TypeOK'
<1> USE DEF TypeOK
<1>1. m \in InstallSnapshotArgs
  BY MessageKind, Zenon DEF InstallSnapshot
<1>2. m.term \in Nat /\ m.from \in Server /\ m.snap \in Snap /\ m.snap.index \in Nat
  BY <1>1, Zenon DEF InstallSnapshotArgs, Snap
<1> DEFINE r == [type |-> "InstallSnapshotReply", from |-> s, to |-> m.from,
                 term |-> m.term, lastIncludedIndex |-> m.snap.index,
                 replyTerm |-> currentTerm[s]]
<1>3. {r} \subseteq Message
  BY <1>2 DEF InstallSnapshotReply, Message
<1>4. net' \subseteq Message
  <2>1. Deliver(m, {r})
    BY Zenon DEF InstallSnapshot
  <2> HIDE DEF r
  <2> QED
    BY <1>3, <2>1, DeliverType, Zenon
<1>5. UNCHANGED <<commitIndex, nextIndex, matchIndex, restarts, staleMatch>>
  BY Zenon DEF InstallSnapshot
<1>6. CASE UNCHANGED <<persistent, state, votes, disk, applyCh>>
  BY <1>4, <1>5, <1>6, Zenon DEF persistent
<1>7. CASE /\ AdoptTerm(s, m.term) /\ BecomeFollower(s) /\ UNCHANGED logs
           /\ PersistIf(m.term > currentTerm[s], s)
           /\ applyCh' = Set(applyCh, s, IF m.snap.index > commitIndex[s]
                                         THEN applyCh[s] \cup {m.snap} ELSE applyCh[s])
  <2>1. /\ currentTerm' \in [Server -> Nat] /\ votedFor' \in [Server -> Server \cup {Nil}]
        /\ state' \in [Server -> {"Follower", "Candidate", "Leader"}]
        /\ votes' \in [Server -> SUBSET Server] /\ logs' \in [Server -> Log]
    BY <1>2, <1>7, Zenon DEF AdoptTerm, BecomeFollower, Set
  <2>2. disk' \in [Server -> Disk]
    BY <1>7, <2>1, PersistType, Zenon DEF PersistIf
  <2>3. applyCh' \in [Server -> SUBSET Snap]
    BY <1>2, <1>7, Zenon DEF Set
  <2> QED
    BY <1>4, <1>5, <2>1, <2>2, <2>3, Zenon
<1> QED
  BY <1>6, <1>7, Zenon DEF InstallSnapshot

LEMMA HandleInstallSnapshotReplyType ==
    ASSUME TypeOK, NEW s \in Server, NEW m \in net, HandleInstallSnapshotReply(s, m)
    PROVE  TypeOK'
<1> USE DEF TypeOK
<1>1. m \in InstallSnapshotReply
  BY MessageKind, Zenon DEF HandleInstallSnapshotReply
<1>2. m.from \in Server /\ m.replyTerm \in Nat /\ m.lastIncludedIndex \in Nat
  BY <1>1, Zenon DEF InstallSnapshotReply
<1>3. net' \subseteq Message /\ UNCHANGED <<commitIndex, applyCh, restarts, staleMatch>>
  BY DeliverType, Zenon DEF HandleInstallSnapshotReply
<1>4. CASE UNCHANGED <<persistent, state, votes, disk, nextIndex, matchIndex>>
  BY <1>3, <1>4, Zenon DEF persistent
<1>5. CASE StepDown(s, m.replyTerm) /\ UNCHANGED <<nextIndex, matchIndex>>
  BY <1>2, <1>3, <1>5, StepDownType, Zenon
<1>6. CASE /\ nextIndex' = [nextIndex EXCEPT ![s][m.from] = m.lastIncludedIndex + 1]
           /\ matchIndex' = [matchIndex EXCEPT ![s][m.from] = m.lastIncludedIndex]
           /\ UNCHANGED <<persistent, state, votes, disk>>
  BY <1>2, <1>3, <1>6 DEF persistent
<1> QED
  BY <1>4, <1>5, <1>6, Zenon DEF HandleInstallSnapshotReply

LEMMA SnapshotType ==
    ASSUME TypeOK, SnapshotInv, NEW s \in Server, NEW index \in Nat, Snapshot(s, index)
    PROVE  TypeOK'
<1> USE DEF TypeOK
<1> DEFINE l == Compact(logs[s], index, TermAt(logs[s], index))
           data == SubSeq(FullLog(s), 1, index)
<1>1. logs[s] \in Log /\ index \in logs[s].base .. LastIndex(logs[s]) /\ index >= logs[s].base
  BY LogFacts DEF Snapshot
<1>2. l \in Log
  BY <1>1, LogFacts, CompactType, Zenon
<1>3. data \in Seq(Nat)
  BY SnapshotData, Zenon
<1> HIDE DEF l, data
<1>4. /\ logs' = Set(logs, s, l) /\ SaveStateAndSnapshot(s, data)
      /\ UNCHANGED <<currentTerm, votedFor, state, votes, commitIndex, nextIndex, matchIndex,
                     applyCh, net, restarts, staleMatch>>
  BY Zenon DEF Snapshot, l, data
<1>5. logs' \in [Server -> Log]
  BY <1>2, <1>4, Zenon DEF Set
<1>6. disk' \in [Server -> Disk]
  BY <1>3, <1>4, <1>5, Zenon DEF SaveStateAndSnapshot, Set, Disk
<1> QED
  BY <1>4, <1>5, <1>6, Zenon

LEMMA CondInstallSnapshotType ==
    ASSUME TypeOK, SnapshotInv, NEW s \in Server, NEW snap \in applyCh[s],
           CondInstallSnapshot(s, snap)
    PROVE  TypeOK'
<1> USE DEF TypeOK
<1>1. snap \in Snap /\ snap.index \in Nat /\ snap.term \in Nat /\ snap.data \in Seq(Nat)
  <2>1. snap \in Snap
    BY Zenon
  <2> QED
    BY <2>1, SnapFields, Zenon
<1>2. applyCh' \in [Server -> SUBSET Snap]
  BY Zenon DEF CondInstallSnapshot, Set
<1>3. UNCHANGED <<currentTerm, votedFor, state, votes, nextIndex, matchIndex, net, restarts,
                  staleMatch>>
  BY Zenon DEF CondInstallSnapshot
<1>4. CASE UNCHANGED <<logs, commitIndex, disk>>
  BY <1>2, <1>3, <1>4, Zenon
<1>5. CASE /\ snap.index > commitIndex[s]
           /\ logs' = Set(logs, s, Compact(logs[s], snap.index, snap.term))
           /\ commitIndex' = Set(commitIndex, s, snap.index)
           /\ SaveStateAndSnapshot(s, snap.data)
  <2>1. logs[s] \in Log /\ logs[s].base \in Nat /\ snap.index >= logs[s].base
    <3>1. logs[s] \in Log /\ commitIndex[s] \in Nat
      BY Zenon
    <3>2. logs[s].base \in Nat
      BY <3>1, LogFacts, Zenon
    <3>3. commitIndex[s] >= logs[s].base
      BY Zenon DEF SnapshotInv
    <3> HIDE DEF TypeOK
    <3> QED
      BY <1>1, <1>5, <3>1, <3>2, <3>3
  <2>2. Compact(logs[s], snap.index, snap.term) \in Log
    BY <1>1, <2>1, CompactType, Zenon
  <2>3. logs' \in [Server -> Log] /\ commitIndex' \in [Server -> Nat]
    BY <1>1, <1>5, <2>2, Zenon DEF Set
  <2>4. disk' \in [Server -> Disk]
    BY <1>1, <1>3, <1>5, <2>3, Zenon DEF SaveStateAndSnapshot, Set, Disk
  <2> QED
    BY <1>2, <1>3, <2>3, <2>4, Zenon
<1> QED
  BY <1>4, <1>5, Zenon DEF CondInstallSnapshot

LEMMA MakeType ==
    ASSUME TypeOK, NEW s \in Server, NEW saved \in Disk, NEW lost, Make(s, saved, lost)
    PROVE  TypeOK'
<1> USE DEF TypeOK
<1>1. /\ saved.currentTerm \in Nat /\ saved.votedFor \in Server \cup {Nil}
      /\ saved.log \in Log
  BY Zenon DEF Disk
<1>2. saved.log.base \in Nat /\ LastIndex(saved.log) + 1 \in Nat
  <2>1. \A l \in Log : l.base \in Nat /\ LastIndex(l) + 1 \in Nat
    BY LogFacts
  <2> QED
    BY <1>1, <2>1, Zenon
<1>3. /\ currentTerm' \in [Server -> Nat] /\ votedFor' \in [Server -> Server \cup {Nil}]
      /\ logs' \in [Server -> Log] /\ commitIndex' \in [Server -> Nat]
      /\ disk' \in [Server -> Disk] /\ applyCh' \in [Server -> SUBSET Snap]
  BY <1>1, <1>2, Zenon DEF Make, Set
<1>4. /\ state' \in [Server -> {"Follower", "Candidate", "Leader"}]
      /\ votes' \in [Server -> SUBSET Server]
  BY Zenon DEF Make, BecomeFollower, Set
<1>5. /\ matchIndex' \in [Server -> [Server -> Nat]]
      /\ nextIndex' \in [Server -> [Server -> Nat]]
  BY <1>2, Zenon DEF Make, Set
<1>6. net' \subseteq Message /\ restarts' \in Nat /\ staleMatch' \in BOOLEAN
  <2>1. net' \subseteq net /\ restarts' = restarts + 1 /\ staleMatch' = staleMatch
    BY Zenon DEF Make
  <2> QED
    BY <2>1
<1> QED
  BY <1>3, <1>4, <1>5, <1>6, Zenon

-----------------------------------------------------------------------------
LEMMA PersistSync ==
    ASSUME TypeOK, DiskInSync, NEW s \in Server, ChangesOnly(s), Persist(s)
    PROVE  DiskInSync'
BY Zenon DEF TypeOK, DiskInSync, ChangesOnly, Persist, Set

LEMMA SnapshotInvKept ==
    ASSUME TypeOK, TypeOK', SnapshotInv, SnapshotsKept, NoNewSnapshotCall, CommitGrows,
           \A s \in Server : \A snap \in applyCh'[s] :
               snap \in applyCh[s] \/ EndsWith(snap.data, snap.index, snap.term)
    PROVE  SnapshotInv'
<1>1. \A s \in Server : EndsWith(disk'[s].snapshot, logs'[s].base, logs'[s].terms[1])
  BY Zenon DEF SnapshotInv, SnapshotsKept
<1>2. \A s \in Server : commitIndex'[s] >= logs'[s].base
  <2> TAKE s \in Server
  <2>1. commitIndex[s] \in Nat /\ commitIndex'[s] \in Nat /\ logs[s] \in Log
    BY Zenon DEF TypeOK
  <2>2. logs[s].base \in Nat
    BY <2>1, LogFacts, Zenon
  <2>3. commitIndex[s] >= logs[s].base /\ commitIndex'[s] >= commitIndex[s]
        /\ logs'[s].base = logs[s].base
    BY Zenon DEF SnapshotInv, CommitGrows, SnapshotsKept
  <2> QED
    BY <2>1, <2>2, <2>3
<1>3. \A m \in net' : m.type = "InstallSnapshot" =>
                          EndsWith(m.snap.data, m.snap.index, m.snap.term)
  BY Zenon DEF SnapshotInv, NoNewSnapshotCall
<1>4. \A s \in Server : \A snap \in applyCh'[s] : EndsWith(snap.data, snap.index, snap.term)
  BY Zenon DEF SnapshotInv
<1> QED
  BY <1>1, <1>2, <1>3, <1>4, Zenon DEF SnapshotInv, EndsWith

LEMMA DeliverKeeps ==
    ASSUME NEW m, NEW out, Deliver(m, out), \A r \in out : r.type # "InstallSnapshot"
    PROVE  NoNewSnapshotCall
BY Zenon DEF Deliver, NoNewSnapshotCall

-----------------------------------------------------------------------------
(* One lemma per action.  Each handler that answers has saved what it says. *)

LEMMA UnchangedDurable ==
    ASSUME DurableInv, TypeOK', UNCHANGED <<persistent, disk, applyCh>>,
           NoNewSnapshotCall, CommitGrows
    PROVE  DurableInv'
<1>1. DiskInSync'
  BY Zenon DEF DurableInv, DiskInSync, persistent
<1>2. SnapshotInv'
  BY SnapshotInvKept, Zenon DEF DurableInv, SnapshotsKept, persistent
<1> QED
  BY <1>1, <1>2, Zenon DEF DurableInv

\* The handlers that save a new term or vote and leave the log alone.
LEMMA PersistDurable ==
    ASSUME DurableInv, TypeOK', NEW s \in Server, ChangesOnly(s), UNCHANGED logs,
           Persist(s), UNCHANGED applyCh, NoNewSnapshotCall, CommitGrows
    PROVE  DurableInv'
<1>1. DiskInSync'
  BY PersistSync, Zenon DEF DurableInv
<1>2. SnapshotsKept
  BY PersistKeepsSnapshot, Zenon DEF DurableInv, SnapshotsKept
<1>3. SnapshotInv'
  BY <1>2, SnapshotInvKept, Zenon DEF DurableInv
<1> QED
  BY <1>1, <1>3, Zenon DEF DurableInv

LEMMA StepDownChanges ==
    ASSUME TypeOK, NEW s \in Server, NEW t \in Nat, StepDown(s, t)
    PROVE  ChangesOnly(s) /\ UNCHANGED logs /\ Persist(s)
BY Zenon DEF TypeOK, StepDown, AdoptTerm, Set, ChangesOnly

LEMMA CommitKept ==
    ASSUME TypeOK, UNCHANGED commitIndex
    PROVE  CommitGrows
BY DEF TypeOK, CommitGrows

LEMMA ElectionTimeoutDurable ==
    ASSUME DurableInv, NEW s \in Server, ElectionTimeout(s)
    PROVE  DurableInv'
<1>1. TypeOK'
  BY ElectionTimeoutType, Zenon DEF DurableInv
<1>2. ChangesOnly(s) /\ UNCHANGED <<logs, applyCh, commitIndex>> /\ Persist(s)
  BY Zenon DEF DurableInv, TypeOK, ElectionTimeout, Set, ChangesOnly
<1>3. NoNewSnapshotCall
  BY TimeoutSends, Zenon DEF NoNewSnapshotCall
<1> QED
  BY <1>1, <1>2, <1>3, PersistDurable, CommitKept, Zenon DEF DurableInv

LEMMA RequestVoteDurable ==
    ASSUME DurableInv, NEW s \in Server, NEW m \in net, RequestVote(s, m)
    PROVE  DurableInv'
<1>1. TypeOK /\ TypeOK' /\ UNCHANGED <<applyCh, commitIndex>> /\ CommitGrows
  BY RequestVoteType, CommitKept, Zenon DEF DurableInv, RequestVote
<1>2. NoNewSnapshotCall
  <2>1. PICK t, g : Deliver(m, {VoteReply(m, t, g)})
    BY Zenon DEF RequestVote
  <2>2. VoteReply(m, t, g).type # "InstallSnapshot"
    BY Zenon DEF VoteReply
  <2> QED
    BY <2>1, <2>2, DeliverKeeps
<1>3. CASE DeniesVote(s, m)
  BY <1>1, <1>2, <1>3, UnchangedDurable, Zenon DEF RequestVote
<1>4. CASE ~DeniesVote(s, m)
  <2> DEFINE higher == m.term > currentTerm[s]
             grant == IsLogUpToDate(logs[s], m.lastLogIndex, m.lastLogTerm)
  <2>1. /\ currentTerm' = Set(currentTerm, s, m.term)
        /\ votedFor' = Set(votedFor, s, IF grant THEN m.from
                                        ELSE IF higher THEN Nil ELSE votedFor[s])
        /\ UNCHANGED logs /\ PersistIf(higher \/ grant, s)
    BY <1>4, Zenon DEF RequestVote
  <2>2. CASE higher \/ grant
    <3>1. ChangesOnly(s)
      BY <1>1, <2>1, Zenon DEF TypeOK, Set, ChangesOnly
    <3> QED
      BY <1>1, <1>2, <2>1, <2>2, <3>1, PersistDurable, Zenon DEF PersistIf
  <2>3. CASE ~(higher \/ grant)
    <3>1. m.term \in Nat /\ currentTerm[s] \in Nat
      BY <1>1, MessageKind, Zenon DEF TypeOK, RequestVote, RequestVoteArgs
    <3>2. m.term = currentTerm[s]
      BY <1>4, <2>3, <3>1 DEF DeniesVote
    <3>3. UNCHANGED <<persistent, disk>>
      BY <1>1, <2>1, <2>3, <3>2, Zenon DEF TypeOK, Set, PersistIf, persistent
    <3> QED
      BY <1>1, <1>2, <3>3, UnchangedDurable, Zenon
  <2> QED
    BY <2>2, <2>3, Zenon
<1> QED
  BY <1>3, <1>4, Zenon

LEMMA HandleRequestVoteReplyDurable ==
    ASSUME DurableInv, NEW s \in Server, NEW m \in net, HandleRequestVoteReply(s, m)
    PROVE  DurableInv'
<1>1. TypeOK /\ TypeOK' /\ UNCHANGED <<applyCh, commitIndex>> /\ CommitGrows
  BY HandleRequestVoteReplyType, CommitKept, Zenon DEF DurableInv, HandleRequestVoteReply
<1>2. NoNewSnapshotCall
  BY DeliverKeeps DEF HandleRequestVoteReply
<1>3. CASE UNCHANGED <<persistent, disk>>
  BY <1>1, <1>2, <1>3, UnchangedDurable, Zenon
<1>4. CASE StepDown(s, m.replyTerm)
  <2>1. m.replyTerm \in Nat
    BY <1>1, MessageKind, Zenon DEF TypeOK, HandleRequestVoteReply, RequestVoteReply
  <2> QED
    BY <1>1, <1>2, <1>4, <2>1, StepDownChanges, PersistDurable, Zenon
<1> QED
  BY <1>3, <1>4, Zenon DEF HandleRequestVoteReply

LEMMA StartDurable ==
    ASSUME DurableInv, NEW s \in Server, Start(s)
    PROVE  DurableInv'
<1> DEFINE l == [base |-> logs[s].base, terms |-> Append(logs[s].terms, currentTerm[s])]
<1>1. TypeOK /\ TypeOK' /\ UNCHANGED <<applyCh, commitIndex, net>> /\ CommitGrows
  BY StartType, CommitKept, Zenon DEF DurableInv, Start
<1>2. logs' = Set(logs, s, l) /\ UNCHANGED <<currentTerm, votedFor>> /\ Persist(s)
  BY Zenon DEF Start
<1>3. l.base = logs[s].base /\ l.terms[1] = logs[s].terms[1]
  <2>1. logs[s].terms \in Seq(Nat) /\ Len(logs[s].terms) \in Nat \ {0} /\ currentTerm[s] \in Nat
    BY <1>1, LogFacts, Zenon DEF TypeOK
  <2> QED
    BY <2>1
<1> HIDE DEF l
<1>4. ChangesOnly(s)
  BY <1>1, <1>2, Zenon DEF TypeOK, Set, ChangesOnly
<1>5. SnapshotsKept
  BY <1>1, <1>2, <1>3, PersistKeepsSnapshot, Zenon DEF TypeOK, Set, SnapshotsKept
<1>6. NoNewSnapshotCall
  BY <1>1, Zenon DEF NoNewSnapshotCall
<1>7. SnapshotInv'
  BY <1>1, <1>5, <1>6, SnapshotInvKept, Zenon DEF DurableInv
<1> QED
  BY <1>1, <1>2, <1>4, <1>7, PersistSync, Zenon DEF DurableInv

LEMMA ReplicateOnceRoundDurable ==
    ASSUME DurableInv, NEW s \in Server, NEW p \in Server, ReplicateOnceRound(s, p)
    PROVE  DurableInv'
<1>1. TypeOK /\ TypeOK' /\ UNCHANGED <<persistent, disk, applyCh, commitIndex>>
  BY ReplicateOnceRoundType, Zenon DEF DurableInv, ReplicateOnceRound
<1>2. CASE net' = net \cup {AppendArgs(s, p)}
  <2>1. AppendArgs(s, p).type # "InstallSnapshot"
    BY Zenon DEF AppendArgs
  <2>2. NoNewSnapshotCall
    BY <1>2, <2>1, Zenon DEF NoNewSnapshotCall
  <2> QED
    BY <1>1, <2>2, UnchangedDurable, CommitKept, Zenon
<1>3. CASE net' = net \cup {SnapshotArgs(s, p)}
  <2>1. DiskInSync'
    BY <1>1, Zenon DEF DurableInv, DiskInSync, persistent
  <2> DEFINE sn == SnapshotArgs(s, p).snap
  <2>2. EndsWith(sn.data, sn.index, sn.term)
    <3>0. logs[s] \in Log
      BY <1>1, Zenon DEF TypeOK
    <3>1. logs[s].base - logs[s].base + 1 = 1
      BY <3>0 DEF Log
    <3> QED
      BY <3>1, Zenon DEF DurableInv, SnapshotInv, SnapshotArgs, TermAt
  <2>3. SnapshotInv'
    BY <1>1, <1>3, <2>2, Zenon DEF DurableInv, SnapshotInv, persistent, EndsWith
  <2> QED
    BY <1>1, <2>1, <2>3, Zenon DEF DurableInv
<1> QED
  BY <1>2, <1>3, Zenon DEF ReplicateOnceRound

LEMMA AppendEntriesDurable ==
    ASSUME DurableInv, NEW s \in Server, NEW m \in net, AppendEntries(s, m)
    PROVE  DurableInv'
<1>1. TypeOK /\ TypeOK' /\ UNCHANGED applyCh
  BY AppendEntriesType, Zenon DEF DurableInv, AppendEntries
<1>2. m \in AppendEntriesArgs
  BY <1>1, MessageKind, Zenon DEF TypeOK, AppendEntries
<1>3. /\ m.term \in Nat /\ m.prevLogIndex \in Nat /\ m.entries \in Seq(Nat)
      /\ m.leaderCommit \in Nat /\ currentTerm[s] \in Nat /\ logs[s] \in Log
  BY <1>1, <1>2, Zenon DEF AppendEntriesArgs, TypeOK
<1>4. NoNewSnapshotCall
  <2>1. PICK t, b, i, c : Deliver(m, {AppendReply(m, t, b, i, c)})
    BY Zenon DEF AppendEntries, AppendRejected, AppendAccepted
  <2>2. AppendReply(m, t, b, i, c).type # "InstallSnapshot"
    BY Zenon DEF AppendReply
  <2> QED
    BY <2>1, <2>2, DeliverKeeps
<1>5. CASE UNCHANGED <<persistent, state, votes, disk, commitIndex>>
  BY <1>1, <1>4, <1>5, UnchangedDurable, CommitKept, Zenon
<1>6. CASE m.term >= currentTerm[s] /\ AdoptTerm(s, m.term) /\ AppendRejected(s, m)
  <2>1. UNCHANGED <<logs, commitIndex>> /\ PersistIf(m.term > currentTerm[s], s)
    BY <1>6, Zenon DEF AppendRejected
  <2>2. CASE m.term > currentTerm[s]
    <3>1. ChangesOnly(s) /\ Persist(s)
      BY <1>1, <1>6, <2>1, <2>2, Zenon DEF TypeOK, AdoptTerm, Set, ChangesOnly, PersistIf
    <3> QED
      BY <1>1, <1>4, <2>1, <3>1, PersistDurable, CommitKept, Zenon
  <2>3. CASE ~(m.term > currentTerm[s])
    <3>1. m.term = currentTerm[s]
      BY <1>3, <1>6, <2>3
    <3>2. UNCHANGED <<persistent, disk>>
      BY <1>1, <1>6, <2>1, <2>3, <3>1, Zenon DEF TypeOK, AdoptTerm, Set, PersistIf, persistent
    <3> QED
      BY <1>1, <1>4, <2>1, <3>2, UnchangedDurable, CommitKept, Zenon
  <2> QED
    BY <2>2, <2>3, Zenon
<1>7. CASE m.term >= currentTerm[s] /\ AdoptTerm(s, m.term) /\ AppendAccepted(s, m)
  <2> DEFINE l == Merge(logs[s], m.prevLogIndex, m.entries)
  <2>1. logs' = Set(logs, s, l) /\ PersistIf(m.term > currentTerm[s] \/ l # logs[s], s)
    BY <1>7, Zenon DEF AppendAccepted
  <2>2. m.prevLogIndex \in logs[s].base .. LastIndex(logs[s])
    BY <1>7, Zenon DEF AppendAccepted, IsLogMatched
  <2>3. l.base = logs[s].base /\ l.terms[1] = logs[s].terms[1]
    BY <1>3, <2>2, MergeKeepsFirst, Zenon
  <2>4. l \in Log /\ LastIndex(l) \in Nat
    BY <1>3, <2>2, MergeType, LogFacts, Zenon
  <2>5. CommitGrows
    <3> DEFINE n == IF m.leaderCommit < LastIndex(l) THEN m.leaderCommit ELSE LastIndex(l)
               c == IF n > commitIndex[s] THEN n ELSE commitIndex[s]
    <3>1. commitIndex \in [Server -> Nat] /\ commitIndex' = Set(commitIndex, s, c)
      BY <1>1, <1>7, Zenon DEF TypeOK, AppendAccepted
    <3>2. n \in Nat /\ commitIndex[s] \in Nat
      BY <1>3, <2>4, <3>1, Zenon
    <3> HIDE DEF n
    <3>3. c \in Nat /\ c >= commitIndex[s]
      BY <3>2
    <3> HIDE DEF c
    <3> QED
      BY <3>1, <3>3 DEF CommitGrows, Set
  <2> HIDE DEF l
  <2>6. CASE m.term > currentTerm[s] \/ l # logs[s]
    <3>1. ChangesOnly(s) /\ Persist(s)
      BY <1>1, <1>7, <2>1, <2>6, Zenon DEF TypeOK, AdoptTerm, Set, ChangesOnly, PersistIf
    <3>2. SnapshotsKept
      BY <1>1, <2>1, <2>3, <3>1, PersistKeepsSnapshot, Zenon DEF TypeOK, Set, SnapshotsKept
    <3>3. SnapshotInv'
      BY <1>1, <1>4, <2>5, <3>2, SnapshotInvKept, Zenon DEF DurableInv
    <3> QED
      BY <1>1, <3>1, <3>3, PersistSync, Zenon DEF DurableInv
  <2>7. CASE ~(m.term > currentTerm[s] \/ l # logs[s])
    <3>1. m.term = currentTerm[s]
      BY <1>3, <1>7, <2>7
    <3>2. UNCHANGED <<persistent, disk>>
      BY <1>1, <1>7, <2>1, <2>7, <3>1, Zenon DEF TypeOK, AdoptTerm, Set, PersistIf, persistent
    <3> QED
      BY <1>1, <1>4, <2>5, <3>2, UnchangedDurable, Zenon
  <2> QED
    BY <2>6, <2>7, Zenon
<1> QED
  BY <1>5, <1>6, <1>7, Zenon DEF AppendEntries

LEMMA HandleAppendEntriesReplyDurable ==
    ASSUME DurableInv, NEW s \in Server, NEW m \in net, HandleAppendEntriesReply(s, m)
    PROVE  DurableInv'
<1>1. TypeOK /\ TypeOK' /\ UNCHANGED applyCh
  BY HandleAppendEntriesReplyType, Zenon DEF DurableInv, HandleAppendEntriesReply
<1>2. NoNewSnapshotCall
  BY DeliverKeeps DEF HandleAppendEntriesReply
<1>3. CASE UNCHANGED <<persistent, disk, commitIndex>>
  BY <1>1, <1>2, <1>3, UnchangedDurable, CommitKept, Zenon
<1>4. CASE UNCHANGED <<persistent, disk>> /\ AdvanceCommitIndexForLeader(s, matchIndex'[s])
  <2>1. \A i \in logs[s].base .. LastIndex(logs[s]) : i \in Nat
    <3>1. logs[s] \in Log
      BY <1>1, Zenon DEF TypeOK
    <3> QED
      BY <3>1, LogFacts
  <2>2. CommitGrows
    BY <1>1, <1>4, <2>1
       DEF TypeOK, AdvanceCommitIndexForLeader, IsLogMatched, Set, CommitGrows
  <2> QED
    BY <1>1, <1>2, <1>4, <2>2, UnchangedDurable, Zenon
<1>5. CASE StepDown(s, m.replyTerm) /\ UNCHANGED commitIndex
  <2>1. m.replyTerm \in Nat
    BY <1>1, MessageKind, Zenon DEF TypeOK, HandleAppendEntriesReply, AppendEntriesReply
  <2> QED
    BY <1>1, <1>2, <1>5, <2>1, StepDownChanges, PersistDurable, CommitKept, Zenon
<1> QED
  BY <1>3, <1>4, <1>5, Zenon DEF HandleAppendEntriesReply

LEMMA InstallSnapshotDurable ==
    ASSUME DurableInv, NEW s \in Server, NEW m \in net, InstallSnapshot(s, m)
    PROVE  DurableInv'
<1>1. TypeOK /\ TypeOK' /\ CommitGrows
  BY InstallSnapshotType, CommitKept, Zenon DEF DurableInv, InstallSnapshot
<1>2. m.term \in Nat /\ currentTerm[s] \in Nat
  BY <1>1, MessageKind, Zenon DEF TypeOK, InstallSnapshot, InstallSnapshotArgs
<1>3. NoNewSnapshotCall
  BY DeliverKeeps DEF InstallSnapshot
<1>4. CASE UNCHANGED <<persistent, state, votes, disk, applyCh>>
  BY <1>1, <1>3, <1>4, UnchangedDurable, Zenon
<1>5. CASE /\ m.term >= currentTerm[s] /\ AdoptTerm(s, m.term) /\ UNCHANGED logs
           /\ PersistIf(m.term > currentTerm[s], s)
           /\ applyCh' = Set(applyCh, s, IF m.snap.index > commitIndex[s]
                                         THEN applyCh[s] \cup {m.snap} ELSE applyCh[s])
  <2>1. EndsWith(m.snap.data, m.snap.index, m.snap.term)
    BY Zenon DEF DurableInv, SnapshotInv, InstallSnapshot
  <2>2. \A p \in Server : \A snap \in applyCh'[p] :
            snap \in applyCh[p] \/ EndsWith(snap.data, snap.index, snap.term)
    BY <1>1, <1>5, <2>1, Zenon DEF TypeOK, Set
  <2>3. ChangesOnly(s)
    BY <1>1, <1>5, Zenon DEF TypeOK, AdoptTerm, Set, ChangesOnly
  <2>4. DiskInSync' /\ SnapshotsKept
    <3>1. CASE m.term > currentTerm[s]
      BY <1>1, <1>5, <2>3, <3>1, PersistSync, PersistKeepsSnapshot, Zenon
         DEF PersistIf, DurableInv, SnapshotsKept
    <3>2. CASE ~(m.term > currentTerm[s])
      <4>1. m.term = currentTerm[s]
        BY <1>2, <1>5, <3>2
      <4>2. UNCHANGED <<persistent, disk>>
        BY <1>1, <1>5, <3>2, <4>1, Zenon DEF TypeOK, AdoptTerm, Set, PersistIf, persistent
      <4> QED
        BY <4>2, Zenon DEF DurableInv, DiskInSync, SnapshotsKept, persistent
    <3> QED
      BY <3>1, <3>2, Zenon
  <2>5. SnapshotInv'
    BY <1>1, <1>3, <2>2, <2>4, SnapshotInvKept, Zenon DEF DurableInv
  <2> QED
    BY <1>1, <2>4, <2>5, Zenon DEF DurableInv
<1> QED
  BY <1>4, <1>5, Zenon DEF InstallSnapshot

LEMMA HandleInstallSnapshotReplyDurable ==
    ASSUME DurableInv, NEW s \in Server, NEW m \in net, HandleInstallSnapshotReply(s, m)
    PROVE  DurableInv'
<1>1. TypeOK /\ TypeOK' /\ UNCHANGED applyCh /\ CommitGrows
  BY HandleInstallSnapshotReplyType, CommitKept, Zenon DEF DurableInv, HandleInstallSnapshotReply
<1>2. NoNewSnapshotCall
  BY DeliverKeeps DEF HandleInstallSnapshotReply
<1>3. CASE UNCHANGED <<persistent, disk>>
  BY <1>1, <1>2, <1>3, UnchangedDurable, Zenon
<1>4. CASE StepDown(s, m.replyTerm)
  <2>1. m.replyTerm \in Nat
    BY <1>1, MessageKind DEF TypeOK, HandleInstallSnapshotReply, InstallSnapshotReply
  <2> QED
    BY <1>1, <1>2, <1>4, <2>1, StepDownChanges, PersistDurable, Zenon
<1> QED
  BY <1>3, <1>4, Zenon DEF HandleInstallSnapshotReply

\* Saving a compacted log together with the snapshot that replaces its entries.
LEMMA CompactDurable ==
    ASSUME DurableInv, TypeOK', NEW s \in Server, NEW i \in Nat, i >= logs[s].base,
           NEW t \in Nat, NEW data, EndsWith(data, i, t),
           logs' = Set(logs, s, Compact(logs[s], i, t)),
           UNCHANGED <<currentTerm, votedFor, net>>, SaveStateAndSnapshot(s, data),
           \A p \in Server \ {s} : commitIndex'[p] = commitIndex[p],
           commitIndex'[s] >= i,
           \A p \in Server : applyCh'[p] \subseteq applyCh[p]
    PROVE  DurableInv'
<1> DEFINE l == Compact(logs[s], i, t)
<1>1. TypeOK /\ logs[s] \in Log /\ logs \in [Server -> Log] /\ disk \in [Server -> Disk]
  BY Zenon DEF DurableInv, TypeOK
<1>2. l.base = i /\ l.terms[1] = t
  BY <1>1, CompactFirst, Zenon
<1> HIDE DEF l
<1>3. /\ logs'[s] = l /\ disk'[s].snapshot = data /\ disk'[s].log = l
      /\ disk'[s].currentTerm = currentTerm[s] /\ disk'[s].votedFor = votedFor[s]
      /\ \A p \in Server \ {s} : logs'[p] = logs[p] /\ disk'[p] = disk[p]
  BY <1>1, Zenon DEF l, SaveStateAndSnapshot, Set
<1>4. DiskInSync'
  BY <1>3, Zenon DEF DurableInv, DiskInSync
<1>5. \A p \in Server : EndsWith(disk'[p].snapshot, logs'[p].base, logs'[p].terms[1])
  BY <1>2, <1>3, Zenon DEF DurableInv, SnapshotInv
<1>6. \A p \in Server : commitIndex'[p] >= logs'[p].base
  BY <1>2, <1>3, Zenon DEF DurableInv, SnapshotInv
<1>7. \A m \in net' : m.type = "InstallSnapshot" =>
                          EndsWith(m.snap.data, m.snap.index, m.snap.term)
  BY Zenon DEF DurableInv, SnapshotInv
<1>8. \A p \in Server : \A snap \in applyCh'[p] : EndsWith(snap.data, snap.index, snap.term)
  BY Zenon DEF DurableInv, SnapshotInv
<1> QED
  BY <1>4, <1>5, <1>6, <1>7, <1>8, Zenon DEF DurableInv, SnapshotInv, EndsWith

LEMMA SnapshotDurable ==
    ASSUME DurableInv, NEW s \in Server, NEW index \in Nat, Snapshot(s, index)
    PROVE  DurableInv'
<1>1. TypeOK /\ TypeOK' /\ SnapshotInv
  BY SnapshotType, Zenon DEF DurableInv
<1>2. logs[s] \in Log /\ logs[s].base \in Nat /\ commitIndex[s] \in Nat
  BY <1>1, LogFacts, Zenon DEF TypeOK
<1>0. index =< commitIndex[s] /\ index > logs[s].base /\ index =< LastIndex(logs[s])
  BY Zenon DEF Snapshot
<1>3. index >= logs[s].base /\ commitIndex[s] >= index
  BY <1>0, <1>2
<1>4. TermAt(logs[s], index) \in Nat
  <2>1. index \in logs[s].base .. LastIndex(logs[s])
    BY <1>0, <1>2, LogFacts
  <2> QED
    BY <1>2, <2>1, LogFacts, Zenon
<1>5. EndsWith(SubSeq(FullLog(s), 1, index), index, TermAt(logs[s], index))
  BY <1>1, SnapshotData, Zenon
<1> DEFINE data == SubSeq(FullLog(s), 1, index)
           t == TermAt(logs[s], index)
<1>6. /\ logs' = Set(logs, s, Compact(logs[s], index, t))
      /\ UNCHANGED <<currentTerm, votedFor, net, commitIndex, applyCh>>
      /\ SaveStateAndSnapshot(s, data)
  BY Zenon DEF Snapshot
<1> HIDE DEF data, t
<1> QED
  BY <1>1, <1>3, <1>4, <1>5, <1>6, CompactDurable, Zenon DEF data, t

LEMMA CondInstallSnapshotDurable ==
    ASSUME DurableInv, NEW s \in Server, NEW snap \in applyCh[s], CondInstallSnapshot(s, snap)
    PROVE  DurableInv'
<1>1. TypeOK /\ TypeOK' /\ SnapshotInv /\ UNCHANGED <<currentTerm, votedFor, net>>
  BY CondInstallSnapshotType, Zenon DEF DurableInv, CondInstallSnapshot
<1>2. snap.index \in Nat /\ snap.term \in Nat /\ logs[s] \in Log /\ commitIndex[s] \in Nat
  BY <1>1 DEF TypeOK, Snap
<1>3. \A p \in Server : applyCh'[p] \subseteq applyCh[p]
  BY <1>1, ZenonT(30) DEF CondInstallSnapshot, TypeOK, Set
<1>4. CASE UNCHANGED <<logs, commitIndex, disk>>
  <2>1. DiskInSync'
    BY <1>1, <1>4, Zenon DEF DurableInv, DiskInSync
  <2>2. SnapshotInv'
    BY <1>1, <1>3, <1>4, Zenon DEF SnapshotInv, EndsWith
  <2> QED
    BY <1>1, <2>1, <2>2, Zenon DEF DurableInv
<1>5. CASE /\ snap.index > commitIndex[s]
           /\ logs' = Set(logs, s, Compact(logs[s], snap.index, snap.term))
           /\ commitIndex' = Set(commitIndex, s, snap.index)
           /\ SaveStateAndSnapshot(s, snap.data)
  <2>1. EndsWith(snap.data, snap.index, snap.term)
    BY <1>1, Zenon DEF SnapshotInv
  <2>2. snap.index >= logs[s].base
    <3>1. logs[s].base \in Nat /\ commitIndex[s] >= logs[s].base
      BY <1>1, <1>2, LogFacts, Zenon DEF SnapshotInv
    <3> QED
      BY <1>2, <1>5, <3>1
  <2>3. commitIndex'[s] >= snap.index
        /\ \A p \in Server \ {s} : commitIndex'[p] = commitIndex[p]
    BY <1>1, <1>2, <1>5 DEF TypeOK, Set
  <2> QED
    BY <1>1, <1>2, <1>3, <1>5, <2>1, <2>2, <2>3, CompactDurable, Zenon
<1> QED
  BY <1>4, <1>5, Zenon DEF CondInstallSnapshot

\* A peer made from a disk whose snapshot meets its log.
LEMMA MakeDurable ==
    ASSUME DurableInv, NEW s \in Server, NEW saved \in Disk, NEW lost, Make(s, saved, lost),
           EndsWith(saved.snapshot, saved.log.base, saved.log.terms[1])
    PROVE  DurableInv'
<1>1. TypeOK /\ TypeOK'
  BY MakeType, Zenon DEF DurableInv
<1>2. saved.log.base \in Nat
  BY Zenon DEF Disk, Log
<1>3. /\ disk'[s] = saved /\ currentTerm'[s] = saved.currentTerm
      /\ votedFor'[s] = saved.votedFor /\ logs'[s] = saved.log
      /\ commitIndex'[s] = saved.log.base /\ applyCh'[s] = {}
  <2>1. /\ disk' = Set(disk, s, saved) /\ currentTerm' = Set(currentTerm, s, saved.currentTerm)
        /\ votedFor' = Set(votedFor, s, saved.votedFor) /\ logs' = Set(logs, s, saved.log)
        /\ commitIndex' = Set(commitIndex, s, saved.log.base) /\ applyCh' = Set(applyCh, s, {})
    BY Zenon DEF Make
  <2>2. /\ s \in DOMAIN disk /\ s \in DOMAIN currentTerm /\ s \in DOMAIN votedFor
        /\ s \in DOMAIN logs /\ s \in DOMAIN commitIndex /\ s \in DOMAIN applyCh
    BY <1>1, Zenon DEF TypeOK
  <2>3. \A f, v : s \in DOMAIN f => Set(f, s, v)[s] = v
    BY Zenon DEF Set
  <2> QED
    BY <2>1, <2>2, <2>3, Zenon
<1>4. \A p \in Server \ {s} :
          /\ disk'[p] = disk[p] /\ currentTerm'[p] = currentTerm[p]
          /\ votedFor'[p] = votedFor[p] /\ logs'[p] = logs[p]
          /\ commitIndex'[p] = commitIndex[p] /\ applyCh'[p] = applyCh[p]
  BY <1>1, Zenon DEF Make, Set, TypeOK
<1>5. net' \subseteq net
  BY Zenon DEF Make
<1>6. DiskInSync'
  BY <1>3, <1>4, Zenon DEF DurableInv, DiskInSync
<1>7. \A p \in Server : EndsWith(disk'[p].snapshot, logs'[p].base, logs'[p].terms[1])
  BY <1>3, <1>4, Zenon DEF DurableInv, SnapshotInv
<1>8. \A p \in Server : commitIndex'[p] >= logs'[p].base
  <2>1. \A p \in Server : commitIndex[p] >= logs[p].base
    BY Zenon DEF DurableInv, SnapshotInv
  <2>2. commitIndex'[s] >= logs'[s].base
    BY <1>2, <1>3
  <2> QED
    BY <1>4, <2>1, <2>2, Zenon
<1>9. \A p \in Server : \A snap \in applyCh'[p] : EndsWith(snap.data, snap.index, snap.term)
  BY <1>3, <1>4, Zenon DEF DurableInv, SnapshotInv
<1>10. \A m \in net' : m.type = "InstallSnapshot" =>
                          EndsWith(m.snap.data, m.snap.index, m.snap.term)
  BY <1>5, Zenon DEF DurableInv, SnapshotInv
<1> QED
  BY <1>1, <1>6, <1>7, <1>8, <1>9, <1>10, Zenon DEF DurableInv, SnapshotInv, EndsWith

LEMMA SuccNat == \A n \in Nat : n + 1 \in Nat
OBVIOUS

\* What persist writes is a disk content.
LEMMA SavedIsDisk ==
    ASSUME NEW t \in Nat, NEW v \in Server \cup {Nil}, NEW l \in Log, NEW d \in Seq(Nat)
    PROVE  [currentTerm |-> t, votedFor |-> v, log |-> l, snapshot |-> d] \in Disk
BY Zenon DEF Disk

\* A crash, at the end of a critical section or between two persist calls.
LEMMA CrashDurable ==
    ASSUME DurableInv, NEW s \in Server,
           \/ Restart(s)
           \/ RestartInElection(s)
           \/ \E m \in net : RestartInRPC(s, m)
    PROVE  DurableInv'
<1>1. /\ disk[s] \in Disk /\ currentTerm[s] \in Nat /\ logs[s] \in Log
      /\ votedFor[s] \in Server \cup {Nil} /\ net \subseteq Message
  BY Zenon DEF DurableInv, TypeOK
<1>2. disk[s].snapshot \in Seq(Nat)
      /\ EndsWith(disk[s].snapshot, logs[s].base, logs[s].terms[1])
  BY <1>1, Zenon DEF DurableInv, SnapshotInv, Disk
<1>3. CASE Restart(s)
  <2>1. disk[s].log = logs[s]
    BY Zenon DEF DurableInv, DiskInSync
  <2> QED
    BY <1>1, <1>2, <1>3, <2>1, MakeDurable, Zenon DEF Restart
<1>4. CASE RestartInElection(s)
  <2> DEFINE saved == [currentTerm |-> currentTerm[s] + 1, votedFor |-> votedFor[s],
                       log |-> logs[s], snapshot |-> disk[s].snapshot]
  <2>1. currentTerm[s] + 1 \in Nat
    BY <1>1, SuccNat, Zenon
  <2>2. saved \in Disk
    BY <1>1, <1>2, <2>1, SavedIsDisk, Zenon
  <2>3. saved.snapshot = disk[s].snapshot /\ saved.log = logs[s]
    BY Zenon
  <2>4. Make(s, saved, {})
    BY <1>4, Zenon DEF RestartInElection
  <2> HIDE DEF saved
  <2>5. EndsWith(saved.snapshot, saved.log.base, saved.log.terms[1])
    BY <1>2, <2>3, Zenon
  <2> QED
    BY <2>2, <2>4, <2>5, MakeDurable, Zenon
<1>5. ASSUME NEW m \in net, RestartInRPC(s, m)
      PROVE  DurableInv'
  <2> DEFINE saved == [currentTerm |-> m.term, votedFor |-> Nil,
                       log |-> logs[s], snapshot |-> disk[s].snapshot]
  <2>1. m.term \in Nat
    BY <1>1, <1>5, MessageKind, Zenon DEF RestartInRPC, RequestVoteArgs, AppendEntriesArgs
  <2>2. saved \in Disk
    BY <1>1, <1>2, <2>1, SavedIsDisk, Zenon
  <2>3. saved.snapshot = disk[s].snapshot /\ saved.log = logs[s]
    BY Zenon
  <2>4. Make(s, saved, {m})
    BY <1>5, Zenon DEF RestartInRPC
  <2> HIDE DEF saved
  <2>5. EndsWith(saved.snapshot, saved.log.base, saved.log.terms[1])
    BY <1>2, <2>3, Zenon
  <2> QED
    BY <2>2, <2>4, <2>5, MakeDurable, Zenon
<1> QED
  BY <1>3, <1>4, <1>5, Zenon

LEMMA LoseDurable ==
    ASSUME DurableInv, NEW m \in net, Lose(m)
    PROVE  DurableInv'
<1>1. TypeOK /\ TypeOK'
  BY Zenon DEF DurableInv, TypeOK, Lose, persistent
<1>2. NoNewSnapshotCall /\ CommitGrows
  BY <1>1, CommitKept, Zenon DEF Lose, NoNewSnapshotCall
<1> QED
  BY <1>1, <1>2, UnchangedDurable, Zenon DEF Lose

LEMMA InitDurable == Init => DurableInv
<1> SUFFICES ASSUME Init PROVE DurableInv
  BY Zenon
<1>1. EmptyLog \in Log /\ EmptyLog.base = 0 /\ EmptyLog.terms[1] = 0
  BY DEF EmptyLog, Log
<1>2. [currentTerm |-> 0, votedFor |-> Nil, log |-> EmptyLog, snapshot |-> <<>>] \in Disk
  BY <1>1 DEF Disk
<1>3. TypeOK
  BY <1>1, <1>2, Zenon DEF Init, TypeOK
<1>4. DiskInSync
  BY Zenon DEF Init, DiskInSync
<1>5. SnapshotInv
  <2>1. \A p \in Server : /\ logs[p] = EmptyLog /\ disk[p].snapshot = <<>>
                          /\ commitIndex[p] = 0 /\ applyCh[p] = {}
    BY Zenon DEF Init
  <2>2. net = {}
    BY Zenon DEF Init
  <2>3. EndsWith(<<>>, 0, 0)
    BY DEF EndsWith
  <2> QED
    BY <1>1, <2>1, <2>2, <2>3 DEF SnapshotInv
<1> QED
  BY <1>3, <1>4, <1>5, Zenon DEF DurableInv

\* Every step of the cluster preserves the invariant.
LEMMA NextDurable == DurableInv /\ [Next]_vars => DurableInv'
<1> SUFFICES ASSUME DurableInv, [Next]_vars PROVE DurableInv'
  BY Zenon
<1>1. ASSUME NEW s \in Server, ElectionTimeout(s) PROVE DurableInv'
  BY <1>1, ElectionTimeoutDurable, Zenon
<1>2. ASSUME NEW s \in Server, NEW m \in net, RequestVote(s, m) PROVE DurableInv'
  BY <1>2, RequestVoteDurable, Zenon
<1>3. ASSUME NEW s \in Server, NEW m \in net, HandleRequestVoteReply(s, m) PROVE DurableInv'
  BY <1>3, HandleRequestVoteReplyDurable, Zenon
<1>4. ASSUME NEW s \in Server, Start(s) PROVE DurableInv'
  BY <1>4, StartDurable, Zenon
<1>5. ASSUME NEW s \in Server, NEW p \in Server, ReplicateOnceRound(s, p) PROVE DurableInv'
  BY <1>5, ReplicateOnceRoundDurable, Zenon
<1>6. ASSUME NEW s \in Server, NEW m \in net, AppendEntries(s, m) PROVE DurableInv'
  BY <1>6, AppendEntriesDurable, Zenon
<1>7. ASSUME NEW s \in Server, NEW m \in net, HandleAppendEntriesReply(s, m) PROVE DurableInv'
  BY <1>7, HandleAppendEntriesReplyDurable, Zenon
<1>8. ASSUME NEW s \in Server, NEW i \in 1 .. MaxSnapshot, Snapshot(s, i) PROVE DurableInv'
  <2>1. i \in Nat
    BY BoundAssumption
  <2> QED
    BY <1>8, <2>1, SnapshotDurable, Zenon
<1>9. ASSUME NEW s \in Server, NEW m \in net, InstallSnapshot(s, m) PROVE DurableInv'
  BY <1>9, InstallSnapshotDurable, Zenon
<1>10. ASSUME NEW s \in Server, NEW m \in net, HandleInstallSnapshotReply(s, m)
       PROVE  DurableInv'
  BY <1>10, HandleInstallSnapshotReplyDurable, Zenon
<1>11. ASSUME NEW s \in Server, NEW snap \in applyCh[s], CondInstallSnapshot(s, snap)
       PROVE  DurableInv'
  BY <1>11, CondInstallSnapshotDurable, Zenon
<1>12. ASSUME NEW s \in Server,
              Restart(s) \/ RestartInElection(s) \/ \E m \in net : RestartInRPC(s, m)
       PROVE  DurableInv'
  BY <1>12, CrashDurable, Zenon
<1>13. ASSUME NEW m \in net, Lose(m) PROVE DurableInv'
  BY <1>13, LoseDurable, Zenon
<1>14. CASE UNCHANGED vars
  <2>1. TypeOK'
    BY <1>14, Zenon DEF vars, DurableInv, TypeOK
  <2>2. DiskInSync'
    BY <1>14, Zenon DEF vars, DurableInv, DiskInSync
  <2>3. SnapshotInv'
    BY <1>14, Zenon DEF vars, DurableInv, SnapshotInv, EndsWith
  <2> QED
    BY <2>1, <2>2, <2>3, Zenon DEF DurableInv
<1> QED
  BY <1>1, <1>2, <1>3, <1>4, <1>5, <1>6, <1>7, <1>8, <1>9, <1>10, <1>11, <1>12, <1>13,
     <1>14, Zenon DEF Next

-----------------------------------------------------------------------------
(* Votes. *)

LEMMA ClaimsAreGrants ==
    ASSUME NEW p \in Server, NEW s \in Server, NEW t
    PROVE  <<p, s, t>> \in Grants <=> Claim(p, s, t)
<1>1. <<p, s, t>> \in CountedVotes <=> p \in votes[s] /\ t = currentTerm[s]
  BY DEF CountedVotes
<1>2. <<p, s, t>> \in GrantedVotes <=>
          \E m \in net : Granted(m) /\ m.from = p /\ m.to = s /\ m.term = t
  BY Zenon DEF GrantedVotes, Granted
<1> QED
  BY <1>1, <1>2, Zenon DEF Grants, Claim

LEMMA GrantsAreTyped ==
    ASSUME TypeOK, NEW g \in Grants
    PROVE  \E p, s \in Server, t \in Nat : g = <<p, s, t>>
<1>1. CASE \E s \in Server : \E p \in votes[s] : g = <<p, s, currentTerm[s]>>
  <2>1. PICK s \in Server : \E p \in votes[s] : g = <<p, s, currentTerm[s]>>
    BY <1>1, Zenon
  <2>2. PICK p \in votes[s] : g = <<p, s, currentTerm[s]>>
    BY <2>1, Zenon
  <2>3. p \in Server /\ currentTerm[s] \in Nat
    BY Zenon DEF TypeOK
  <2> QED
    BY <2>2, <2>3, Zenon
<1>2. CASE \E m \in net : Granted(m) /\ g = <<m.from, m.to, m.term>>
  <2>1. PICK m \in net : Granted(m) /\ g = <<m.from, m.to, m.term>>
    BY <1>2, Zenon
  <2>2. m.from \in Server /\ m.to \in Server /\ m.term \in Nat
    BY <2>1, MessageKind, Zenon DEF TypeOK, Granted, RequestVoteReply
  <2> QED
    BY <2>1, <2>2, Zenon
<1>3. CASE g \in CountedVotes
  BY <1>1, <1>3, Zenon DEF CountedVotes
<1>4. CASE g \in GrantedVotes
  BY <1>2, <1>4, Zenon DEF GrantedVotes, Granted
<1> QED
  BY <1>3, <1>4, Zenon DEF Grants

\* The form TLC checks and the form the proof uses are the same.
LEMMA VoteInvIsClaimInv ==
    ASSUME TypeOK, ClaimInv
    PROVE  VoteInv
<1>1. ASSUME NEW g \in Grants
      PROVE  currentTerm[g[1]] > g[3] \/ (currentTerm[g[1]] = g[3] /\ votedFor[g[1]] = g[2])
  <2>1. PICK p, s \in Server, t \in Nat : g = <<p, s, t>>
    BY GrantsAreTyped, Zenon
  <2>2. Claim(p, s, t)
    BY <2>1, ClaimsAreGrants, Zenon
  <2> QED
    BY <2>1, <2>2, Zenon DEF ClaimInv
<1>2. ASSUME NEW g \in Grants, NEW h \in Grants, g[1] = h[1], g[3] = h[3]
      PROVE  g[2] = h[2]
  <2>1. PICK p, s \in Server, t \in Nat : g = <<p, s, t>>
    BY GrantsAreTyped, Zenon
  <2>2. PICK q, r \in Server, u \in Nat : h = <<q, r, u>>
    BY GrantsAreTyped, Zenon
  <2>3. q = p /\ u = t
    BY <1>2, <2>1, <2>2, Zenon
  <2>4. Claim(p, s, t) /\ Claim(p, r, t)
    BY <2>1, <2>2, <2>3, ClaimsAreGrants, Zenon
  <2> QED
    BY <2>1, <2>2, <2>4, Zenon DEF ClaimInv
<1> QED
  BY <1>1, <1>2, Zenon DEF VoteInv, ClaimInv

\* The heart of the argument: the four step properties preserve the invariant.
LEMMA ClaimInvPreserved ==
    ASSUME TypeOK, TypeOK', ClaimInv, VoteStep, CountStep, ReplyStep, LeaderStep
    PROVE  ClaimInv'
<1>1. ASSUME NEW p \in Server, NEW s \in Server, NEW t \in Nat, Claim(p, s, t)'
      PROVE  Claim(p, s, t) \/ Casts(p, s, t)
  <2>1. CASE p \in votes'[s] /\ t = currentTerm'[s]
    BY <2>1, Zenon DEF CountStep
  <2>2. CASE \E m \in net' : Granted(m) /\ m.from = p /\ m.to = s /\ m.term = t
    BY <2>2, Zenon DEF ReplyStep, Claim
  <2> QED
    BY <1>1, <2>1, <2>2, Zenon DEF Claim, Granted
<1>2. \A p \in Server : currentTerm[p] \in Nat /\ currentTerm'[p] \in Nat
  BY Zenon DEF TypeOK
<1>3. ASSUME NEW p \in Server, NEW s \in Server, NEW t \in Nat, Claim(p, s, t)
      PROVE  currentTerm'[p] > t \/ (currentTerm'[p] = t /\ votedFor'[p] = s)
  <2>1. s # Nil
    BY ServerAssumption, Zenon
  <2>2. currentTerm[p] > t \/ (currentTerm[p] = t /\ votedFor[p] = s)
    BY <1>3, Zenon DEF ClaimInv
  <2> QED
    BY <1>2, <2>1, <2>2 DEF VoteStep
<1>4. ASSUME NEW p \in Server, NEW s \in Server, NEW t \in Nat, Claim(p, s, t)'
      PROVE  currentTerm'[p] > t \/ (currentTerm'[p] = t /\ votedFor'[p] = s)
  BY <1>1, <1>3, <1>4, Zenon DEF Casts
<1>5. ASSUME NEW p \in Server, NEW s \in Server, NEW r \in Server, NEW t \in Nat,
             Claim(p, s, t), Casts(p, r, t)
      PROVE  s = r
  <2>1. s # Nil
    BY ServerAssumption, Zenon
  <2>2. currentTerm[p] > t \/ (currentTerm[p] = t /\ votedFor[p] = s)
    BY <1>5, Zenon DEF ClaimInv
  <2> QED
    BY <1>2, <1>5, <2>1, <2>2 DEF Casts
<1>6. ASSUME NEW p \in Server, NEW s \in Server, NEW r \in Server, NEW t \in Nat,
             Claim(p, s, t)', Claim(p, r, t)'
      PROVE  s = r
  <2>1. CASE Claim(p, s, t) /\ Claim(p, r, t)
    BY <2>1, Zenon DEF ClaimInv
  <2>2. CASE Casts(p, s, t) /\ Casts(p, r, t)
    BY <2>2, Zenon DEF Casts
  <2>3. CASE Claim(p, s, t) /\ Casts(p, r, t)
    BY <1>5, <2>3, Zenon
  <2>4. CASE Casts(p, s, t) /\ Claim(p, r, t)
    BY <1>5, <2>4, Zenon
  <2> QED
    BY <1>1, <1>6, <2>1, <2>2, <2>3, <2>4, Zenon
<1>7. \A s \in Server : state'[s] = "Leader" => 2 * Cardinality(votes'[s]) > Cardinality(Server)
  BY Zenon DEF LeaderStep, ClaimInv
<1> QED
  BY <1>4, <1>6, <1>7, Zenon DEF ClaimInv

\* Steps that change neither terms, votes nor roles.
LEMMA QuietStep ==
    ASSUME TypeOK, UNCHANGED <<currentTerm, votedFor, state, votes>>, NoNewGrant
    PROVE  VoteSafeStep
BY DEF VoteSafeStep, TypeOK, VoteStep, CountStep, ReplyStep, LeaderStep, NoNewGrant, Claim

\* Steps that adopt the term of a message and fall back to follower.
LEMMA AdoptStep ==
    ASSUME TypeOK, NEW s \in Server, NEW t \in Nat, t >= currentTerm[s],
           AdoptTerm(s, t), BecomeFollower(s), NoNewGrant
    PROVE  VoteSafeStep
<1>1. \A p \in Server : currentTerm[p] \in Nat
  BY Zenon DEF TypeOK
<1>2. \A p \in Server \ {s} : /\ currentTerm'[p] = currentTerm[p] /\ votedFor'[p] = votedFor[p]
                              /\ state'[p] = state[p] /\ votes'[p] = votes[p]
  BY Zenon DEF TypeOK, AdoptTerm, BecomeFollower, Set
<1>3. /\ currentTerm'[s] = t /\ votedFor'[s] = IF t > currentTerm[s] THEN Nil ELSE votedFor[s]
      /\ state'[s] = "Follower" /\ votes'[s] = {}
  BY Zenon DEF TypeOK, AdoptTerm, BecomeFollower, Set
<1>4. VoteStep
  BY <1>1, <1>2, <1>3 DEF VoteStep
<1>5. CountStep
  BY <1>2, <1>3, Zenon DEF CountStep, Claim
<1>6. ReplyStep
  BY Zenon DEF ReplyStep, NoNewGrant
<1>7. LeaderStep
  BY <1>2, <1>3, Zenon DEF LeaderStep
<1> QED
  BY <1>4, <1>5, <1>6, <1>7, Zenon DEF VoteSafeStep

LEMMA ElectionTimeoutVotes ==
    ASSUME TypeOK, NEW s \in Server, ElectionTimeout(s)
    PROVE  VoteSafeStep
<1>1. \A p \in Server : currentTerm[p] \in Nat
  BY Zenon DEF TypeOK
<1>2. \A p \in Server \ {s} : /\ currentTerm'[p] = currentTerm[p] /\ votedFor'[p] = votedFor[p]
                              /\ state'[p] = state[p] /\ votes'[p] = votes[p]
  BY Zenon DEF TypeOK, ElectionTimeout, Set
<1>3. /\ currentTerm'[s] = currentTerm[s] + 1 /\ votedFor'[s] = s
      /\ state'[s] = "Candidate" /\ votes'[s] = {s}
  BY Zenon DEF TypeOK, ElectionTimeout, Set
<1>4. VoteStep
  BY <1>1, <1>2, <1>3 DEF VoteStep
<1>5. CountStep
  <2> SUFFICES ASSUME NEW q \in Server, NEW p \in votes'[q]
               PROVE  Claim(p, q, currentTerm'[q]) \/ Casts(p, q, currentTerm'[q])
    BY Zenon DEF CountStep
  <2>1. CASE q = s
    BY <1>1, <1>3, <2>1 DEF Casts
  <2>2. CASE q # s
    BY <1>2, <2>2, Zenon DEF Claim
  <2> QED
    BY <2>1, <2>2, Zenon
<1>6. ReplyStep
  BY TimeoutSends, Zenon DEF ReplyStep, Granted
<1>7. LeaderStep
  BY <1>2, <1>3, Zenon DEF LeaderStep
<1> QED
  BY <1>4, <1>5, <1>6, <1>7, Zenon DEF VoteSafeStep

LEMMA RequestVoteVotes ==
    ASSUME TypeOK, NEW s \in Server, NEW m \in net, RequestVote(s, m)
    PROVE  VoteSafeStep
<1>1. m.term \in Nat /\ m.from \in Server /\ m.to = s
  BY MessageKind, Zenon DEF TypeOK, RequestVote, RequestVoteArgs
<1>2. \A p \in Server : currentTerm[p] \in Nat
  BY Zenon DEF TypeOK
<1>3. CASE DeniesVote(s, m)
  <2>1. /\ Deliver(m, {VoteReply(m, currentTerm[s], FALSE)})
        /\ UNCHANGED <<currentTerm, votedFor, state, votes>>
    BY <1>3, Zenon DEF RequestVote, persistent
  <2>2. ~Granted(VoteReply(m, currentTerm[s], FALSE))
    BY Zenon DEF Granted, VoteReply
  <2> QED
    BY <2>1, <2>2, DeliverGrantsNothing, QuietStep, Zenon
<1>4. CASE ~DeniesVote(s, m)
  <2> DEFINE higher == m.term > currentTerm[s]
             grant == IsLogUpToDate(logs[s], m.lastLogIndex, m.lastLogTerm)
  <2>1. /\ currentTerm' = Set(currentTerm, s, m.term)
        /\ votedFor' = Set(votedFor, s, IF grant THEN m.from
                                        ELSE IF higher THEN Nil ELSE votedFor[s])
        /\ IF higher THEN BecomeFollower(s) ELSE UNCHANGED <<state, votes>>
        /\ Deliver(m, {VoteReply(m, m.term, grant)})
    BY <1>4, Zenon DEF RequestVote
  <2> HIDE DEF grant
  <2>2. \A p \in Server \ {s} : /\ currentTerm'[p] = currentTerm[p]
                                /\ votedFor'[p] = votedFor[p]
                                /\ state'[p] = state[p] /\ votes'[p] = votes[p]
    BY <2>1, Zenon DEF TypeOK, BecomeFollower, Set
  <2>3. /\ currentTerm'[s] = m.term
        /\ votedFor'[s] = IF grant THEN m.from ELSE IF higher THEN Nil ELSE votedFor[s]
    BY <2>1, Zenon DEF TypeOK, Set
  <2>4. \/ higher /\ state'[s] = "Follower" /\ votes'[s] = {}
        \/ m.term = currentTerm[s] /\ state'[s] = state[s] /\ votes'[s] = votes[s]
    <3>1. CASE higher
      BY <2>1, <3>1, Zenon DEF TypeOK, BecomeFollower, Set
    <3>2. CASE ~higher
      BY <1>1, <1>2, <1>4, <2>1, <3>2 DEF DeniesVote
    <3> QED
      BY <3>1, <3>2, Zenon
  <2>5. higher \/ (m.term = currentTerm[s] /\ votedFor[s] \in {Nil, m.from})
    BY <1>1, <1>2, <1>4 DEF DeniesVote
  <2>6. VoteStep
    BY <1>1, <1>2, <2>2, <2>3, <2>5 DEF VoteStep
  <2>7. CountStep
    BY <2>2, <2>3, <2>4, Zenon DEF CountStep, Claim
  <2>8. ReplyStep
    <3>1. CASE grant
      <4>1. Casts(s, m.from, m.term)
        BY <1>1, <1>2, <2>3, <2>5, <3>1 DEF Casts
      <4> DEFINE r == VoteReply(m, m.term, grant)
      <4>2. r.from = s /\ r.to = m.from /\ r.term = m.term
        BY <1>1, Zenon DEF VoteReply
      <4>3. \A x \in net' : x \in net \/ x = r
        BY <2>1 DEF Deliver
      <4> HIDE DEF r
      <4> QED
        BY <4>1, <4>2, <4>3, Zenon DEF ReplyStep
    <3>2. CASE ~grant
      <4>1. ~Granted(VoteReply(m, m.term, grant))
        BY <3>2, Zenon DEF Granted, VoteReply
      <4> QED
        BY <2>1, <4>1, DeliverGrantsNothing, Zenon DEF ReplyStep, NoNewGrant
    <3> QED
      BY <3>1, <3>2, Zenon
  <2>9. LeaderStep
    BY <2>2, <2>4, Zenon DEF LeaderStep
  <2> QED
    BY <2>6, <2>7, <2>8, <2>9, Zenon DEF VoteSafeStep
<1> QED
  BY <1>3, <1>4, Zenon

LEMMA StepDownStep ==
    ASSUME TypeOK, NEW s \in Server, NEW t \in Nat, t > currentTerm[s], StepDown(s, t),
           NoNewGrant
    PROVE  VoteSafeStep
<1>1. t >= currentTerm[s]
  BY DEF TypeOK
<1> QED
  BY <1>1, AdoptStep, Zenon DEF StepDown

LEMMA HandleRequestVoteReplyVotes ==
    ASSUME TypeOK, NEW s \in Server, NEW m \in net, HandleRequestVoteReply(s, m)
    PROVE  VoteSafeStep
<1>1. m \in RequestVoteReply /\ m.type = "RequestVoteReply" /\ m.to = s
  BY MessageKind, Zenon DEF TypeOK, HandleRequestVoteReply
<1>2. m.from \in Server /\ m.replyTerm \in Nat
  BY <1>1, Zenon DEF RequestVoteReply
<1>3. NoNewGrant
  <2>1. Deliver(m, {})
    BY Zenon DEF HandleRequestVoteReply
  <2> QED
    BY <2>1, DeliverGrantsNothing
<1>4. CASE UNCHANGED <<persistent, state, votes, disk, staleMatch>>
  BY <1>3, <1>4, QuietStep, Zenon DEF persistent
<1>5. CASE m.replyTerm > currentTerm[s] /\ StepDown(s, m.replyTerm)
  BY <1>2, <1>3, <1>5, StepDownStep, Zenon
<1>6. CASE /\ m.voteGranted /\ m.term = currentTerm[s]
           /\ \E w \in BOOLEAN :
                /\ votes' = Set(votes, s, votes[s] \cup {m.from})
                /\ w => 2 * Cardinality(votes[s] \cup {m.from}) > Cardinality(Server)
                /\ state' = Set(state, s, IF w THEN "Leader" ELSE "Candidate")
           /\ UNCHANGED <<persistent, disk>>
  <2>1. UNCHANGED <<currentTerm, votedFor>>
    BY <1>6, Zenon DEF persistent
  <2>2. \A p \in Server \ {s} : state'[p] = state[p] /\ votes'[p] = votes[p]
    BY <1>6, Zenon DEF TypeOK, Set
  <2>3. votes'[s] = votes[s] \cup {m.from}
    BY <1>6, Zenon DEF TypeOK, Set
  <2>4. state'[s] = "Leader" => 2 * Cardinality(votes[s] \cup {m.from}) > Cardinality(Server)
    BY <1>6, Zenon DEF TypeOK, Set
  <2>5. VoteStep
    BY <2>1 DEF TypeOK, VoteStep
  <2>6. Claim(m.from, s, currentTerm[s])
    BY <1>1, <1>6, Zenon DEF Claim, Granted
  <2>7. CountStep
    BY <2>1, <2>2, <2>3, <2>6, Zenon DEF CountStep, Claim
  <2>8. ReplyStep
    BY <1>3, Zenon DEF ReplyStep, NoNewGrant
  <2>9. LeaderStep
    BY <2>2, <2>3, <2>4, Zenon DEF LeaderStep
  <2> QED
    BY <2>5, <2>7, <2>8, <2>9, Zenon DEF VoteSafeStep
<1> QED
  <2>1. CASE m.term # currentTerm[s] \/ state[s] # "Candidate"
    BY <1>4, <2>1, Zenon DEF HandleRequestVoteReply
  <2>2. CASE m.term = currentTerm[s] /\ state[s] = "Candidate" /\ m.voteGranted
    <3> DEFINE granted == votes[s] \cup {m.from}
               wins == 2 * Cardinality(granted) > Cardinality(Server)
    <3>1. /\ votes' = Set(votes, s, granted)
          /\ state' = Set(state, s, IF wins THEN "Leader" ELSE "Candidate")
          /\ UNCHANGED <<persistent, disk>>
      BY <2>2, Zenon DEF HandleRequestVoteReply
    <3>2. wins \in BOOLEAN
      OBVIOUS
    <3>3. \E w \in BOOLEAN : (w <=> wins)
                            /\ state' = Set(state, s, IF w THEN "Leader" ELSE "Candidate")
      <4>1. CASE wins
        BY <3>1, <4>1, Zenon
      <4>2. CASE ~wins
        BY <3>1, <4>2, Zenon
      <4> QED
        BY <4>1, <4>2, Zenon
    <3> QED
      BY <1>6, <2>2, <3>1, <3>3, Zenon
  <2>3. CASE m.term = currentTerm[s] /\ state[s] = "Candidate" /\ ~m.voteGranted
    BY <1>4, <1>5, <2>3, Zenon DEF HandleRequestVoteReply
  <2> QED
    BY <2>1, <2>2, <2>3, Zenon

LEMMA AppendEntriesVotes ==
    ASSUME TypeOK, NEW s \in Server, NEW m \in net, AppendEntries(s, m)
    PROVE  VoteSafeStep
<1>1. m.term \in Nat
  BY MessageKind, Zenon DEF TypeOK, AppendEntries, AppendEntriesArgs
<1>2. NoNewGrant
  <2>1. PICK t, b, i, c : Deliver(m, {AppendReply(m, t, b, i, c)})
    BY Zenon DEF AppendEntries, AppendRejected, AppendAccepted
  <2>2. ~Granted(AppendReply(m, t, b, i, c))
    BY Zenon DEF AppendReply, Granted
  <2> QED
    BY <2>1, <2>2, DeliverGrantsNothing, Zenon
<1>3. CASE UNCHANGED <<persistent, state, votes, disk, commitIndex>>
  BY <1>2, <1>3, QuietStep, Zenon DEF persistent
<1>4. CASE m.term >= currentTerm[s] /\ AdoptTerm(s, m.term) /\ BecomeFollower(s)
  BY <1>1, <1>2, <1>4, AdoptStep, Zenon
<1> QED
  BY <1>3, <1>4, Zenon DEF AppendEntries

LEMMA HandleAppendEntriesReplyVotes ==
    ASSUME TypeOK, NEW s \in Server, NEW m \in net, HandleAppendEntriesReply(s, m)
    PROVE  VoteSafeStep
<1>1. m.replyTerm \in Nat
  BY MessageKind, Zenon DEF TypeOK, HandleAppendEntriesReply, AppendEntriesReply
<1>2. NoNewGrant
  BY DeliverGrantsNothing DEF HandleAppendEntriesReply
<1>3. CASE UNCHANGED <<persistent, state, votes>>
  BY <1>2, <1>3, QuietStep, Zenon DEF persistent
<1>4. CASE m.replyTerm > currentTerm[s] /\ StepDown(s, m.replyTerm)
  BY <1>1, <1>2, <1>4, StepDownStep, Zenon
<1> QED
  BY <1>3, <1>4, Zenon DEF HandleAppendEntriesReply

LEMMA InstallSnapshotVotes ==
    ASSUME TypeOK, NEW s \in Server, NEW m \in net, InstallSnapshot(s, m)
    PROVE  VoteSafeStep
<1>1. m.term \in Nat
  BY MessageKind, Zenon DEF TypeOK, InstallSnapshot, InstallSnapshotArgs
<1>2. NoNewGrant
  BY DeliverGrantsNothing, SMTT(30) DEF InstallSnapshot, Granted
<1>3. CASE UNCHANGED <<persistent, state, votes, disk, applyCh>>
  BY <1>2, <1>3, QuietStep, Zenon DEF persistent
<1>4. CASE m.term >= currentTerm[s] /\ AdoptTerm(s, m.term) /\ BecomeFollower(s)
  BY <1>1, <1>2, <1>4, AdoptStep, Zenon
<1> QED
  BY <1>3, <1>4, Zenon DEF InstallSnapshot

LEMMA HandleInstallSnapshotReplyVotes ==
    ASSUME TypeOK, NEW s \in Server, NEW m \in net, HandleInstallSnapshotReply(s, m)
    PROVE  VoteSafeStep
<1>1. m.replyTerm \in Nat
  BY MessageKind DEF TypeOK, HandleInstallSnapshotReply, InstallSnapshotReply
<1>2. NoNewGrant
  BY DeliverGrantsNothing DEF HandleInstallSnapshotReply
<1>3. CASE UNCHANGED <<persistent, state, votes>>
  BY <1>2, <1>3, QuietStep, Zenon DEF persistent
<1>4. CASE m.replyTerm > currentTerm[s] /\ StepDown(s, m.replyTerm)
  BY <1>1, <1>2, <1>4, StepDownStep, Zenon
<1> QED
  BY <1>3, <1>4, Zenon DEF HandleInstallSnapshotReply

LEMMA ReplicateOnceRoundVotes ==
    ASSUME TypeOK, NEW s \in Server, NEW p \in Server, ReplicateOnceRound(s, p)
    PROVE  VoteSafeStep
<1>1. ~Granted(AppendArgs(s, p)) /\ ~Granted(SnapshotArgs(s, p))
  BY Zenon DEF Granted, AppendArgs, SnapshotArgs
<1>2. NoNewGrant
  BY <1>1, Zenon DEF ReplicateOnceRound, NoNewGrant
<1> QED
  BY <1>2, QuietStep, Zenon DEF ReplicateOnceRound, persistent

\* A peer that comes back keeps its vote, or comes back in a later term.
LEMMA MakeVotes ==
    ASSUME TypeOK, NEW s \in Server, NEW saved \in Disk, NEW lost, Make(s, saved, lost),
           \/ saved.currentTerm > currentTerm[s]
           \/ saved.currentTerm = currentTerm[s] /\ saved.votedFor = votedFor[s]
    PROVE  VoteSafeStep
<1>1. saved.currentTerm \in Nat /\ \A p \in Server : currentTerm[p] \in Nat
  BY Zenon DEF Disk, TypeOK
<1>2. \A p \in Server \ {s} : /\ currentTerm'[p] = currentTerm[p] /\ votedFor'[p] = votedFor[p]
                              /\ state'[p] = state[p] /\ votes'[p] = votes[p]
  BY Zenon DEF TypeOK, Make, BecomeFollower, Set
<1>3. /\ currentTerm'[s] = saved.currentTerm /\ votedFor'[s] = saved.votedFor
      /\ state'[s] = "Follower" /\ votes'[s] = {}
  BY Zenon DEF TypeOK, Make, BecomeFollower, Set
<1>4. VoteStep
  <2>1. \A p \in Server \ {s} : currentTerm'[p] >= currentTerm[p]
    BY <1>1, <1>2
  <2>2. currentTerm'[s] >= currentTerm[s]
    BY <1>1, <1>3
  <2>3. currentTerm'[s] = currentTerm[s] => votedFor'[s] = votedFor[s]
    BY <1>1, <1>3
  <2> QED
    BY <1>2, <2>1, <2>2, <2>3, Zenon DEF VoteStep
<1>5. CountStep
  BY <1>2, <1>3, Zenon DEF CountStep, Claim
<1>6. ReplyStep
  BY Zenon DEF Make, ReplyStep
<1>7. LeaderStep
  BY <1>2, <1>3, Zenon DEF LeaderStep
<1> QED
  BY <1>4, <1>5, <1>6, <1>7, Zenon DEF VoteSafeStep

LEMMA CrashVotes ==
    ASSUME DurableInv, NEW s \in Server,
           \/ Restart(s)
           \/ RestartInElection(s)
           \/ \E m \in net : RestartInRPC(s, m)
    PROVE  VoteSafeStep
<1>1. /\ disk[s] \in Disk /\ currentTerm[s] \in Nat /\ logs[s] \in Log
      /\ votedFor[s] \in Server \cup {Nil} /\ net \subseteq Message /\ TypeOK
  BY Zenon DEF DurableInv, TypeOK
<1>2. disk[s].snapshot \in Seq(Nat)
  BY <1>1, Zenon DEF Disk
<1>3. CASE Restart(s)
  <2>1. disk[s].currentTerm = currentTerm[s] /\ disk[s].votedFor = votedFor[s]
    BY Zenon DEF DurableInv, DiskInSync
  <2> QED
    BY <1>1, <1>3, <2>1, MakeVotes, Zenon DEF Restart
<1>4. CASE RestartInElection(s)
  <2> DEFINE saved == [currentTerm |-> currentTerm[s] + 1, votedFor |-> votedFor[s],
                       log |-> logs[s], snapshot |-> disk[s].snapshot]
  <2>1. saved \in Disk /\ saved.currentTerm > currentTerm[s]
    BY <1>1, <1>2 DEF Disk
  <2>2. Make(s, saved, {})
    BY <1>4, Zenon DEF RestartInElection
  <2> HIDE DEF saved
  <2> QED
    BY <1>1, <2>1, <2>2, MakeVotes, Zenon
<1>5. ASSUME NEW m \in net, RestartInRPC(s, m)
      PROVE  VoteSafeStep
  <2> DEFINE saved == [currentTerm |-> m.term, votedFor |-> Nil,
                       log |-> logs[s], snapshot |-> disk[s].snapshot]
  <2>1. m.term \in Nat
    BY <1>1, <1>5, MessageKind, Zenon DEF RestartInRPC, RequestVoteArgs, AppendEntriesArgs
  <2>2. saved \in Disk /\ saved.currentTerm > currentTerm[s]
    BY <1>1, <1>2, <1>5, <2>1, Zenon DEF Disk, RestartInRPC
  <2>3. Make(s, saved, {m})
    BY <1>5, Zenon DEF RestartInRPC
  <2> HIDE DEF saved
  <2> QED
    BY <1>1, <2>2, <2>3, MakeVotes, Zenon
<1> QED
  BY <1>3, <1>4, <1>5, Zenon

LEMMA NextVotes ==
    ASSUME DurableInv, [Next]_vars
    PROVE  VoteSafeStep
<1>0. TypeOK
  BY Zenon DEF DurableInv
<1>1. ASSUME NEW s \in Server, ElectionTimeout(s) PROVE VoteSafeStep
  BY <1>0, <1>1, ElectionTimeoutVotes, Zenon
<1>2. ASSUME NEW s \in Server, NEW m \in net, RequestVote(s, m) PROVE VoteSafeStep
  BY <1>0, <1>2, RequestVoteVotes, Zenon
<1>3. ASSUME NEW s \in Server, NEW m \in net, HandleRequestVoteReply(s, m)
      PROVE  VoteSafeStep
  BY <1>0, <1>3, HandleRequestVoteReplyVotes, Zenon
<1>4. ASSUME NEW s \in Server, Start(s) PROVE VoteSafeStep
  BY <1>0, <1>4, QuietStep, Zenon DEF Start, NoNewGrant
<1>5. ASSUME NEW s \in Server, NEW p \in Server, ReplicateOnceRound(s, p)
      PROVE  VoteSafeStep
  BY <1>0, <1>5, ReplicateOnceRoundVotes, Zenon
<1>6. ASSUME NEW s \in Server, NEW m \in net, AppendEntries(s, m) PROVE VoteSafeStep
  BY <1>0, <1>6, AppendEntriesVotes, Zenon
<1>7. ASSUME NEW s \in Server, NEW m \in net, HandleAppendEntriesReply(s, m)
      PROVE  VoteSafeStep
  BY <1>0, <1>7, HandleAppendEntriesReplyVotes, Zenon
<1>8. ASSUME NEW s \in Server, NEW i \in 1 .. MaxSnapshot, Snapshot(s, i)
      PROVE  VoteSafeStep
  BY <1>0, <1>8, QuietStep, Zenon DEF Snapshot, NoNewGrant
<1>9. ASSUME NEW s \in Server, NEW m \in net, InstallSnapshot(s, m) PROVE VoteSafeStep
  BY <1>0, <1>9, InstallSnapshotVotes, Zenon
<1>10. ASSUME NEW s \in Server, NEW m \in net, HandleInstallSnapshotReply(s, m)
       PROVE  VoteSafeStep
  BY <1>0, <1>10, HandleInstallSnapshotReplyVotes, Zenon
<1>11. ASSUME NEW s \in Server, NEW snap \in applyCh[s], CondInstallSnapshot(s, snap)
       PROVE  VoteSafeStep
  BY <1>0, <1>11, QuietStep, Zenon DEF CondInstallSnapshot, NoNewGrant
<1>12. ASSUME NEW s \in Server,
              Restart(s) \/ RestartInElection(s) \/ \E m \in net : RestartInRPC(s, m)
       PROVE  VoteSafeStep
  BY <1>12, CrashVotes, Zenon
<1>13. ASSUME NEW m \in net, Lose(m) PROVE VoteSafeStep
  BY <1>0, <1>13, QuietStep, Zenon DEF Lose, NoNewGrant, persistent
<1>14. CASE UNCHANGED vars
  BY <1>0, <1>14, QuietStep, Zenon DEF vars, NoNewGrant
<1> QED
  BY <1>1, <1>2, <1>3, <1>4, <1>5, <1>6, <1>7, <1>8, <1>9, <1>10, <1>11, <1>12, <1>13,
     <1>14, Zenon DEF Next

LEMMA InitElection == Init => ElectionInv
<1> SUFFICES ASSUME Init PROVE ElectionInv
  BY Zenon
<1>1. \A p, s \in Server : \A t : ~Claim(p, s, t)
  BY Zenon DEF Init, Claim
<1>2. \A s \in Server : state[s] # "Leader"
  BY Zenon DEF Init
<1> QED
  BY <1>1, <1>2, InitDurable, Zenon DEF ElectionInv, ClaimInv

LEMMA NextElection == ElectionInv /\ [Next]_vars => ElectionInv'
<1> SUFFICES ASSUME ElectionInv, [Next]_vars PROVE ElectionInv'
  BY Zenon
<1>1. DurableInv /\ DurableInv' /\ TypeOK /\ TypeOK' /\ ClaimInv
  BY NextDurable, Zenon DEF ElectionInv, DurableInv
<1>2. VoteStep /\ CountStep /\ ReplyStep /\ LeaderStep
  BY <1>1, NextVotes, Zenon DEF VoteSafeStep
<1> QED
  BY <1>1, <1>2, ClaimInvPreserved, Zenon DEF ElectionInv

-----------------------------------------------------------------------------
(* The theorems. *)

\* Type correctness, for any number of peers and any bounds.
THEOREM TypeCorrect == Spec => []TypeOK
<1>1. DurableInv => TypeOK
  BY Zenon DEF DurableInv
<1> QED
  BY InitDurable, NextDurable, <1>1, PTL DEF Spec

\* What a peer has told others is on its disk: memory and disk agree whenever
\* no critical section is running (the persist calls of raft.go and rpc.go).
THEOREM DiskFollowsMemory == Spec => []DiskInSync
<1>1. DurableInv => DiskInSync
  BY Zenon DEF DurableInv
<1> QED
  BY InitDurable, NextDurable, <1>1, PTL DEF Spec

\* The saved snapshot ends where the saved log begins (SaveStateAndSnapshot's
\* two callers, and what Make reads back).
THEOREM SnapshotMeetsSavedLog == Spec => []SnapshotMeetsLog
<1>1. DurableInv => SnapshotMeetsLog
  BY ZenonT(30) DEF DurableInv, DiskInSync, SnapshotInv, SnapshotMeetsLog, EndsWith
<1> QED
  BY InitDurable, NextDurable, <1>1, PTL DEF Spec

\* Every vote that is counted or in flight binds the voter.
THEOREM VotesBind == Spec => []VoteInv
<1>1. ElectionInv => VoteInv
  BY VoteInvIsClaimInv, Zenon DEF ElectionInv, DurableInv
<1> QED
  BY InitElection, NextElection, <1>1, PTL DEF Spec

\* No handler and no restart takes back a term or a vote (currentTerm and
\* votedFor of raft.go, persisted before every reply).
THEOREM VotesAreFinal == Spec => VoteIsFinal
<1>1. DurableInv /\ [Next]_vars =>
        [\A s \in Server :
            /\ currentTerm'[s] >= currentTerm[s]
            /\ currentTerm'[s] = currentTerm[s] /\ votedFor[s] # Nil
                  => votedFor'[s] = votedFor[s]]_vars
  BY NextVotes, Zenon DEF VoteSafeStep, VoteStep
<1> QED
  BY InitDurable, NextDurable, <1>1, PTL DEF Spec, VoteIsFinal
=============================================================================
