--------------------------- MODULE RaftInvariants ---------------------------
(***************************************************************************)
(* What the proofs about Raft say of its states, beside the properties of the *)
(* specification: who may still count a vote, and the history that explains *)
(* the logs.  The specification itself uses none of this.                  *)
(***************************************************************************)
EXTENDS Raft

DurableInv == TypeOK /\ DiskInSync /\ SnapshotInv

Granted(m) == m.type = "RequestVoteReply" /\ m.voteGranted

Claim(p, s, t) ==
    \/ p \in votes[s] /\ t = currentTerm[s]
    \/ \E m \in net : Granted(m) /\ m.from = p /\ m.to = s /\ m.term = t

\* The invariant VoteInv, in terms of claims.
ClaimInv ==
    /\ \A p, s \in Server, t \in Nat : Claim(p, s, t) =>
          currentTerm[p] > t \/ (currentTerm[p] = t /\ votedFor[p] = s)
    /\ \A p, s, r \in Server, t \in Nat : Claim(p, s, t) /\ Claim(p, r, t) => s = r
    /\ \A s \in Server : state[s] = "Leader" =>
                             2 * Cardinality(votes[s]) > Cardinality(Server)

\* Peers neither go back to an old term nor change a vote.
VoteStep ==
    \A p \in Server :
        /\ currentTerm'[p] >= currentTerm[p]
        /\ currentTerm'[p] = currentTerm[p] /\ votedFor[p] # Nil => votedFor'[p] = votedFor[p]

\* In this step p casts its vote in term t for s.
Casts(p, s, t) ==
    /\ currentTerm'[p] = t /\ votedFor'[p] = s
    /\ currentTerm[p] =< t
    /\ currentTerm[p] = t => votedFor[p] \in {Nil, s}

CountStep ==
    \A s \in Server : \A p \in votes'[s] :
        Claim(p, s, currentTerm'[s]) \/ Casts(p, s, currentTerm'[s])

ReplyStep ==
    \A m \in net' : Granted(m) => m \in net \/ Casts(m.from, m.to, m.term)

LeaderStep ==
    \A s \in Server : state'[s] = "Leader" =>
        \/ state[s] = "Leader" /\ votes'[s] = votes[s]
        \/ 2 * Cardinality(votes'[s]) > Cardinality(Server)

NoNewGrant == \A m \in net' : Granted(m) => m \in net

-----------------------------------------------------------------------------
(* One lemma per kind of step. *)

VoteSafeStep == VoteStep /\ CountStep /\ ReplyStep /\ LeaderStep

-----------------------------------------------------------------------------
(* The theorems. *)

ElectionInv == DurableInv /\ ClaimInv

\* led: the terms that had a leader.  leader, voters: who led the term and who
\* elected it.  log, len: what the leader's log was when it last led.  acked: up
\* to where a peer, in that term, has confirmed to have the leader's log.
History == [led: SUBSET Nat, leader: [Nat -> Server], voters: [Nat -> SUBSET Server],
            log: [Nat -> [Nat -> Nat]], len: [Nat -> Nat], acked: [Nat -> [Server -> Nat]]]

Majority(Q) == 2 * Cardinality(Q) > Cardinality(Server)

\* What the argument takes from counting: majorities meet, and the index that
\* advanceCommitIndexForLeader picks is one that a majority has reached.
MajoritiesMeet ==
    \A Q, R \in SUBSET Server :
        Majority(Q) /\ Majority(R) => \E p \in Server : p \in Q /\ p \in R

MajorityReached ==
    \A match \in [Server -> Nat], n \in Nat :
        (\A p \in Server : match[p] =< n) =>
            /\ MajorityMatch(match) \in Nat
            /\ \E Q \in SUBSET Server :
                  Majority(Q) /\ \A p \in Q : match[p] >= MajorityMatch(match)

\* The log of a peer, including what its snapshot replaced: FullLog, with the
\* dummy entry of a log without snapshot at index 0.
Last(s) == LastIndex(logs[s])

Entry(s, i) ==
    IF i = 0 THEN 0
             ELSE IF i =< logs[s].base THEN disk[s].snapshot[i] ELSE TermAt(logs[s], i)

TopTerm(s) == Entry(s, Last(s))

-----------------------------------------------------------------------------
(* What the history says of entry i of term T. *)

\* The leader of T created an entry at index i.
Created(h, T, i) == T \in h.led /\ i \in 1 .. h.len[T] /\ h.log[T][i] = T

\* A majority confirmed it, in term T.
Chosen(h, T, i) ==
    /\ Created(h, T, i)
    /\ \E Q \in SUBSET Server : Majority(Q) /\ \A p \in Q : h.acked[T][p] >= i

\* A majority has confirmed it or still could.  This only ever becomes false.
Choosable(h, T, i) ==
    /\ Created(h, T, i)
    /\ \E Q \in SUBSET Server :
          Majority(Q) /\ \A p \in Q : h.acked[T][p] >= i \/ currentTerm[p] =< T

\* Peer s has the log of term T up to index i.
Has(h, s, T, i) == i =< Last(s) /\ \A k \in 1 .. i : Entry(s, k) = h.log[T][k]

\* The log of term U starts with that of term T up to i.
Extends(h, U, T, i) == i =< h.len[U] /\ \A k \in 1 .. i : h.log[U][k] = h.log[T][k]

\* Everything up to index n was chosen in a term up to t.
Decided(h, t, n) == n > 0 => \E T, i \in Nat : T =< t /\ n =< i /\ Chosen(h, T, i)

\* The same, and the peer, or the data of a snapshot, agrees with what was chosen.
PeerDecided(h, s, n) ==
    n > 0 => \E T, i \in Nat :
        T =< currentTerm[s] /\ n =< i /\ Chosen(h, T, i) /\ Has(h, s, T, n)

SnapDecided(h, snap, t) ==
    snap.index > 0 => \E T, i \in Nat :
        /\ T =< t /\ snap.index =< i /\ Chosen(h, T, i)
        /\ \A k \in 1 .. snap.index : snap.data[k] = h.log[T][k]

-----------------------------------------------------------------------------
(* The inductive invariant. *)

\* Entries come from the leader of their term: what precedes an entry in any
\* log of the history is what preceded it when it was created.
Lineage(h) ==
    /\ h \in History
    /\ \A T \in Nat : \A i \in 1 .. h.len[T] :
          /\ h.log[T][i] \in h.led /\ h.log[T][i] =< T
          /\ Extends(h, h.log[T][i], T, i)
    /\ \A T \in Nat \ h.led : h.len[T] = 0
    /\ \A T \in Nat, p \in Server : h.acked[T][p] =< h.len[T]

\* A peer has confirmed only entries of terms it has reached.
HistoryInv(h) ==
    /\ Lineage(h)
    /\ \A T \in Nat, p \in Server : h.acked[T][p] > 0 => currentTerm[p] >= T

\* A term has one leader: its voters are bound, and it has left its candidacy.
VoterInv(h) ==
    \A T \in h.led :
        /\ Majority(h.voters[T])
        /\ \A p \in h.voters[T] :
              /\ currentTerm[p] > T \/ (currentTerm[p] = T /\ votedFor[p] = h.leader[T])
              /\ \A r \in Server : Claim(p, r, T) => r = h.leader[T]
        /\ currentTerm[h.leader[T]] >= T
        /\ currentTerm[h.leader[T]] = T => state[h.leader[T]] # "Candidate"

\* A leader's log is the log of its term.  It counts a peer only up to what the
\* peer has confirmed, or up to what is decided anyway (a snapshot).
Leads(h, s, T) ==
    /\ T \in h.led /\ h.leader[T] = s
    /\ Last(s) = h.len[T] /\ \A k \in 1 .. h.len[T] : Entry(s, k) = h.log[T][k]
    /\ h.acked[T][s] = h.len[T]
    /\ \A p \in Server \ {s} :
          matchIndex[s][p] =< h.acked[T][p] \/ Decided(h, T, matchIndex[s][p])

LeaderInv(h) == \A s \in Server : state[s] = "Leader" => Leads(h, s, currentTerm[s])

\* What a peer has after its snapshot is a piece of the log of its last entry's
\* term.  It need not continue the snapshot: CondInstallSnapshot keeps entries
\* after the snapshot without comparing the one before them.
PeerLog(h, s) ==
    Last(s) > 0 =>
        /\ TopTerm(s) =< currentTerm[s] /\ Created(h, TopTerm(s), Last(s))
        /\ \A k \in (logs[s].base + 1) .. Last(s) : Entry(s, k) = h.log[TopTerm(s)][k]

PeerInv(h) == \A s \in Server : PeerLog(h, s)

\* Every commitIndex is in the log and backed by a choice of the majority.
CommitInv(h) ==
    \A s \in Server : commitIndex[s] =< Last(s) /\ PeerDecided(h, s, commitIndex[s])

\* Leader completeness: later leaders have what may be chosen.
ChoiceInv(h) ==
    \A T, i \in Nat, U \in h.led : T < U /\ Choosable(h, T, i) => Extends(h, U, T, i)

\* Peers keep what they confirmed, as long as it may be chosen.
Holds(h, s, T, i) == Has(h, s, T, i) /\ TopTerm(s) >= T

AckInv(h) ==
    \A p \in Server, T, i \in Nat :
        Choosable(h, T, i) /\ h.acked[T][p] >= i => Holds(h, p, T, i)

\* A candidate has what its voters confirmed before they voted.
BallotInv(h) ==
    \A s, p \in Server, T, i \in Nat :
        /\ state[s] = "Candidate" /\ T < currentTerm[s] /\ Claim(p, s, currentTerm[s])
        /\ Choosable(h, T, i) /\ h.acked[T][p] >= i
        => Holds(h, s, T, i)

\* A request for votes says no more than the candidate has.
RequestVoteOK(h, m) ==
    /\ m.term =< currentTerm[m.from]
    /\ m.term = currentTerm[m.from] /\ state[m.from] = "Candidate" =>
          /\ m.lastLogTerm > 0 \/ m.lastLogIndex > 0 => Created(h, m.lastLogTerm, m.lastLogIndex)
          /\ \A T, i \in Nat :
                /\ T < m.term /\ Choosable(h, T, i)
                /\ m.lastLogTerm > T \/ (m.lastLogTerm = T /\ i =< m.lastLogIndex)
                => Holds(h, m.from, T, i)

\* Entries in flight are a piece of the log of their leader's term.
AppendEntriesOK(h, m) ==
    LET n == m.prevLogIndex + Len(m.entries) IN
    /\ m.term \in h.led /\ n =< h.len[m.term]
    /\ m.prevLogTerm = IF m.prevLogIndex = 0 THEN 0 ELSE h.log[m.term][m.prevLogIndex]
    /\ \A k \in 1 .. Len(m.entries) : m.entries[k] = h.log[m.term][m.prevLogIndex + k]
    /\ m.leaderCommit =< n
    /\ Decided(h, m.term, m.leaderCommit)

MessageOK(h, m) ==
    /\ m.type = "RequestVote" => RequestVoteOK(h, m)
    /\ m.type = "RequestVoteReply" => m.term =< currentTerm[m.to]
    /\ m.type = "AppendEntries" => AppendEntriesOK(h, m)
    /\ m.type = "AppendEntriesReply" /\ m.success =>
          LET n == m.prevLogIndex + m.numEntries IN
          n =< h.acked[m.term][m.from] \/ Decided(h, m.term, n)
    /\ m.type = "InstallSnapshot" => m.term \in h.led /\ SnapDecided(h, m.snap, m.term)
    /\ m.type = "InstallSnapshotReply" => Decided(h, m.term, m.lastIncludedIndex)

MessageInv(h) == \A m \in net : MessageOK(h, m)

ApplyInv(h) ==
    \A s \in Server : \A snap \in applyCh[s] : SnapDecided(h, snap, currentTerm[s])

Explains(h) ==
    /\ HistoryInv(h) /\ VoterInv(h) /\ LeaderInv(h) /\ PeerInv(h) /\ CommitInv(h)
    /\ ChoiceInv(h) /\ AckInv(h) /\ BallotInv(h) /\ MessageInv(h) /\ ApplyInv(h)

\* A log without snapshot starts with the dummy entry of Make.
DummyInv == \A s \in Server : logs[s].base = 0 => logs[s].terms[1] = 0

SafetyInv == ElectionInv /\ DummyInv /\ (~staleMatch => \E h : Explains(h))

-----------------------------------------------------------------------------
(* Full logs.  From here on a log is Last and Entry, the disk is not looked   *)
(* at any more.                                                              *)

LogShape ==
    \A s \in Server :
        /\ logs[s].base \in Nat /\ Last(s) \in Nat /\ TopTerm(s) \in Nat
        /\ commitIndex[s] \in Nat /\ currentTerm[s] \in Nat
        /\ logs[s].base =< Last(s) /\ logs[s].base =< commitIndex[s]
        /\ Entry(s, 0) = 0
        /\ \A k \in 0 .. Last(s) : Entry(s, k) \in Nat
        /\ \A k \in logs[s].base .. Last(s) : TermAt(logs[s], k) = Entry(s, k)
        /\ \A k \in 1 .. logs[s].base : disk[s].snapshot[k] = Entry(s, k)
        /\ \A k \in 1 .. Last(s) : FullLog(s)[k] = Entry(s, k)
        /\ LastTerm(logs[s]) = TopTerm(s)

\* The peer's log is the same; it may have more of it in its snapshot.
SameLog(s) ==
    /\ Last(s)' = Last(s) /\ TopTerm(s)' = TopTerm(s) /\ logs'[s].base >= logs[s].base
    /\ \A k \in 0 .. Last(s) : Entry(s, k)' = Entry(s, k)

OthersKeepLogs(s) == \A p \in Server \ {s} : SameLog(p)

AllKeepLogs == \A p \in Server : SameLog(p)

\* The log of s matches the entries that follow index i.
AllMatch(s, i, entries) ==
    \A k \in 1 .. Len(entries) : i + k =< Last(s) /\ Entry(s, i + k) = entries[k]

=============================================================================
