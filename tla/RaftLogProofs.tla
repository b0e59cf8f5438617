--------------------------- MODULE RaftLogProofs ----------------------------
(***************************************************************************)
(* Facts about logs, messages and the single statements of the handlers,   *)
(* for any cluster size and any value of the bounds.                       *)
(***************************************************************************)
EXTENDS RaftInvariants, TLAPS

\* The leaves that name no prover are for the SMT solver.
USE SMTT(30)

\* Sequences, as far as the logs need them.
LEMMA SeqLength ==
    ASSUME NEW S, NEW s \in Seq(S)
    PROVE  Len(s) \in Nat /\ s \in [1 .. Len(s) -> S] /\ DOMAIN s = 1 .. Len(s)
OBVIOUS

LEMMA SeqElement ==
    ASSUME NEW S, NEW s \in Seq(S), NEW i \in 1 .. Len(s)
    PROVE  s[i] \in S
OBVIOUS

LEMMA SeqEmpty ==
    ASSUME NEW S
    PROVE  <<>> \in Seq(S) /\ Len(<<>>) = 0 /\ \A s \in Seq(S) : s # <<>> => Len(s) \in Nat \ {0}
OBVIOUS

LEMMA SeqConcat ==
    ASSUME NEW S, NEW s \in Seq(S), NEW t \in Seq(S)
    PROVE  /\ s \o t \in Seq(S) /\ Len(s \o t) = Len(s) + Len(t)
           /\ \A i \in 1 .. Len(s) + Len(t) :
                 (s \o t)[i] = IF i =< Len(s) THEN s[i] ELSE t[i - Len(s)]
OBVIOUS

LEMMA SeqSlice ==
    ASSUME NEW S, NEW s, NEW m \in Int, NEW n \in Int, \A i \in m .. n : s[i] \in S
    PROVE  /\ SubSeq(s, m, n) \in Seq(S)
           /\ Len(SubSeq(s, m, n)) = IF m =< n THEN n - m + 1 ELSE 0
           /\ \A i \in 1 .. n - m + 1 : SubSeq(s, m, n)[i] = s[m + i - 1]
OBVIOUS

LEMMA SeqTail ==
    ASSUME NEW S, NEW s \in Seq(S), s # <<>>
    PROVE  /\ Head(s) \in S /\ Tail(s) \in Seq(S) /\ Len(Tail(s)) = Len(s) - 1
           /\ \A i \in 1 .. Len(Tail(s)) : Tail(s)[i] = s[i + 1]
OBVIOUS

\* The dummy entry keeps a log from being empty, so its last index and the term
\* of each of its entries are defined (getLastLog, getFirstLog).
LEMMA LogFacts ==
    ASSUME NEW l \in Log
    PROVE  /\ l.base \in Nat /\ l.terms \in Seq(Nat) /\ Len(l.terms) \in Nat \ {0}
           /\ LastIndex(l) \in Nat /\ LastIndex(l) >= l.base
           /\ LastTerm(l) \in Nat
           /\ \A i \in l.base .. LastIndex(l) : TermAt(l, i) \in Nat
<1>1. l.base \in Nat /\ l.terms \in Seq(Nat) /\ l.terms # <<>>
  BY Zenon DEF Log
<1>2. Len(l.terms) \in Nat \ {0}
  BY <1>1, SeqEmpty, SeqLength, Zenon
<1>3. LastIndex(l) \in Nat /\ LastIndex(l) >= l.base
  BY <1>1, <1>2 DEF LastIndex
<1>4. \A i \in l.base .. LastIndex(l) : TermAt(l, i) \in Nat
  <2> TAKE i \in l.base .. LastIndex(l)
  <2>1. i - l.base + 1 \in 1 .. Len(l.terms)
    BY <1>1, <1>2 DEF LastIndex
  <2> QED
    BY <1>1, <2>1, SeqElement, Zenon DEF TermAt
<1> QED
  BY <1>1, <1>2, <1>3, <1>4 DEF LastTerm

\* The entries after an index of the log, and those a follower keeps.
LEMMA SliceFacts ==
    ASSUME NEW l \in Log, NEW i \in l.base .. LastIndex(l)
    PROVE  /\ After(l, i) \in Seq(Nat)
           /\ UpTo(l, i) \in Seq(Nat) /\ Len(UpTo(l, i)) = i - l.base + 1
<1>0. \A b, c \in Nat : \A k \in Int : b =< k /\ k =< b + c - 1 => k - b + 1 \in 1 .. c
  OBVIOUS
<1> USE LogFacts DEF LastIndex
<1>1. \A k \in 1 .. Len(l.terms) : l.terms[k] \in Nat
  BY SeqElement, Zenon
<1>2. After(l, i) \in Seq(Nat)
  BY <1>1, SeqSlice DEF After
<1> DEFINE n == i - l.base + 1
<1>3. n \in 1 .. Len(l.terms)
  <2>1. l.base \in Nat /\ Len(l.terms) \in Nat /\ i \in Int
        /\ l.base =< i /\ i =< l.base + Len(l.terms) - 1
    OBVIOUS
  <2> QED
    BY <1>0, <2>1, Zenon
<1>4. SubSeq(l.terms, 1, n) \in Seq(Nat) /\ Len(SubSeq(l.terms, 1, n)) = n
  <2> HIDE DEF n
  <2> QED
    BY <1>1, <1>3, SeqSlice
<1> QED
  BY <1>2, <1>4, Zenon DEF UpTo

-----------------------------------------------------------------------------
(* Messages and the disk. *)

LEMMA MessageKind ==
    ASSUME NEW m \in Message
    PROVE  /\ m.type = "RequestVote" => m \in RequestVoteArgs
           /\ m.type = "RequestVoteReply" => m \in RequestVoteReply
           /\ m.type = "AppendEntries" => m \in AppendEntriesArgs
           /\ m.type = "AppendEntriesReply" => m \in AppendEntriesReply
           /\ m.type = "InstallSnapshot" => m \in InstallSnapshotArgs
           /\ m.type = "InstallSnapshotReply" => m \in InstallSnapshotReply
BY Zenon DEF Message, RequestVoteArgs, RequestVoteReply, AppendEntriesArgs, AppendEntriesReply,
       InstallSnapshotArgs, InstallSnapshotReply

LEMMA PersistKeepsSnapshot ==
    ASSUME TypeOK, NEW s \in Server, Persist(s)
    PROVE  \A p \in Server : disk'[p].snapshot = disk[p].snapshot
BY Zenon DEF TypeOK, Persist, Set

LEMMA DeliverGrantsNothing ==
    ASSUME NEW m, NEW out, Deliver(m, out), \A r \in out : ~Granted(r)
    PROVE  NoNewGrant
BY Zenon DEF Deliver, NoNewGrant

\* A snapshot followed by the log after it numbers the entries as the log does.
LEMMA FullLogFacts ==
    ASSUME TypeOK, SnapshotInv, NEW s \in Server
    PROVE  /\ FullLog(s) \in Seq(Nat)
           /\ Len(FullLog(s)) = LastIndex(logs[s])
           /\ \A i \in (logs[s].base + 1) .. LastIndex(logs[s]) :
                  FullLog(s)[i] = TermAt(logs[s], i)
<1> DEFINE d == disk[s].snapshot
           t == logs[s].terms
           b == logs[s].base
<1>1. d \in Seq(Nat) /\ t \in Seq(Nat) /\ t # <<>> /\ b \in Nat /\ Len(d) = b
      /\ Len(t) \in Nat \ {0}
  BY LogFacts, Zenon DEF TypeOK, Disk, Log, SnapshotInv, EndsWith
<1>2. /\ Tail(t) \in Seq(Nat) /\ Len(Tail(t)) = Len(t) - 1
      /\ \A i \in 1 .. Len(Tail(t)) : Tail(t)[i] = t[i + 1]
  <2> HIDE DEF t
  <2> QED
    BY <1>1, SeqTail, Zenon
<1>3. /\ d \o Tail(t) \in Seq(Nat) /\ Len(d \o Tail(t)) = b + Len(t) - 1
      /\ \A i \in 1 .. (b + Len(t) - 1) :
            (d \o Tail(t))[i] = IF i =< b THEN d[i] ELSE Tail(t)[i - b]
  <2> DEFINE u == Tail(t)
  <2>1. u \in Seq(Nat) /\ Len(u) = Len(t) - 1
    BY <1>2, Zenon
  <2> HIDE DEF d, t, b, u
  <2>2. /\ d \o u \in Seq(Nat) /\ Len(d \o u) = b + Len(u)
        /\ \A i \in 1 .. (b + Len(u)) : (d \o u)[i] = IF i =< b THEN d[i] ELSE u[i - b]
    BY <1>1, <2>1, SeqConcat, Zenon
  <2>3. b + Len(u) = b + Len(t) - 1
    BY <1>1, <2>1, Zenon
  <2> QED
    BY <2>2, <2>3, Zenon DEF u
<1>4. \A i \in (b + 1) .. (b + Len(t) - 1) : (d \o Tail(t))[i] = t[i - b + 1]
  <2> HIDE DEF d, t, b
  <2> SUFFICES ASSUME NEW i \in (b + 1) .. (b + Len(t) - 1)
               PROVE  (d \o Tail(t))[i] = t[i - b + 1]
    BY Zenon
  <2>1. i - b \in 1 .. Len(Tail(t)) /\ i \in 1 .. (b + Len(t) - 1) /\ ~(i =< b)
    BY <1>1, <1>2
  <2> QED
    BY <1>2, <1>3, <2>1, Zenon
<1> QED
  BY <1>3, <1>4, Zenon DEF FullLog, LastIndex, TermAt

\* What Snapshot writes: the entries up to index, which the new log starts at.
LEMMA SnapshotData ==
    ASSUME TypeOK, SnapshotInv, NEW s \in Server, NEW index \in Nat, Snapshot(s, index)
    PROVE  /\ SubSeq(FullLog(s), 1, index) \in Seq(Nat)
           /\ EndsWith(SubSeq(FullLog(s), 1, index), index, TermAt(logs[s], index))
<1> DEFINE f == FullLog(s)
<1>1. logs[s] \in Log /\ logs[s].base \in Nat /\ LastIndex(logs[s]) \in Nat
  BY LogFacts, Zenon DEF TypeOK
<1>2. index \in (logs[s].base + 1) .. LastIndex(logs[s])
  BY <1>1 DEF Snapshot
<1>3. f \in Seq(Nat) /\ index \in 1 .. Len(f) /\ f[index] = TermAt(logs[s], index)
  BY <1>1, <1>2, FullLogFacts
<1>4. \A i \in 1 .. Len(f) : f[i] \in Nat
  BY <1>3, SeqElement, Zenon
<1>5. /\ SubSeq(f, 1, index) \in Seq(Nat) /\ Len(SubSeq(f, 1, index)) = index
      /\ SubSeq(f, 1, index)[index] = f[index]
  <2> HIDE DEF f
  <2> QED
    BY <1>3, <1>4, SeqSlice
<1> QED
  BY <1>3, <1>5, Zenon DEF EndsWith

LEMMA SnapFields ==
    ASSUME NEW snap \in Snap
    PROVE  snap.index \in Nat /\ snap.term \in Nat /\ snap.data \in Seq(Nat)
BY Zenon DEF Snap

LEMMA MergeKeepsFirst ==
    ASSUME NEW l \in Log, NEW i \in l.base .. LastIndex(l), NEW entries \in Seq(Nat)
    PROVE  /\ Merge(l, i, entries).base = l.base
           /\ Merge(l, i, entries).terms[1] = l.terms[1]
<1> DEFINE u == UpTo(l, i)
<1>1. u \in Seq(Nat) /\ Len(u) = i - l.base + 1 /\ i - l.base + 1 \in Nat \ {0}
  BY SliceFacts, LogFacts
<1>2. u[1] = l.terms[1]
  <2> DEFINE n == i - l.base + 1
  <2>0. l.base \in Nat /\ l.terms \in Seq(Nat) /\ Len(l.terms) \in Nat
    BY LogFacts, Zenon
  <2>1. n \in 1 .. Len(l.terms)
    BY <2>0 DEF LastIndex
  <2>2. \A k \in 1 .. n : l.terms[k] \in Nat
    <3>1. \A k \in 1 .. Len(l.terms) : l.terms[k] \in Nat
      BY <2>0, SeqElement, Zenon
    <3> QED
      BY <2>0, <2>1, <3>1
  <2> HIDE DEF n
  <2>3. SubSeq(l.terms, 1, n)[1] = l.terms[1]
    BY <2>1, <2>2, SeqSlice
  <2> QED
    BY <2>3, Zenon DEF UpTo, n
<1>3. (u \o entries)[1] = u[1]
  <2> HIDE DEF u
  <2>1. Len(u) >= 1 /\ Len(entries) \in Nat
    BY <1>1, SeqLength
  <2> QED
    BY <1>1, <2>1, SeqConcat
<1> QED
  BY <1>2, <1>3, Zenon DEF Merge

LEMMA CompactFirst ==
    \A l \in Log : \A i, t \in Nat : i >= l.base =>
        Compact(l, i, t).base = i /\ Compact(l, i, t).terms[1] = t
<1> SUFFICES ASSUME NEW l \in Log, NEW i \in Nat, NEW t \in Nat, i >= l.base
             PROVE  Compact(l, i, t).base = i /\ Compact(l, i, t).terms[1] = t
  BY Zenon
<1>1. CASE i > LastIndex(l)
  BY <1>1, Zenon DEF Compact
<1>2. CASE ~(i > LastIndex(l))
  <2> DEFINE a == After(l, i)
  <2>1. i \in l.base .. LastIndex(l)
    BY <1>2, LogFacts
  <2>2. a \in Seq(Nat)
    BY <2>1, SliceFacts, Zenon
  <2> HIDE DEF a
  <2>3. (<<t>> \o a)[1] = t
    <3>1. <<t>> \in Seq(Nat) /\ Len(<<t>>) = 1 /\ <<t>>[1] = t /\ Len(a) \in Nat
      BY <2>2, SeqLength
    <3> QED
      BY <2>2, <3>1, SeqConcat
  <2> QED
    BY <1>2, <2>3, Zenon DEF Compact, a
<1> QED
  BY <1>1, <1>2, Zenon

-----------------------------------------------------------------------------
(* Logs.  What the slices of RaftLog do to single entries. *)

LEMMA ConcatFacts ==
    ASSUME NEW a \in Seq(Nat), NEW b \in Seq(Nat)
    PROVE  /\ a \o b \in Seq(Nat) /\ Len(a \o b) = Len(a) + Len(b)
           /\ \A k \in 1 .. Len(a) : (a \o b)[k] = a[k]
           /\ \A k \in 1 .. Len(b) : (a \o b)[Len(a) + k] = b[k]
<1>1. Len(a) \in Nat /\ Len(b) \in Nat
  BY SeqLength, Zenon
<1>2. /\ a \o b \in Seq(Nat) /\ Len(a \o b) = Len(a) + Len(b)
      /\ \A i \in 1 .. Len(a) + Len(b) :
            (a \o b)[i] = IF i <= Len(a) THEN a[i] ELSE b[i - Len(a)]
  BY SeqConcat, Zenon
<1>3. ASSUME NEW k \in 1 .. Len(a) PROVE (a \o b)[k] = a[k]
  <2>1. k \in 1 .. Len(a) + Len(b) /\ k <= Len(a)
    BY <1>1
  <2> QED
    BY <1>2, <2>1, Zenon
<1>4. ASSUME NEW k \in 1 .. Len(b) PROVE (a \o b)[Len(a) + k] = b[k]
  <2>1. /\ Len(a) + k \in 1 .. Len(a) + Len(b) /\ ~(Len(a) + k <= Len(a))
        /\ Len(a) + k - Len(a) = k
    BY <1>1
  <2> QED
    BY <1>2, <2>1
<1> QED
  BY <1>2, <1>3, <1>4, Zenon

LEMMA AfterFacts ==
    ASSUME NEW l \in Log, NEW i \in l.base .. LastIndex(l)
    PROVE  /\ Len(After(l, i)) = LastIndex(l) - i
           /\ \A k \in 1 .. (LastIndex(l) - i) : After(l, i)[k] = TermAt(l, i + k)
<1> DEFINE a == i - l.base + 2
           z == Len(l.terms)
<1>1. l.base \in Nat /\ l.terms \in Seq(Nat) /\ z \in Nat \ {0} /\ i \in Int
  BY LogFacts
<1>2. LastIndex(l) = l.base + z - 1 /\ i >= l.base /\ i =< l.base + z - 1
  BY <1>1 DEF LastIndex
<1>3. a \in 2 .. (z + 1) /\ z - a + 1 = LastIndex(l) - i
  <2> HIDE DEF z
  <2> QED
    BY <1>1, <1>2
<1>4. \A k \in 1 .. z : l.terms[k] \in Nat
  BY <1>1, SeqElement, Zenon
<1>5. \A k \in a .. z : l.terms[k] \in Nat
  BY <1>1, <1>3, <1>4
<1>6. \A k \in 1 .. (LastIndex(l) - i) : TermAt(l, i + k) = l.terms[a + k - 1]
  <2> TAKE k \in 1 .. (LastIndex(l) - i)
  <2>1. (i + k) - l.base + 1 = a + k - 1
    BY <1>1, <1>2
  <2>2. TermAt(l, i + k) = l.terms[(i + k) - l.base + 1]
    BY Zenon DEF TermAt
  <2> QED
    BY <2>1, <2>2, Zenon
<1> DEFINE r == SubSeq(l.terms, a, z)
<1>7. Len(r) = z - a + 1 /\ \A k \in 1 .. (z - a + 1) : r[k] = l.terms[a + k - 1]
  <2> HIDE DEF a, z
  <2>1. a \in Int /\ z \in Int
    BY <1>1, <1>3
  <2> QED
    BY <1>3, <1>5, <2>1, <1>1, SeqSlice
<1> QED
  BY <1>3, <1>6, <1>7, Zenon DEF After

LEMMA UpToFacts ==
    ASSUME NEW l \in Log, NEW i \in l.base .. LastIndex(l)
    PROVE  \A k \in 1 .. (i - l.base + 1) : UpTo(l, i)[k] = l.terms[k]
<1> DEFINE n == i - l.base + 1
<1>1. l.base \in Nat /\ l.terms \in Seq(Nat) /\ Len(l.terms) \in Nat /\ i \in Int
  BY LogFacts
<1>2. n \in 1 .. Len(l.terms)
  BY <1>1 DEF LastIndex
<1>3. \A k \in 1 .. n : l.terms[k] \in Nat
  <2>1. \A k \in 1 .. Len(l.terms) : l.terms[k] \in Nat
    BY <1>1, SeqElement, Zenon
  <2> QED
    BY <1>1, <1>2, <2>1
<1> HIDE DEF n
<1>4. \A k \in 1 .. n : SubSeq(l.terms, 1, n)[k] = l.terms[k]
  BY <1>2, <1>3, SeqSlice
<1> QED
  BY <1>4, Zenon DEF UpTo, n

\* Merge keeps the log when nothing conflicts, and otherwise ends it with the
\* last of the new entries.
LEMMA MergeFacts ==
    ASSUME NEW l \in Log, NEW i \in l.base .. LastIndex(l), NEW entries \in Seq(Nat)
    PROVE  LET m == Merge(l, i, entries)
               n == Len(entries)
           IN \/ /\ m = l
                 /\ \A k \in 1 .. n : IsLogMatched(l, i + k, entries[k])
              \/ /\ \E k \in 1 .. n : ~IsLogMatched(l, i + k, entries[k])
                 /\ m.base = l.base /\ LastIndex(m) = i + n
                 /\ \A k \in l.base .. i : TermAt(m, k) = TermAt(l, k)
                 /\ \A k \in 1 .. n : TermAt(m, i + k) = entries[k]
<1> DEFINE u == UpTo(l, i)
           n == Len(entries)
<1>1. CASE \A k \in 1 .. n : IsLogMatched(l, i + k, entries[k])
  BY <1>1, Zenon DEF Merge
<1>2. CASE \E k \in 1 .. n : ~IsLogMatched(l, i + k, entries[k])
  <2>1. Merge(l, i, entries) = [base |-> l.base, terms |-> u \o entries]
    BY <1>2, Zenon DEF Merge
  <2>2. /\ l.base \in Nat /\ n \in Nat /\ i \in Nat /\ i >= l.base
        /\ u \in Seq(Nat) /\ Len(u) = i - l.base + 1
        /\ \A k \in 1 .. (i - l.base + 1) : u[k] = l.terms[k]
    BY LogFacts, SliceFacts, UpToFacts, SeqLength
  <2> HIDE DEF u, n
  <2>3. /\ Len(u \o entries) = i - l.base + 1 + n
        /\ \A k \in 1 .. (i - l.base + 1) : (u \o entries)[k] = l.terms[k]
        /\ \A k \in 1 .. n : (u \o entries)[i - l.base + 1 + k] = entries[k]
    <3>1. /\ Len(u \o entries) = Len(u) + n
          /\ \A k \in 1 .. Len(u) : (u \o entries)[k] = u[k]
          /\ \A k \in 1 .. n : (u \o entries)[Len(u) + k] = entries[k]
      BY <2>2, ConcatFacts, Zenon DEF n
    <3> QED
      BY <2>2, <3>1, Zenon
  <2> DEFINE c == u \o entries
             m == [base |-> l.base, terms |-> c]
  <2> HIDE DEF c
  <2>4. m.base = l.base /\ LastIndex(m) = i + n
    <3>1. LastIndex(m) = l.base + Len(c) - 1 /\ Len(c) = i - l.base + 1 + n
      BY <2>3, Zenon DEF LastIndex, c
    <3>2. l.base \in Nat /\ n \in Nat /\ i \in Nat
      BY <2>2, Zenon
    <3>3. m.base = l.base
      BY Zenon
    <3> HIDE DEF m
    <3> QED
      BY <3>1, <3>2, <3>3
  <2>5. ASSUME NEW k \in l.base .. i PROVE TermAt(m, k) = TermAt(l, k)
    <3>1. k - l.base + 1 \in 1 .. (i - l.base + 1)
      BY <2>2
    <3> QED
      BY <2>3, <3>1, Zenon DEF TermAt, c
  <2>6. ASSUME NEW k \in 1 .. n PROVE TermAt(m, i + k) = entries[k]
    <3>1. (i + k) - l.base + 1 = i - l.base + 1 + k
      BY <2>2
    <3>2. TermAt(m, i + k) = c[(i + k) - l.base + 1]
      BY Zenon DEF TermAt
    <3> QED
      BY <2>3, <3>1, <3>2, Zenon DEF c
  <2>7. Merge(l, i, entries) = m
    BY <2>1, Zenon DEF c
  <2> HIDE DEF m
  <2> QED
    BY <1>2, <2>4, <2>5, <2>6, <2>7, Zenon DEF n
<1> QED
  BY <1>1, <1>2, Zenon

LEMMA AppendFacts ==
    ASSUME NEW l \in Log, NEW t \in Nat
    PROVE  LET m == [base |-> l.base, terms |-> Append(l.terms, t)]
           IN /\ LastIndex(m) = LastIndex(l) + 1
              /\ \A k \in l.base .. LastIndex(l) : TermAt(m, k) = TermAt(l, k)
              /\ TermAt(m, LastIndex(l) + 1) = t
<1> DEFINE z == Len(l.terms)
<1>1. l.base \in Nat /\ l.terms \in Seq(Nat) /\ z \in Nat \ {0}
  BY LogFacts, Zenon
<1>2. /\ Len(Append(l.terms, t)) = z + 1 /\ Append(l.terms, t)[z + 1] = t
      /\ \A k \in 1 .. z : Append(l.terms, t)[k] = l.terms[k]
  BY <1>1
<1>3. LastIndex(l) = l.base + z - 1
  BY Zenon DEF LastIndex
<1> HIDE DEF z
<1>4. \A k \in l.base .. LastIndex(l) : k - l.base + 1 \in 1 .. z
  BY <1>1, <1>3
<1>5. (LastIndex(l) + 1) - l.base + 1 = z + 1
  BY <1>1, <1>3
<1> DEFINE a == Append(l.terms, t)
           m == [base |-> l.base, terms |-> a]
<1> HIDE DEF a
<1>6. LastIndex(m) = LastIndex(l) + 1
  BY <1>1, <1>2, <1>3 DEF LastIndex, a
<1>7. ASSUME NEW k \in l.base .. LastIndex(l) PROVE TermAt(m, k) = TermAt(l, k)
  BY <1>2, <1>4, Zenon DEF TermAt, a
<1>8. TermAt(m, LastIndex(l) + 1) = t
  <2>1. TermAt(m, LastIndex(l) + 1) = a[(LastIndex(l) + 1) - l.base + 1]
    BY Zenon DEF TermAt
  <2> QED
    BY <1>2, <1>5, <2>1, Zenon DEF a
<1> QED
  BY <1>6, <1>7, <1>8, Zenon DEF a

LEMMA CompactFacts ==
    ASSUME NEW l \in Log, NEW i \in Nat, i >= l.base, NEW t \in Nat
    PROVE  LET m == Compact(l, i, t)
           IN /\ m.base = i /\ m.terms[1] = t
              /\ LastIndex(m) = IF i > LastIndex(l) THEN i ELSE LastIndex(l)
              /\ \A k \in (i + 1) .. LastIndex(l) : TermAt(m, k) = TermAt(l, k)
<1> DEFINE m == Compact(l, i, t)
<1>1. l.base \in Nat /\ LastIndex(l) \in Nat /\ m.base = i /\ m.terms[1] = t
  BY LogFacts, CompactFirst, Zenon
<1>2. CASE i > LastIndex(l)
  <2>1. m = [base |-> i, terms |-> <<t>>]
    BY <1>2, Zenon DEF Compact
  <2>2. LastIndex(m) = i
    BY <2>1 DEF LastIndex
  <2> QED
    BY <1>1, <1>2, <2>2
<1>3. CASE ~(i > LastIndex(l))
  <2> DEFINE a == After(l, i)
             n == LastIndex(l) - i
  <2>1. m = [base |-> i, terms |-> <<t>> \o a]
    BY <1>3, Zenon DEF Compact
  <2>2. i \in l.base .. LastIndex(l) /\ n \in Nat
    BY <1>1, <1>3
  <2>3. a \in Seq(Nat) /\ Len(a) = n /\ \A k \in 1 .. n : a[k] = TermAt(l, i + k)
    BY <2>2, AfterFacts, SliceFacts, Zenon
  <2> HIDE DEF a
  <2>4. Len(<<t>> \o a) = n + 1 /\ \A k \in 1 .. n : (<<t>> \o a)[k + 1] = a[k]
    <3>1. <<t>> \in Seq(Nat) /\ Len(<<t>>) = 1
      OBVIOUS
    <3> HIDE DEF n
    <3>2. Len(<<t>> \o a) = 1 + n /\ \A k \in 1 .. n : (<<t>> \o a)[1 + k] = a[k]
      <4>1. /\ Len(<<t>> \o a) = Len(<<t>>) + Len(a)
            /\ \A k \in 1 .. Len(a) : (<<t>> \o a)[Len(<<t>>) + k] = a[k]
        BY <2>3, <3>1, ConcatFacts, Zenon
      <4> QED
        BY <2>3, <3>1, <4>1, Zenon
    <3>3. \A k \in 1 .. n : 1 + k = k + 1
      BY <2>2
    <3> QED
      BY <2>2, <3>2, <3>3
  <2>5. LastIndex(m) = LastIndex(l)
    <3>1. m.base = i /\ Len(m.terms) = n + 1
      BY <2>1, <2>4
    <3>2. LastIndex(m) = i + (n + 1) - 1
      BY <3>1, Zenon DEF LastIndex
    <3>3. LastIndex(l) \in Nat /\ i \in Nat
      BY <1>1, <2>2
    <3> QED
      BY <3>2, <3>3
  <2>6. ASSUME NEW k \in (i + 1) .. LastIndex(l) PROVE TermAt(m, k) = TermAt(l, k)
    <3>1. k - i \in 1 .. n /\ i + (k - i) = k /\ k - i + 1 = (k - i) + 1
      BY <1>1, <2>2
    <3> DEFINE c == <<t>> \o a
    <3>2. TermAt(m, k) = c[k - i + 1]
      <4>1. m.terms = c
        BY <2>1
      <4> HIDE DEF c, m
      <4> QED
        BY <1>1, <4>1, Zenon DEF TermAt
    <3> QED
      BY <2>3, <2>4, <3>1, <3>2, Zenon
  <2> QED
    BY <1>1, <1>3, <2>5, <2>6, Zenon
<1> QED
  BY <1>2, <1>3, Zenon

LEMMA EntryFacts == DurableInv /\ DummyInv => LogShape
<1> SUFFICES ASSUME DurableInv, DummyInv, NEW s \in Server
             PROVE  /\ logs[s].base \in Nat /\ Last(s) \in Nat /\ TopTerm(s) \in Nat
                    /\ commitIndex[s] \in Nat /\ currentTerm[s] \in Nat
                    /\ logs[s].base =< Last(s) /\ logs[s].base =< commitIndex[s]
                    /\ Entry(s, 0) = 0
                    /\ \A k \in 0 .. Last(s) : Entry(s, k) \in Nat
                    /\ \A k \in logs[s].base .. Last(s) : TermAt(logs[s], k) = Entry(s, k)
                    /\ \A k \in 1 .. logs[s].base : disk[s].snapshot[k] = Entry(s, k)
                    /\ \A k \in 1 .. Last(s) : FullLog(s)[k] = Entry(s, k)
                    /\ LastTerm(logs[s]) = TopTerm(s)
  BY Zenon DEF LogShape
<1> DEFINE b == logs[s].base
           d == disk[s].snapshot
<1>1. TypeOK /\ SnapshotInv
  BY Zenon DEF DurableInv
<1>2. /\ logs[s] \in Log /\ commitIndex[s] \in Nat /\ currentTerm[s] \in Nat
      /\ d \in Seq(Nat)
  BY <1>1, Zenon DEF TypeOK, Disk
<1>3. /\ b \in Nat /\ Last(s) \in Nat /\ b =< Last(s)
      /\ \A k \in b .. Last(s) : TermAt(logs[s], k) \in Nat
  BY <1>2, LogFacts, Zenon DEF Last
<1>4. Len(d) = b /\ (b > 0 => d[b] = logs[s].terms[1]) /\ b =< commitIndex[s]
  BY <1>1, Zenon DEF SnapshotInv, EndsWith
<1>5. \A k \in 1 .. b : d[k] \in Nat
  BY <1>2, <1>4, SeqElement, Zenon
<1>6. Entry(s, 0) = 0
  BY Zenon DEF Entry
<1>7. \A k \in 1 .. b : Entry(s, k) = d[k]
  BY <1>3 DEF Entry
<1>8. ASSUME NEW k \in (b + 1) .. Last(s) PROVE Entry(s, k) = TermAt(logs[s], k)
  <2>1. k # 0 /\ ~(k =< b)
    BY <1>3
  <2> QED
    BY <2>1, Zenon DEF Entry
<1>9. TermAt(logs[s], b) = Entry(s, b)
  <2>1. TermAt(logs[s], b) = logs[s].terms[1]
    BY <1>3 DEF TermAt
  <2>2. CASE b = 0
    BY <1>6, <2>1, <2>2, Zenon DEF DummyInv
  <2>3. CASE b > 0
    BY <1>3, <1>4, <1>7, <2>1, <2>3
  <2> QED
    BY <1>3, <2>2, <2>3
<1>10. \A k \in b .. Last(s) : TermAt(logs[s], k) = Entry(s, k)
  BY <1>3, <1>8, <1>9
<1>11. \A k \in 0 .. Last(s) : Entry(s, k) \in Nat
  BY <1>3, <1>5, <1>6, <1>7, <1>10
<1>12. LastTerm(logs[s]) = TopTerm(s)
  BY <1>3, <1>10 DEF LastTerm, TopTerm, Last
<1>13. \A k \in 1 .. Last(s) : FullLog(s)[k] = Entry(s, k)
  <2> TAKE k \in 1 .. Last(s)
  <2>1. CASE k > b
    <3>1. FullLog(s)[k] = TermAt(logs[s], k)
      BY <1>1, <1>3, <2>1, FullLogFacts DEF Last
    <3> QED
      BY <1>3, <1>8, <2>1, <3>1
  <2>2. CASE k =< b
    <3> DEFINE t == Tail(logs[s].terms)
    <3>1. t \in Seq(Nat)
      <4>1. logs[s].terms \in Seq(Nat) /\ logs[s].terms # <<>>
        BY <1>2, Zenon DEF Log
      <4> QED
        BY <4>1, SeqTail, Zenon
    <3>2. (d \o t)[k] = d[k]
      <4>1. k \in 1 .. Len(d)
        BY <1>3, <1>4, <2>2
      <4> HIDE DEF t, d
      <4> QED
        BY <1>2, <3>1, <4>1, ConcatFacts, Zenon
    <3>3. FullLog(s) = d \o t
      BY Zenon DEF FullLog
    <3>4. Entry(s, k) = d[k]
      BY <1>3, <1>7, <2>2
    <3> QED
      BY <3>2, <3>3, <3>4, Zenon
  <2> QED
    BY <1>3, <2>1, <2>2
<1>14. TopTerm(s) \in Nat
  BY <1>3, <1>11 DEF TopTerm
<1> QED
  BY <1>2, <1>3, <1>4, <1>6, <1>7, <1>10, <1>11, <1>12, <1>13, <1>14, Zenon

LEMMA EntryFactsNext == DurableInv' /\ DummyInv' => LogShape'
BY EntryFacts, PTL

LEMMA UntouchedLog ==
    ASSUME TypeOK, NEW s \in Server, logs'[s] = logs[s],
           disk'[s].snapshot = disk[s].snapshot
    PROVE  SameLog(s)
<1>1. logs[s].base \in Nat
  BY LogFacts, Zenon DEF TypeOK
<1>2. Last(s)' = Last(s) /\ logs'[s].base >= logs[s].base
  BY <1>1 DEF Last
<1>3. \A k : Entry(s, k)' = Entry(s, k)
  BY Zenon DEF Entry
<1>4. TopTerm(s)' = TopTerm(s)
  BY <1>2, Zenon DEF TopTerm, Last, Entry
<1> QED
  BY <1>2, <1>3, <1>4, Zenon DEF SameLog

\* persist() in a step that leaves logs alone, or that replaces the log of s.
LEMMA PersistLogs ==
    ASSUME TypeOK, NEW s \in Server, NEW c, PersistIf(c, s) \/ Persist(s),
           \A p \in Server \ {s} : logs'[p] = logs[p]
    PROVE  /\ \A p \in Server : disk'[p].snapshot = disk[p].snapshot
           /\ OthersKeepLogs(s)
<1>1. \A p \in Server : disk'[p].snapshot = disk[p].snapshot
  BY PersistKeepsSnapshot, Zenon DEF PersistIf
<1> QED
  BY <1>1, UntouchedLog, Zenon DEF OthersKeepLogs

LEMMA UnchangedLogs ==
    ASSUME TypeOK, UNCHANGED logs, \A p \in Server : disk'[p].snapshot = disk[p].snapshot
    PROVE  AllKeepLogs
BY UntouchedLog, Zenon DEF AllKeepLogs

LEMMA StartLog ==
    ASSUME DurableInv, DummyInv, NEW s \in Server, Start(s)
    PROVE  /\ OthersKeepLogs(s)
           /\ logs'[s].base = logs[s].base /\ Last(s)' = Last(s) + 1
           /\ \A k \in 0 .. Last(s) : Entry(s, k)' = Entry(s, k)
           /\ \A k \in Nat : k = Last(s) + 1 => Entry(s, k)' = currentTerm[s]
           /\ TopTerm(s)' = currentTerm[s]
<1> DEFINE l == [base |-> logs[s].base, terms |-> Append(logs[s].terms, currentTerm[s])]
           b == logs[s].base
<1>0. PICK n : n = Last(s)
  BY Zenon
<1>1. TypeOK /\ logs' = Set(logs, s, l) /\ Persist(s)
  BY Zenon DEF DurableInv, Start
<1>2. /\ logs[s] \in Log /\ currentTerm[s] \in Nat /\ logs'[s] = l
      /\ \A p \in Server \ {s} : logs'[p] = logs[p]
  <2> HIDE DEF l
  <2> QED
    BY <1>1, Zenon DEF TypeOK, Set
<1>3. b \in Nat /\ n \in Nat /\ b =< n
  BY <1>0, EntryFacts, Zenon DEF LogShape
<1>4. /\ LastIndex(l) = n + 1 /\ TermAt(l, n + 1) = currentTerm[s]
      /\ \A k \in b .. n : TermAt(l, k) = TermAt(logs[s], k)
  BY <1>0, <1>2, AppendFacts, Zenon DEF Last
<1>5. \A p \in Server : disk'[p].snapshot = disk[p].snapshot
  BY <1>1, <1>2, PersistLogs, Zenon
<1>6. OthersKeepLogs(s)
  BY <1>1, <1>2, PersistLogs, Zenon
<1>7. logs'[s].base = b
  BY <1>2
<1> HIDE DEF l
<1>8. Last(s)' = n + 1
  BY <1>2, <1>4, Zenon DEF Last
<1>9. ASSUME NEW k \in 0 .. n PROVE Entry(s, k)' = Entry(s, k)
  BY <1>2, <1>3, <1>4, <1>5, <1>7 DEF Entry
<1>10. Entry(s, n + 1)' = currentTerm[s]
  <2>1. n + 1 # 0 /\ ~(n + 1 =< b)
    BY <1>3
  <2>2. TermAt(logs'[s], n + 1) = currentTerm[s]
    BY <1>2, <1>4, Zenon
  <2> QED
    BY <1>7, <2>1, <2>2, Zenon DEF Entry
<1>11. TopTerm(s)' = currentTerm[s]
  BY <1>8, <1>10, Zenon DEF TopTerm
<1> QED
  BY <1>0, <1>6, <1>7, <1>8, <1>9, <1>10, <1>11, Zenon

LEMMA MatchedFacts ==
    ASSUME LogShape, NEW s \in Server, NEW i \in Int, NEW t
    PROVE  IsLogMatched(logs[s], i, t) <=>
               i >= logs[s].base /\ i =< Last(s) /\ t = Entry(s, i)
<1>1. /\ logs[s].base \in Nat /\ Last(s) \in Nat
      /\ \A k \in logs[s].base .. Last(s) : TermAt(logs[s], k) = Entry(s, k)
  BY Zenon DEF LogShape
<1>2. IsLogMatched(logs[s], i, t) <=>
          i \in logs[s].base .. Last(s) /\ t = TermAt(logs[s], i)
  BY Zenon DEF IsLogMatched, Last
<1> QED
  BY <1>1, <1>2

LEMMA MergeLog ==
    ASSUME DurableInv, DummyInv, NEW s \in Server, NEW m \in AppendEntriesArgs,
           AppendAccepted(s, m)
    PROVE  /\ OthersKeepLogs(s) /\ logs'[s].base = logs[s].base
           /\ \/ SameLog(s) /\ AllMatch(s, m.prevLogIndex, m.entries)
              \/ /\ ~AllMatch(s, m.prevLogIndex, m.entries)
                 /\ Last(s)' = m.prevLogIndex + Len(m.entries)
                 /\ \A k \in 0 .. m.prevLogIndex : Entry(s, k)' = Entry(s, k)
                 /\ \A k \in 1 .. Len(m.entries) :
                       Entry(s, m.prevLogIndex + k)' = m.entries[k]
<1> DEFINE i == m.prevLogIndex
           e == m.entries
           b == logs[s].base
           l == Merge(logs[s], i, e)
<1>1. /\ TypeOK /\ IsLogMatched(logs[s], i, m.prevLogTerm) /\ logs' = Set(logs, s, l)
      /\ PersistIf(m.term > currentTerm[s] \/ l # logs[s], s)
  BY Zenon DEF DurableInv, AppendAccepted
<1>2. i \in Nat /\ e \in Seq(Nat) /\ Len(e) \in Nat /\ logs[s] \in Log
  BY <1>1, SeqLength, Zenon DEF AppendEntriesArgs, TypeOK
<1>3. /\ logs'[s] = l /\ \A p \in Server \ {s} : logs'[p] = logs[p]
  <2> HIDE DEF l
  <2> QED
    BY <1>1, Zenon DEF TypeOK, Set
<1>4. LogShape
  BY EntryFacts, Zenon
<1>5. b \in Nat /\ Last(s) \in Nat /\ i \in b .. Last(s)
  <2>1. b \in Nat /\ Last(s) \in Nat /\ i \in Int
    BY <1>2, <1>4 DEF LogShape
  <2>2. i >= b /\ i =< Last(s)
    BY <1>1, <1>4, <2>1, MatchedFacts, Zenon
  <2> QED
    BY <2>1, <2>2
<1>6. /\ \A p \in Server : disk'[p].snapshot = disk[p].snapshot
      /\ OthersKeepLogs(s)
  BY <1>1, <1>3, PersistLogs, Zenon
<1>7. (\A k \in 1 .. Len(e) : IsLogMatched(logs[s], i + k, e[k])) <=> AllMatch(s, i, e)
  <2>1. \A k \in 1 .. Len(e) : i + k \in Int /\ i + k >= b
    BY <1>2, <1>5
  <2>2. \A k \in 1 .. Len(e) : IsLogMatched(logs[s], i + k, e[k]) <=>
            i + k >= b /\ i + k =< Last(s) /\ e[k] = Entry(s, i + k)
    BY <1>4, <2>1, MatchedFacts, Zenon
  <2> QED
    BY <2>1, <2>2, Zenon DEF AllMatch
<1> HIDE DEF l
<1>8. CASE l = logs[s] /\ \A k \in 1 .. Len(e) : IsLogMatched(logs[s], i + k, e[k])
  <2>1. SameLog(s)
    BY <1>1, <1>3, <1>6, <1>8, UntouchedLog, Zenon
  <2> QED
    BY <1>3, <1>6, <1>7, <1>8, <2>1, Zenon
<1>9. CASE /\ \E k \in 1 .. Len(e) : ~IsLogMatched(logs[s], i + k, e[k])
           /\ l.base = b /\ LastIndex(l) = i + Len(e)
           /\ \A k \in b .. i : TermAt(l, k) = TermAt(logs[s], k)
           /\ \A k \in 1 .. Len(e) : TermAt(l, i + k) = e[k]
  <2>1. ~AllMatch(s, i, e)
    BY <1>7, <1>9, Zenon
  <2>2. Last(s)' = i + Len(e) /\ logs'[s].base = b
    BY <1>3, <1>9, Zenon DEF Last
  <2>3. ASSUME NEW k \in 0 .. i PROVE Entry(s, k)' = Entry(s, k)
    <3>1. k # 0 /\ ~(k =< b) => k \in b .. i
      BY <1>2, <1>5
    <3>2. /\ logs'[s] = l /\ disk'[s].snapshot = disk[s].snapshot
          /\ k # 0 /\ ~(k =< b) => TermAt(l, k) = TermAt(logs[s], k)
      BY <1>3, <1>6, <1>9, <3>1, Zenon
    <3> QED
      BY <1>9, <3>2, Zenon DEF Entry
  <2>4. ASSUME NEW k \in 1 .. Len(e) PROVE Entry(s, i + k)' = e[k]
    <3>1. i + k # 0 /\ ~(i + k =< b)
      BY <1>2, <1>5
    <3> QED
      BY <1>3, <1>9, <3>1, Zenon DEF Entry
  <2> QED
    BY <1>6, <2>1, <2>2, <2>3, <2>4, Zenon
<1> QED
  <2>1. i \in logs[s].base .. LastIndex(logs[s])
    BY <1>5, Zenon DEF Last
  <2> QED
    BY <1>2, <1>8, <1>9, <2>1, MergeFacts, Zenon DEF l

LEMMA SnapshotLog ==
    ASSUME DurableInv, DummyInv, NEW s \in Server, NEW index \in Nat, Snapshot(s, index)
    PROVE  AllKeepLogs
<1> DEFINE l == Compact(logs[s], index, TermAt(logs[s], index))
           data == SubSeq(FullLog(s), 1, index)
           b == logs[s].base
<1>0. PICK n : n = Last(s)
  BY Zenon
<1>1. /\ TypeOK /\ SnapshotInv /\ index > b /\ index =< LastIndex(logs[s])
      /\ logs' = Set(logs, s, l) /\ SaveStateAndSnapshot(s, data)
  BY Zenon DEF DurableInv, Snapshot
<1>2. /\ logs[s] \in Log /\ logs'[s] = l /\ disk'[s].snapshot = data
      /\ \A p \in Server \ {s} : logs'[p] = logs[p] /\ disk'[p] = disk[p]
  <2> HIDE DEF l, data
  <2> QED
    BY <1>1, Zenon DEF TypeOK, Set, SaveStateAndSnapshot
<1>3. /\ b \in Nat /\ n \in Nat /\ index =< n /\ b =< n
      /\ \A k \in b .. n : TermAt(logs[s], k) = Entry(s, k)
      /\ \A k \in 1 .. n : FullLog(s)[k] = Entry(s, k)
      /\ \A k \in 0 .. n : Entry(s, k) \in Nat
  BY <1>0, <1>1, EntryFacts, Zenon DEF LogShape, Last
<1>4. \A k \in 1 .. index : data[k] = Entry(s, k)
  <2>1. \A k \in 1 .. index : FullLog(s)[k] = Entry(s, k) /\ FullLog(s)[k] \in Nat
    BY <1>3
  <2>2. \A k \in 1 .. index : data[k] = FullLog(s)[k]
    BY <2>1, SeqSlice
  <2> QED
    BY <2>1, <2>2, Zenon
<1>5. /\ l.base = index /\ LastIndex(l) = n
      /\ \A k \in (index + 1) .. n : TermAt(l, k) = TermAt(logs[s], k)
  <2>1. TermAt(logs[s], index) \in Nat /\ index >= b
    BY <1>1, <1>3
  <2>2. ~(index > LastIndex(logs[s])) /\ LastIndex(logs[s]) = n
    BY <1>0, <1>3 DEF Last
  <2> QED
    BY <1>2, <2>1, <2>2, CompactFacts
<1> HIDE DEF l, data
<1>6. Last(s)' = n /\ logs'[s].base = index
  BY <1>2, <1>5, Zenon DEF Last
<1>7. ASSUME NEW k \in 0 .. n PROVE Entry(s, k)' = Entry(s, k)
  <2>1. CASE k = 0
    BY <2>1, Zenon DEF Entry
  <2>2. CASE k \in 1 .. index
    BY <1>2, <1>4, <1>6, <2>2 DEF Entry
  <2>3. CASE k \in (index + 1) .. n
    <3>1. k # 0 /\ ~(k =< index) /\ k \in b .. n
      BY <1>1, <1>3, <2>3
    <3> QED
      BY <1>2, <1>3, <1>5, <1>6, <2>3, <3>1, Zenon DEF Entry
  <2> QED
    BY <1>3, <2>1, <2>2, <2>3
<1>8. TopTerm(s)' = TopTerm(s)
  BY <1>0, <1>3, <1>6, <1>7 DEF TopTerm
<1>9. SameLog(s)
  BY <1>0, <1>1, <1>3, <1>6, <1>7, <1>8 DEF SameLog
<1>10. \A p \in Server \ {s} : SameLog(p)
  BY <1>1, <1>2, UntouchedLog, Zenon
<1> QED
  BY <1>9, <1>10, Zenon DEF AllKeepLogs

LEMMA CondInstallLog ==
    ASSUME DurableInv, DummyInv, NEW s \in Server, NEW snap \in applyCh[s],
           CondInstallSnapshot(s, snap), snap.index > commitIndex[s]
    PROVE  /\ OthersKeepLogs(s) /\ snap.index \in Nat /\ logs'[s].base = snap.index
           /\ Last(s)' = IF snap.index > Last(s) THEN snap.index ELSE Last(s)
           /\ \A k \in 1 .. snap.index : Entry(s, k)' = snap.data[k]
           /\ \A k \in (snap.index + 1) .. Last(s) : Entry(s, k)' = Entry(s, k)
<1> DEFINE index == snap.index
           l == Compact(logs[s], index, snap.term)
           b == logs[s].base
<1>0. PICK n : n = Last(s)
  BY Zenon
<1>1. TypeOK /\ SnapshotInv
  BY Zenon DEF DurableInv
<1>2. /\ index \in Nat /\ snap.term \in Nat /\ snap.data \in Seq(Nat)
      /\ commitIndex[s] \in Nat /\ logs[s] \in Log
  <2>1. snap \in Snap
    BY <1>1, Zenon DEF TypeOK
  <2> QED
    BY <1>1, <2>1, SnapFields, Zenon DEF TypeOK
<1>3. logs' = Set(logs, s, l) /\ SaveStateAndSnapshot(s, snap.data)
  <2>1. ~(snap.index =< commitIndex[s])
    BY <1>2
  <2> QED
    BY <2>1, Zenon DEF CondInstallSnapshot
<1>4. /\ logs'[s] = l /\ disk'[s].snapshot = snap.data
      /\ \A p \in Server \ {s} : logs'[p] = logs[p] /\ disk'[p] = disk[p]
  <2> HIDE DEF l
  <2> QED
    BY <1>1, <1>3, Zenon DEF TypeOK, Set, SaveStateAndSnapshot
<1>5. /\ b \in Nat /\ n \in Nat /\ b =< n /\ b =< commitIndex[s]
      /\ \A k \in b .. n : TermAt(logs[s], k) = Entry(s, k)
  BY <1>0, EntryFacts, Zenon DEF LogShape
<1>6. /\ l.base = index /\ LastIndex(l) = (IF index > n THEN index ELSE n)
      /\ \A k \in (index + 1) .. n : TermAt(l, k) = TermAt(logs[s], k)
  <2>1. index >= b
    BY <1>2, <1>5
  <2> QED
    BY <1>0, <1>2, <2>1, CompactFacts DEF Last
<1> HIDE DEF l
<1>7. Last(s)' = (IF index > n THEN index ELSE n) /\ logs'[s].base = index
  BY <1>4, <1>6, Zenon DEF Last
<1>8. ASSUME NEW k \in 1 .. index PROVE Entry(s, k)' = snap.data[k]
  BY <1>4, <1>7 DEF Entry
<1>9. ASSUME NEW k \in (index + 1) .. n PROVE Entry(s, k)' = Entry(s, k)
  <2>1. k # 0 /\ ~(k =< index) /\ k \in b .. n
    BY <1>2, <1>5
  <2> QED
    BY <1>4, <1>5, <1>6, <1>7, <2>1, Zenon DEF Entry
<1>10. \A p \in Server \ {s} : SameLog(p)
  BY <1>1, <1>4, UntouchedLog, Zenon
<1> QED
  BY <1>0, <1>2, <1>7, <1>8, <1>9, <1>10, Zenon DEF OthersKeepLogs

\* A crash keeps every log: the disk has it.
LEMMA CrashLogs ==
    ASSUME DurableInv, NEW s \in Server,
           \/ Restart(s)
           \/ RestartInElection(s)
           \/ \E m \in net : RestartInRPC(s, m)
    PROVE  UNCHANGED logs /\ AllKeepLogs
<1>1. TypeOK /\ disk[s].log = logs[s]
  BY Zenon DEF DurableInv, DiskInSync
<1>2. PICK saved, lost : /\ Make(s, saved, lost) /\ saved.log = logs[s]
                         /\ saved.snapshot = disk[s].snapshot
  <2>1. CASE Restart(s)
    BY <1>1, <2>1, Zenon DEF Restart
  <2>2. CASE RestartInElection(s)
    BY <2>2 DEF RestartInElection
  <2>3. CASE \E m \in net : RestartInRPC(s, m)
    BY <2>3 DEF RestartInRPC
  <2> QED
    BY <2>1, <2>2, <2>3, Zenon
<1>3. UNCHANGED logs
  BY <1>1, <1>2, Zenon DEF Make, Set, TypeOK
<1>4. \A p \in Server : disk'[p].snapshot = disk[p].snapshot
  BY <1>1, <1>2, Zenon DEF Make, Set, TypeOK
<1> QED
  BY <1>1, <1>3, <1>4, UnchangedLogs, Zenon

\* What StartElection sends: the candidate's new term and its last entry.
LEMMA TimeoutSends ==
    ASSUME NEW s \in Server, ElectionTimeout(s), NEW m \in net', m \notin net
    PROVE  /\ m.type = "RequestVote" /\ m.from = s /\ m.term = currentTerm[s] + 1
           /\ m.lastLogIndex = LastIndex(logs[s]) /\ m.lastLogTerm = LastTerm(logs[s])
<1> DEFINE Request(p) ==
        [type |-> "RequestVote", from |-> s, to |-> p, term |-> currentTerm[s] + 1,
         lastLogIndex |-> LastIndex(logs[s]), lastLogTerm |-> LastTerm(logs[s])]
<1>1. PICK p \in Server : m = Request(p)
  BY Zenon DEF ElectionTimeout, SendSome
<1> QED
  BY <1>1

=============================================================================
