------------------------------ MODULE RaftLog ------------------------------
(***************************************************************************)
(* A peer's log, and what the handlers of src/src/raft compute from one.   *)
(* base is the index of the dummy entry logs[0], that is of the last entry *)
(* the snapshot covers; terms[1] is the term of that entry.                *)
(***************************************************************************)
EXTENDS Integers, Sequences, FiniteSetsExt

Log == [base: Nat, terms: Seq(Nat) \ {<<>>}]
EmptyLog == [base |-> 0, terms |-> <<0>>]

LastIndex(l) == l.base + Len(l.terms) - 1
TermAt(l, i) == l.terms[i - l.base + 1]
LastTerm(l) == TermAt(l, LastIndex(l))
UpTo(l, i) == SubSeq(l.terms, 1, i - l.base + 1)
After(l, i) == SubSeq(l.terms, i - l.base + 2, Len(l.terms))

\* Mutant: the up-to-date check of RequestVote is forgotten.
AnyLogUpToDate(l, index, term) == TRUE

IsLogUpToDate(l, index, term) ==
    term > LastTerm(l) \/ (term = LastTerm(l) /\ index >= LastIndex(l))

\* Mutant: only the index is compared.
IsIndexInLog(l, index, term) == index \in l.base .. LastIndex(l)

IsLogMatched(l, index, term) ==
    index \in l.base .. LastIndex(l) /\ term = TermAt(l, index)

\* Mutant: new entries are appended, conflicting ones are never replaced.
MergeAppendOnly(l, prev, entries) ==
    [base |-> l.base,
     terms |-> l.terms \o SubSeq(entries, LastIndex(l) - prev + 1, Len(entries))]

\* The entries a follower keeps when it takes entries after index prev.
Merge(l, prev, entries) ==
    IF \E k \in 1 .. Len(entries) : ~IsLogMatched(l, prev + k, entries[k])
    THEN [base |-> l.base, terms |-> UpTo(l, prev) \o entries]
    ELSE l

\* Where the loop that skips the entries of term t backwards from prev stops.
ScanBack(l, prev, t) ==
    CHOOSE i \in (l.base - 1) .. prev :
        /\ i >= l.base => TermAt(l, i) # t
        /\ \A j \in (i + 1) .. prev : TermAt(l, j) = t

\* Mutants: one entry too many is dropped; the dummy keeps the term it had.
CompactDropsOneMore(l, index, term) ==
    [base |-> index,
     terms |-> IF index > LastIndex(l) THEN <<term>> ELSE <<term>> \o After(l, index + 1)]
CompactKeepsOldTerm(l, index, term) ==
    [base |-> index,
     terms |-> <<l.terms[1]>> \o (IF index > LastIndex(l) THEN <<>> ELSE After(l, index))]

\* Discarding the log up to the last entry a snapshot covers.
Compact(l, index, term) ==
    [base |-> index,
     terms |-> IF index > LastIndex(l) THEN <<term>> ELSE <<term>> \o After(l, index)]

\* Mutant: the index after the one that is missing.
ConflictPastEnd(l, prev, term) ==
    CASE prev < l.base -> [index |-> 0, term |-> 0]
      [] prev > LastIndex(l) -> [index |-> LastIndex(l) + 2, term |-> -1]
      [] OTHER -> [index |-> ScanBack(l, prev, term) + 1, term |-> term]

\* What a follower reports when prev and term do not match its log.
Conflict(l, prev, term) ==
    CASE prev < l.base -> [index |-> 0, term |-> 0]
      [] prev > LastIndex(l) -> [index |-> LastIndex(l) + 1, term |-> -1]
      [] OTHER -> [index |-> ScanBack(l, prev, term) + 1, term |-> term]

\* Where a leader resumes after a rejection: at the last entry below
\* prevLogIndex of the reported term, if it has one.
Backup(l, m) ==
    LET hits == {i \in l.base .. (m.prevLogIndex - 1) : TermAt(l, i) = m.conflictTerm}
    IN IF m.conflictTerm # -1 /\ hits # {} THEN Max(hits) ELSE m.conflictIndex

=============================================================================
