------------------------- MODULE RaftHistoryProofs --------------------------
(***************************************************************************)
(* The history behind the logs: what it says of a state that it explains,  *)
(* which steps of cluster and history together keep it an explanation, and *)
(* for the actions that change no entry and decide none, the step of the   *)
(* history that comes with them: none, or a term gets its leader, which    *)
(* must not trust a matchIndex left over from an earlier term of office.   *)
(***************************************************************************)
EXTENDS RaftLogProofs

\* The leaves that name no prover are for the SMT solver.
USE SMTT(30)

-----------------------------------------------------------------------------
(* Histories. *)

LEMMA HistoryFacts ==
    ASSUME NEW h \in History, NEW T \in Nat
    PROVE  /\ h.led \subseteq Nat /\ h.len[T] \in Nat /\ h.leader[T] \in Server
           /\ h.voters[T] \in SUBSET Server
           /\ \A k \in Nat : h.log[T][k] \in Nat
           /\ \A p \in Server : h.acked[T][p] \in Nat
<1>1. /\ h.led \in SUBSET Nat /\ h.len \in [Nat -> Nat] /\ h.leader \in [Nat -> Server]
      /\ h.voters \in [Nat -> SUBSET Server] /\ h.log \in [Nat -> [Nat -> Nat]]
      /\ h.acked \in [Nat -> [Server -> Nat]]
  BY Zenon DEF History
<1>2. h.log[T] \in [Nat -> Nat] /\ h.acked[T] \in [Server -> Nat]
  BY <1>1, Zenon
<1> QED
  BY <1>1, <1>2, Zenon

\* The terms of a leader's log never decrease.
LEMMA LogsAscend ==
    ASSUME NEW h, Lineage(h), NEW T \in Nat, NEW j \in 1 .. h.len[T], NEW i \in 1 .. j
    PROVE  h.log[T][i] =< h.log[T][j]
<1> DEFINE U == h.log[T][j]
<1>1. h \in History /\ h.len[T] \in Nat
  BY HistoryFacts, Zenon DEF Lineage
<1>2. U \in h.led /\ Extends(h, U, T, j)
  BY Zenon DEF Lineage
<1>3. U \in Nat /\ h.len[U] \in Nat
  BY <1>1, <1>2, HistoryFacts, Zenon
<1>4. i \in 1 .. h.len[U] /\ h.log[U][i] = h.log[T][i]
  BY <1>2, <1>3 DEF Extends
<1>5. h.log[U][i] =< U
  BY <1>3, <1>4, Zenon DEF Lineage
<1> QED
  BY <1>4, <1>5, Zenon

\* Leaders' logs match: an entry in two of them has the same past in both.
LEMMA SharedPast ==
    ASSUME NEW h, Lineage(h), NEW T \in Nat, NEW U \in Nat,
           NEW i \in 1 .. h.len[T], i =< h.len[U], h.log[T][i] = h.log[U][i]
    PROVE  \A k \in 1 .. i : h.log[T][k] = h.log[U][k]
<1>1. h.len[U] \in Nat /\ h.len[T] \in Nat
  BY HistoryFacts, Zenon DEF Lineage
<1>2. i \in 1 .. h.len[U]
  BY <1>1
<1>3. Extends(h, h.log[T][i], T, i) /\ Extends(h, h.log[T][i], U, i)
  BY <1>2, Zenon DEF Lineage
<1> QED
  BY <1>3, Zenon DEF Extends

LEMMA ChosenFacts ==
    ASSUME NEW h \in History, NEW T \in Nat, NEW i \in Nat, Chosen(h, T, i)
    PROVE  /\ Choosable(h, T, i) /\ Created(h, T, i) /\ T \in h.led
           /\ i \in 1 .. h.len[T] /\ h.log[T][i] = T
           /\ \A k \in Nat : k =< i /\ Created(h, T, k) => Chosen(h, T, k)
<1>1. PICK Q \in SUBSET Server : Majority(Q) /\ \A p \in Q : h.acked[T][p] >= i
  BY Zenon DEF Chosen
<1>2. Created(h, T, i)
  BY Zenon DEF Chosen
<1>3. Choosable(h, T, i)
  BY <1>1, <1>2, Zenon DEF Choosable
<1>4. ASSUME NEW k \in Nat, k =< i, Created(h, T, k) PROVE Chosen(h, T, k)
  <2>1. \A p \in Q : h.acked[T][p] >= k
    BY <1>1, <1>4, HistoryFacts
  <2> QED
    BY <1>1, <1>4, <2>1, Zenon DEF Chosen
<1> QED
  BY <1>2, <1>3, <1>4, Zenon DEF Created

\* The log of every later term starts with what may be chosen.
LEMMA LaterExtends ==
    ASSUME NEW h, Lineage(h), ChoiceInv(h), NEW T \in Nat, NEW i \in Nat, NEW U \in h.led,
           T =< U, Choosable(h, T, i)
    PROVE  Extends(h, U, T, i)
<1>1. U \in Nat /\ h.len[T] \in Nat
  BY HistoryFacts, Zenon DEF Lineage
<1>2. CASE T < U
  BY <1>2, Zenon DEF ChoiceInv
<1>3. CASE T = U
  BY <1>1, <1>3 DEF Choosable, Created, Extends
<1> QED
  BY <1>1, <1>2, <1>3

\* Two choices that are still possible agree as far as both reach.
LEMMA ChoicesAgree ==
    ASSUME NEW h, Lineage(h), ChoiceInv(h), NEW T \in Nat, NEW i \in Nat,
           NEW U \in Nat, NEW j \in Nat, Choosable(h, T, i), Choosable(h, U, j)
    PROVE  \A k \in 1 .. i : k =< j => h.log[T][k] = h.log[U][k]
<1>1. T \in h.led /\ U \in h.led
  BY Zenon DEF Choosable, Created
<1>2. CASE T =< U
  BY <1>1, <1>2, LaterExtends DEF Extends
<1>3. CASE U =< T
  BY <1>1, <1>3, LaterExtends DEF Extends
<1> QED
  BY <1>2, <1>3

LEMMA DecidedFacts ==
    ASSUME NEW h, Lineage(h), ChoiceInv(h), NEW T \in h.led, NEW n \in Nat, Decided(h, T, n)
    PROVE  /\ n =< h.len[T]
           /\ n > 0 /\ h.log[T][n] = T => Chosen(h, T, n)
<1>1. T \in Nat /\ h.len[T] \in Nat /\ h \in History
  BY HistoryFacts, Zenon DEF Lineage
<1>2. CASE n = 0
  BY <1>1, <1>2
<1>3. CASE n > 0
  <2>1. PICK U, i \in Nat : U =< T /\ n =< i /\ Chosen(h, U, i)
    BY <1>3, Zenon DEF Decided
  <2>2. Choosable(h, U, i) /\ i \in 1 .. h.len[U]
    BY <1>1, <2>1, ChosenFacts, Zenon
  <2>3. Extends(h, T, U, i)
    BY <2>1, <2>2, LaterExtends, Zenon
  <2>4. n =< h.len[T]
    BY <1>1, <2>1, <2>3 DEF Extends
  <2>5. ASSUME h.log[T][n] = T PROVE Chosen(h, T, n)
    <3>1. h.len[U] \in Nat
      BY <1>1, <2>1, HistoryFacts, Zenon
    <3>2. h.log[U][n] = T
      BY <1>3, <2>1, <2>3, <2>5 DEF Extends
    <3>3. n \in 1 .. h.len[U]
      BY <1>3, <2>1, <2>2, <3>1
    <3>4. T =< U
      BY <3>2, <3>3, Zenon DEF Lineage
    <3>5. U = T
      BY <1>1, <2>1, <3>4
    <3>6. Created(h, T, n)
      BY <1>1, <1>3, <2>4, <2>5 DEF Created
    <3> QED
      BY <1>1, <2>1, <3>5, <3>6, ChosenFacts, Zenon
  <2> QED
    BY <2>4, <2>5, Zenon
<1> QED
  BY <1>2, <1>3

-----------------------------------------------------------------------------
(* What an explained state says of single peers. *)

LEMMA CommittedPrefix ==
    ASSUME NEW h \in History, LogShape, CommitInv(h), NEW s \in Server, logs[s].base > 0
    PROVE  \E T, i \in Nat : /\ T =< currentTerm[s] /\ commitIndex[s] =< i /\ Chosen(h, T, i)
                             /\ logs[s].base =< i
                             /\ \A k \in 1 .. commitIndex[s] : Entry(s, k) = h.log[T][k]
                             /\ \A k \in 1 .. logs[s].base : Entry(s, k) = h.log[T][k]
<1>1. logs[s].base \in Nat /\ commitIndex[s] \in Nat /\ logs[s].base =< commitIndex[s]
  BY Zenon DEF LogShape
<1>2. PICK T, i \in Nat : /\ T =< currentTerm[s] /\ commitIndex[s] =< i /\ Chosen(h, T, i)
                          /\ Has(h, s, T, commitIndex[s])
  BY <1>1 DEF CommitInv, PeerDecided
<1>3. \A k \in 1 .. commitIndex[s] : Entry(s, k) = h.log[T][k]
  BY <1>2, Zenon DEF Has
<1>4. logs[s].base =< i /\ \A k \in 1 .. logs[s].base : Entry(s, k) = h.log[T][k]
  BY <1>1, <1>2, <1>3
<1> QED
  BY <1>2, <1>3, <1>4, Zenon

\* The check of prevLogIndex and prevLogTerm in AppendEntries: an entry that
\* matches the leader's vouches for all before it, snapshot included.
LEMMA MatchVouches ==
    ASSUME NEW h, LogShape, Lineage(h), PeerInv(h), CommitInv(h), ChoiceInv(h),
           NEW s \in Server, NEW T \in h.led, currentTerm[s] =< T, NEW i \in Nat,
           logs[s].base =< i, i =< Last(s), i =< h.len[T],
           i > 0 => Entry(s, i) = h.log[T][i]
    PROVE  Has(h, s, T, i)
<1>1. /\ h \in History /\ T \in Nat /\ h.len[T] \in Nat
      /\ logs[s].base \in Nat /\ Last(s) \in Nat /\ currentTerm[s] \in Nat /\ TopTerm(s) \in Nat
  BY HistoryFacts, Zenon DEF Lineage, LogShape
<1>2. ASSUME NEW k \in 1 .. i, k =< logs[s].base PROVE Entry(s, k) = h.log[T][k]
  <2>1. PICK U, j \in Nat : /\ U =< currentTerm[s] /\ Chosen(h, U, j) /\ logs[s].base =< j
                            /\ \A x \in 1 .. logs[s].base : Entry(s, x) = h.log[U][x]
    BY <1>1, <1>2, CommittedPrefix
  <2>2. Choosable(h, U, j) /\ U =< T
    BY <1>1, <2>1, ChosenFacts
  <2>3. Extends(h, T, U, j)
    BY <2>2, LaterExtends, Zenon
  <2>4. k \in 1 .. j /\ k \in 1 .. logs[s].base
    BY <1>1, <1>2, <2>1
  <2> QED
    BY <2>1, <2>3, <2>4, Zenon DEF Extends
<1>3. ASSUME NEW k \in 1 .. i, ~(k =< logs[s].base) PROVE Entry(s, k) = h.log[T][k]
  <2> DEFINE t == TopTerm(s)
  <2>1. /\ Created(h, t, Last(s))
        /\ \A x \in (logs[s].base + 1) .. Last(s) : Entry(s, x) = h.log[t][x]
    BY <1>1, <1>3 DEF PeerInv, PeerLog
  <2>2. Entry(s, i) = h.log[t][i] /\ Entry(s, k) = h.log[t][k]
    BY <1>1, <1>3, <2>1
  <2>3. h.len[t] \in Nat /\ Last(s) =< h.len[t]
    BY <1>1, <2>1, HistoryFacts DEF Created
  <2>4. i \in 1 .. h.len[t] /\ h.log[t][i] = h.log[T][i]
    BY <1>1, <1>3, <2>2, <2>3
  <2>5. h.log[t][k] = h.log[T][k]
    <3> HIDE DEF t
    <3> QED
      BY <1>1, <2>4, SharedPast DEF t
  <2> QED
    BY <2>2, <2>5, Zenon
<1> QED
  BY <1>2, <1>3, Zenon DEF Has

LEMMA TailTerms ==
    ASSUME NEW h, LogShape, Lineage(h), PeerInv(h), NEW s \in Server,
           NEW i \in (logs[s].base + 1) .. Last(s)
    PROVE  Entry(s, i) =< TopTerm(s)
<1> DEFINE t == TopTerm(s)
<1>1. logs[s].base \in Nat /\ Last(s) \in Nat /\ t \in Nat /\ h \in History
  BY Zenon DEF LogShape, Lineage
<1>2. Created(h, t, Last(s)) /\ Entry(s, i) = h.log[t][i]
  BY <1>1 DEF PeerInv, PeerLog
<1>3. i \in 1 .. h.len[t]
  BY <1>1, <1>2, HistoryFacts DEF Created
<1>4. h.log[t][i] =< t
  BY <1>1, <1>3, Zenon DEF Lineage
<1> QED
  BY <1>2, <1>4, Zenon

\* isLogUpToDate: a log whose last entry is at least as new as an entry that may
\* be chosen has that entry.
LEMMA UpToDateHolds ==
    ASSUME NEW h, LogShape, Lineage(h), PeerInv(h), CommitInv(h), ChoiceInv(h),
           NEW s \in Server, NEW T \in Nat, NEW i \in Nat, Choosable(h, T, i),
           TopTerm(s) > T \/ (TopTerm(s) = T /\ i =< Last(s))
    PROVE  Holds(h, s, T, i)
<1> DEFINE t == TopTerm(s)
<1>1. /\ h \in History /\ t \in Nat
      /\ logs[s].base \in Nat /\ Last(s) \in Nat /\ currentTerm[s] \in Nat
  BY Zenon DEF Lineage, LogShape
<1>2. /\ h.len[T] \in Nat /\ h.len[t] \in Nat
      /\ T \in h.led /\ i \in 1 .. h.len[T] /\ h.log[T][i] = T
  BY <1>1, HistoryFacts, Zenon DEF Choosable, Created
<1>3. Last(s) > 0
  <2>1. Last(s) = 0 => t = 0
    BY Zenon DEF LogShape, TopTerm
  <2> QED
    BY <1>1, <1>2, <2>1
<1>4. /\ Created(h, t, Last(s))
      /\ \A x \in (logs[s].base + 1) .. Last(s) : Entry(s, x) = h.log[t][x]
  BY <1>3, Zenon DEF PeerInv, PeerLog
<1>5. t \in h.led /\ Last(s) =< h.len[t] /\ h.log[t][Last(s)] = t /\ T =< t
  BY <1>1, <1>2, <1>4 DEF Created
<1>6. i =< h.len[t] /\ \A k \in 1 .. i : h.log[t][k] = h.log[T][k]
  BY <1>5, LaterExtends, Zenon DEF Extends
<1>7. i =< Last(s)
  <2> SUFFICES ASSUME ~(i =< Last(s)) PROVE FALSE
    BY Zenon
  <2>1. Last(s) \in 1 .. i /\ i \in 1 .. h.len[t] /\ t > T
    BY <1>1, <1>2, <1>3, <1>6
  <2>2. h.log[t][Last(s)] =< h.log[t][i]
    <3> HIDE DEF t
    <3> QED
      BY <1>1, <2>1, LogsAscend, Zenon
  <2>3. h.log[t][i] = T
    BY <1>2, <1>6
  <2> QED
    BY <1>1, <1>5, <2>1, <2>2, <2>3
<1>8. ASSUME NEW k \in 1 .. i, k =< logs[s].base PROVE Entry(s, k) = h.log[T][k]
  <2>1. PICK U, j \in Nat : /\ Chosen(h, U, j) /\ logs[s].base =< j
                            /\ \A x \in 1 .. logs[s].base : Entry(s, x) = h.log[U][x]
    BY <1>1, <1>8, CommittedPrefix
  <2>2. Choosable(h, U, j)
    BY <1>1, <2>1, ChosenFacts, Zenon
  <2>3. k =< j /\ k \in 1 .. logs[s].base
    BY <1>1, <1>8, <2>1
  <2>4. h.log[T][k] = h.log[U][k]
    BY <2>2, <2>3, ChoicesAgree
  <2> QED
    BY <2>1, <2>3, <2>4, Zenon
<1>9. ASSUME NEW k \in 1 .. i, ~(k =< logs[s].base) PROVE Entry(s, k) = h.log[T][k]
  <2>1. k \in (logs[s].base + 1) .. Last(s)
    BY <1>1, <1>7, <1>9
  <2> QED
    BY <1>4, <1>6, <2>1, Zenon
<1>10. t >= T
  BY <1>1, <1>5, Zenon
<1> QED
  BY <1>7, <1>8, <1>9, <1>10, Zenon DEF Holds, Has

\* The log of a candidate that has the votes of a majority is a leader's log up
\* to its last entry: the choices behind its snapshot were confirmed by one of
\* its voters, so what follows the snapshot continues it.
LEMMA WinnerLog ==
    ASSUME NEW h, LogShape, Lineage(h), PeerInv(h), CommitInv(h), ChoiceInv(h), BallotInv(h),
           MajoritiesMeet, NEW s \in Server, state[s] = "Candidate", currentTerm[s] \notin h.led,
           NEW Q \in SUBSET Server, Majority(Q), \A p \in Q : Claim(p, s, currentTerm[s]),
           Last(s) > 0
    PROVE  \A k \in 1 .. Last(s) : Entry(s, k) = h.log[TopTerm(s)][k]
<1> DEFINE t == TopTerm(s)
           b == logs[s].base
<1>1. /\ h \in History /\ t \in Nat
      /\ b \in Nat /\ Last(s) \in Nat /\ currentTerm[s] \in Nat
  BY Zenon DEF Lineage, LogShape
<1>2. /\ Created(h, t, Last(s))
      /\ \A x \in (b + 1) .. Last(s) : Entry(s, x) = h.log[t][x]
  BY Zenon DEF PeerInv, PeerLog
<1>3. ASSUME NEW k \in 1 .. Last(s), k =< b PROVE Entry(s, k) = h.log[t][k]
  <2>1. PICK U, j \in Nat : /\ U =< currentTerm[s] /\ Chosen(h, U, j) /\ b =< j
                            /\ \A x \in 1 .. b : Entry(s, x) = h.log[U][x]
    BY <1>1, <1>3, CommittedPrefix
  <2>2. Choosable(h, U, j) /\ U \in h.led
    BY <1>1, <2>1, ChosenFacts, Zenon
  <2>3. PICK R \in SUBSET Server : Majority(R) /\ \A p \in R : h.acked[U][p] >= j
    BY <2>1, Zenon DEF Chosen
  <2>4. PICK p \in Server : p \in Q /\ p \in R
    BY <2>3, Zenon DEF MajoritiesMeet
  <2>5. U < currentTerm[s]
    BY <1>1, <2>1, <2>2
  <2>6. Holds(h, s, U, j)
    BY <2>2, <2>3, <2>4, <2>5, Zenon DEF BallotInv
  <2>7. U =< t
    BY <1>1, <2>6, Zenon DEF Holds
  <2>8. Extends(h, t, U, j)
    BY <1>1, <1>2, <2>2, <2>7, LaterExtends, Zenon DEF Created
  <2>9. k \in 1 .. j /\ k \in 1 .. b
    BY <1>1, <1>3, <2>1
  <2> QED
    BY <2>1, <2>8, <2>9, Zenon DEF Extends
<1>4. ASSUME NEW k \in 1 .. Last(s), ~(k =< b) PROVE Entry(s, k) = h.log[t][k]
  BY <1>1, <1>2, <1>4
<1> QED
  BY <1>3, <1>4, Zenon

-----------------------------------------------------------------------------
(* Steps.  A step goes from history h to history g. *)

Grows(h, g) ==
    /\ g \in History /\ h.led \subseteq g.led
    /\ \A T \in h.led : g.leader[T] = h.leader[T] /\ g.voters[T] = h.voters[T]
    /\ \A T \in Nat : /\ h.len[T] =< g.len[T]
                      /\ \A k \in 1 .. h.len[T] : g.log[T][k] = h.log[T][k]
    /\ \A T \in Nat, p \in Server :
          /\ g.acked[T][p] >= h.acked[T][p]
          /\ g.acked[T][p] > h.acked[T][p] => currentTerm[p] =< T /\ currentTerm'[p] = T

LEMMA GrowsKeeps ==
    ASSUME NEW h, NEW g, Lineage(h), Grows(h, g), NEW T \in Nat, NEW i \in Nat
    PROVE  /\ Created(h, T, i) => Created(g, T, i)
           /\ Chosen(h, T, i) => Chosen(g, T, i)
           /\ \A U \in Nat : Extends(h, U, T, i) /\ i =< h.len[T] => Extends(g, U, T, i)
<1>1. /\ h \in History /\ g \in History
      /\ \A V \in Nat : h.len[V] \in Nat /\ g.len[V] \in Nat /\ h.len[V] =< g.len[V]
      /\ \A p \in Server : h.acked[T][p] \in Nat /\ g.acked[T][p] \in Nat
  BY HistoryFacts, Zenon DEF Lineage, Grows
<1>2. ASSUME Created(h, T, i) PROVE Created(g, T, i)
  BY <1>1, <1>2 DEF Created, Grows
<1>3. ASSUME Chosen(h, T, i) PROVE Chosen(g, T, i)
  <2>1. PICK Q \in SUBSET Server : Majority(Q) /\ \A p \in Q : h.acked[T][p] >= i
    BY <1>3, Zenon DEF Chosen
  <2>2. ASSUME NEW p \in Q PROVE g.acked[T][p] >= i
    <3>1. g.acked[T][p] >= h.acked[T][p] /\ h.acked[T][p] >= i
      BY <2>1, Zenon DEF Grows
    <3> QED
      BY <1>1, <3>1
  <2>3. Created(g, T, i)
    BY <1>2, <1>3, Zenon DEF Chosen
  <2> QED
    BY <2>1, <2>2, <2>3, Zenon DEF Chosen
<1>4. ASSUME NEW U \in Nat, Extends(h, U, T, i), i =< h.len[T] PROVE Extends(g, U, T, i)
  <2>1. i =< h.len[U] /\ \A k \in 1 .. i : h.log[U][k] = h.log[T][k]
    BY <1>4, Zenon DEF Extends
  <2>2. i =< g.len[U]
    BY <1>1, <2>1
  <2>3. ASSUME NEW k \in 1 .. i PROVE g.log[U][k] = g.log[T][k]
    <3>1. k \in 1 .. h.len[U] /\ k \in 1 .. h.len[T]
      BY <1>1, <1>4, <2>1
    <3>2. g.log[U][k] = h.log[U][k] /\ g.log[T][k] = h.log[T][k]
      BY <3>1, Zenon DEF Grows
    <3> QED
      BY <2>1, <3>2, Zenon
  <2> QED
    BY <2>2, <2>3, Zenon DEF Extends
<1> QED
  BY <1>2, <1>3, <1>4, Zenon

LEMMA DecisionsLast ==
    ASSUME NEW h, NEW g, Lineage(h), Grows(h, g), NEW t \in Nat, NEW u \in Nat, t =< u
    PROVE  /\ \A n : Decided(h, t, n) => Decided(g, u, n)
           /\ \A snap \in Snap : SnapDecided(h, snap, t) => SnapDecided(g, snap, u)
<1>1. ASSUME NEW n, Decided(h, t, n) PROVE Decided(g, u, n)
  <2>1. SUFFICES ASSUME n > 0 PROVE \E T, i \in Nat : T =< u /\ n =< i /\ Chosen(g, T, i)
    BY Zenon DEF Decided
  <2>2. PICK T, i \in Nat : T =< t /\ n =< i /\ Chosen(h, T, i)
    BY <1>1, <2>1, Zenon DEF Decided
  <2>3. Chosen(g, T, i) /\ T =< u
    BY <2>2, GrowsKeeps
  <2> QED
    BY <2>2, <2>3, Zenon
<1>2. ASSUME NEW snap \in Snap, SnapDecided(h, snap, t) PROVE SnapDecided(g, snap, u)
  <2>1. SUFFICES ASSUME snap.index > 0
                 PROVE  \E T, i \in Nat :
                          /\ T =< u /\ snap.index =< i /\ Chosen(g, T, i)
                          /\ \A k \in 1 .. snap.index : snap.data[k] = g.log[T][k]
    BY Zenon DEF SnapDecided
  <2>2. PICK T, i \in Nat : /\ T =< t /\ snap.index =< i /\ Chosen(h, T, i)
                            /\ \A k \in 1 .. snap.index : snap.data[k] = h.log[T][k]
    BY <1>2, <2>1, Zenon DEF SnapDecided
  <2>3. Chosen(g, T, i) /\ T =< u
    BY <2>2, GrowsKeeps
  <2>4. ASSUME NEW k \in 1 .. snap.index PROVE snap.data[k] = g.log[T][k]
    <3>1. h.len[T] \in Nat /\ i =< h.len[T] /\ snap.index \in Nat
      BY <2>2, HistoryFacts, SnapFields DEF Chosen, Created, Lineage
    <3>2. k \in 1 .. h.len[T]
      BY <2>2, <3>1
    <3> QED
      BY <2>2, <3>2, Zenon DEF Grows
  <2> QED
    BY <2>2, <2>3, <2>4, Zenon
<1> QED
  BY <1>1, <1>2, Zenon

LEMMA ChoosableBefore ==
    ASSUME NEW h, NEW g, Lineage(h), Grows(h, g), TypeOK, TypeOK', VoteStep,
           NEW T \in Nat, NEW i \in Nat, Choosable(g, T, i)', Created(h, T, i)
    PROVE  Choosable(h, T, i)
<1>1. PICK Q \in SUBSET Server :
          Majority(Q) /\ \A p \in Q : g.acked[T][p] >= i \/ currentTerm'[p] =< T
  BY Zenon DEF Choosable
<1>2. ASSUME NEW p \in Q PROVE h.acked[T][p] >= i \/ currentTerm[p] =< T
  <2>1. /\ currentTerm[p] \in Nat /\ currentTerm'[p] \in Nat
        /\ currentTerm'[p] >= currentTerm[p]
    BY Zenon DEF TypeOK, VoteStep
  <2>2. h.acked[T][p] \in Nat /\ g.acked[T][p] \in Nat
    BY HistoryFacts, Zenon DEF Lineage, Grows
  <2>3. /\ g.acked[T][p] >= h.acked[T][p]
        /\ g.acked[T][p] > h.acked[T][p] => currentTerm[p] =< T
    BY Zenon DEF Grows
  <2> QED
    BY <1>1, <2>1, <2>2, <2>3
<1> QED
  BY <1>1, <1>2, Zenon DEF Choosable

\* Entries are created past the end of the log of their term, by a peer that is
\* the only one to have confirmed them and is still in that term.
FreshStep(h, g) ==
    \A T, i \in Nat : Created(g, T, i) /\ ~Created(h, T, i) =>
        \A p \in Server : g.acked[T][p] >= i => currentTerm'[p] =< T

\* A new leader is one of the peers, in its own term, elected by the votes it
\* counted, and its log extends what may be chosen.
ElectStep(h, g) ==
    \A U \in g.led \ h.led :
        /\ state'[g.leader[U]] = "Leader" /\ currentTerm'[g.leader[U]] = U
        /\ g.voters[U] = votes'[g.leader[U]]
        /\ \A T, i \in Nat : T < U /\ Choosable(h, T, i) => Extends(g, U, T, i)

\* What a peer newly confirms it has.
AckStep(h, g) ==
    \A p \in Server, T, i \in Nat :
        Created(g, T, i) /\ g.acked[T][p] >= i /\ ~(h.acked[T][p] >= i) => Holds(g, p, T, i)'

\* No peer loses an entry that may be chosen, up to the term it is in.
KeepStep(h) ==
    \A s \in Server, T, i, c \in Nat :
        T =< currentTerm'[s] /\ Choosable(h, T, i) /\ c =< i /\ Has(h, s, T, c) =>
            Has(h, s, T, c)' /\ (c = i /\ TopTerm(s) >= T => TopTerm(s)' >= T)

\* A peer becomes a candidate only by increasing its term.
RoleStep ==
    \A s \in Server :
        state'[s] = "Candidate" /\ currentTerm'[s] = currentTerm[s] => state[s] = "Candidate"

\* A commitIndex only moves to what is decided.
CommitStep(g) ==
    \A s \in Server :
        \/ commitIndex'[s] =< commitIndex[s]
        \/ commitIndex'[s] =< Last(s)' /\ PeerDecided(g, s, commitIndex[s])'

\* A vote counts for a candidate only if it has what the voter confirmed.
BallotStep(h) ==
    \A s, p \in Server, T, i \in Nat :
        /\ state'[s] = "Candidate" /\ T < currentTerm'[s] /\ Claim(p, s, currentTerm[s])'
        /\ Choosable(h, T, i) /\ h.acked[T][p] >= i
        => Holds(h, s, T, i)

SendStep(g) == \A m \in net' : m \in net \/ MessageOK(g, m)'

ApplyStep(g) ==
    \A s \in Server : \A snap \in applyCh'[s] :
        snap \in applyCh[s] \/ SnapDecided(g, snap, currentTerm'[s])

\* All of it: a step of the cluster and of its history.
SafeStep(h, g) ==
    /\ Grows(h, g) /\ Lineage(g) /\ FreshStep(h, g) /\ ElectStep(h, g) /\ AckStep(h, g)
    /\ KeepStep(h) /\ RoleStep /\ CommitStep(g) /\ BallotStep(h) /\ SendStep(g) /\ ApplyStep(g)
    /\ LeaderInv(g)' /\ PeerInv(g)'

-----------------------------------------------------------------------------
(* A safe step leads to a state that the new history explains. *)

LEMMA FreshIsNew ==
    ASSUME NEW h, NEW g, Lineage(h), Lineage(g), Grows(h, g), NEW T \in Nat, NEW i \in Nat,
           Created(g, T, i), ~Created(h, T, i)
    PROVE  i > h.len[T]
<1>1. h.len[T] \in Nat /\ T \in Nat /\ i \in 1 .. g.len[T] /\ g.log[T][i] = T
  BY HistoryFacts, Zenon DEF Lineage, Created
<1>2. SUFFICES ASSUME i =< h.len[T] PROVE FALSE
  BY <1>1
<1>3. i \in 1 .. h.len[T] /\ i >= 1
  BY <1>1, <1>2, HistoryFacts DEF Lineage, Created
<1>4. h.log[T][i] = T
  BY <1>1, <1>3, Zenon DEF Grows
<1>5. T \in h.led
  BY <1>1, <1>3 DEF Lineage
<1> QED
  BY <1>3, <1>4, <1>5, Zenon DEF Created

LEMMA HistoryNext ==
    ASSUME NEW h, NEW g, HistoryInv(h), Lineage(g), Grows(h, g), TypeOK, TypeOK', VoteStep
    PROVE  HistoryInv(g)'
<1> SUFFICES ASSUME NEW T \in Nat, NEW p \in Server, g.acked[T][p] > 0
             PROVE  currentTerm'[p] >= T
  BY Zenon DEF HistoryInv
<1>1. /\ currentTerm[p] \in Nat /\ currentTerm'[p] \in Nat
      /\ currentTerm'[p] >= currentTerm[p]
  BY Zenon DEF TypeOK, VoteStep
<1>2. h.acked[T][p] \in Nat /\ g.acked[T][p] \in Nat
  BY HistoryFacts, Zenon DEF HistoryInv, Lineage
<1>3. g.acked[T][p] > h.acked[T][p] => currentTerm'[p] = T
  BY Zenon DEF Grows
<1>4. h.acked[T][p] > 0 => currentTerm[p] >= T
  BY Zenon DEF HistoryInv
<1> QED
  BY <1>1, <1>2, <1>3, <1>4

LEMMA VotersNext ==
    ASSUME NEW h, NEW g, h \in History, VoterInv(h), Grows(h, g), ElectStep(h, g), RoleStep,
           TypeOK, TypeOK', ClaimInv', VoteStep, CountStep, ReplyStep
    PROVE  VoterInv(g)'
<1>1. g \in History /\ h \in History /\ g.led \subseteq Nat
  BY HistoryFacts, Zenon DEF Grows
<1> SUFFICES ASSUME NEW T \in Nat, T \in g.led
             PROVE  /\ Majority(g.voters[T])
                    /\ \A p \in g.voters[T] :
                          /\ \/ currentTerm'[p] > T
                             \/ currentTerm'[p] = T /\ votedFor'[p] = g.leader[T]
                          /\ \A r \in Server : Claim(p, r, T)' => r = g.leader[T]
                    /\ currentTerm'[g.leader[T]] >= T
                    /\ currentTerm'[g.leader[T]] = T => state'[g.leader[T]] # "Candidate"
  BY <1>1, Zenon DEF VoterInv, Majority
<1> DEFINE s == g.leader[T]
<1>2. s \in Server /\ g.voters[T] \in SUBSET Server
  BY <1>1, HistoryFacts, Zenon
<1>3. \A p \in Server : /\ currentTerm[p] \in Nat /\ currentTerm'[p] \in Nat
                        /\ currentTerm'[p] >= currentTerm[p]
  BY Zenon DEF TypeOK, VoteStep
<1>4. CASE T \in h.led
  <2>1. g.leader[T] = h.leader[T] /\ g.voters[T] = h.voters[T]
    BY <1>4, Zenon DEF Grows
  <2>2. /\ Majority(g.voters[T])
        /\ \A p \in g.voters[T] :
              /\ currentTerm[p] > T \/ (currentTerm[p] = T /\ votedFor[p] = s)
              /\ \A r \in Server : Claim(p, r, T) => r = s
        /\ currentTerm[s] >= T
        /\ currentTerm[s] = T => state[s] # "Candidate"
    BY <1>4, <2>1, Zenon DEF VoterInv
  <2> HIDE DEF s
  <2>3. ASSUME NEW p \in g.voters[T]
        PROVE  currentTerm'[p] > T \/ (currentTerm'[p] = T /\ votedFor'[p] = s)
    <3>1. p \in Server /\ s # Nil
      BY <1>2, ServerAssumption, Zenon
    <3>2. CASE currentTerm'[p] = currentTerm[p]
      <4>1. votedFor[p] # Nil => votedFor'[p] = votedFor[p]
        BY <3>1, <3>2, Zenon DEF VoteStep
      <4> QED
        BY <2>2, <3>1, <3>2, <4>1, Zenon
    <3>3. CASE currentTerm'[p] # currentTerm[p]
      BY <1>3, <2>2, <3>1, <3>3
    <3> QED
      BY <3>2, <3>3, Zenon
  <2>4. ASSUME NEW p \in g.voters[T], NEW r \in Server, Claim(p, r, T)' PROVE r = s
    <3>1. p \in Server /\ s # Nil
      BY <1>2, ServerAssumption, Zenon
    <3>2. Claim(p, r, T) \/ Casts(p, r, T)
      <4>1. CASE p \in votes'[r] /\ T = currentTerm'[r]
        BY <4>1, Zenon DEF CountStep
      <4>2. CASE \E m \in net' : Granted(m) /\ m.from = p /\ m.to = r /\ m.term = T
        BY <4>2, Zenon DEF ReplyStep, Claim
      <4> QED
        BY <2>4, <4>1, <4>2, Zenon DEF Claim
    <3>3. CASE Casts(p, r, T)
      <4>1. currentTerm[p] =< T /\ (currentTerm[p] = T => votedFor[p] \in {Nil, r})
        BY <3>3, Zenon DEF Casts
      <4>2. currentTerm[p] = T /\ votedFor[p] = s
        BY <1>3, <2>2, <3>1, <4>1
      <4> QED
        BY <3>1, <4>1, <4>2, Zenon
    <3> QED
      BY <2>2, <3>2, <3>3, Zenon
  <2>5. currentTerm'[s] >= T /\ (currentTerm'[s] = T => state'[s] # "Candidate")
    <3>1. s \in Server
      BY <1>2, Zenon
    <3>2. currentTerm'[s] >= T
      BY <1>3, <2>2, <3>1
    <3>3. ASSUME currentTerm'[s] = T PROVE state'[s] # "Candidate"
      <4>1. currentTerm[s] = T
        BY <1>3, <2>2, <3>1, <3>3
      <4> QED
        BY <2>2, <3>1, <3>3, <4>1, Zenon DEF RoleStep
    <3> QED
      BY <3>2, <3>3, Zenon
  <2> QED
    BY <2>2, <2>3, <2>4, <2>5, Zenon DEF s
<1>5. CASE T \notin h.led
  <2>1. state'[s] = "Leader" /\ currentTerm'[s] = T /\ g.voters[T] = votes'[s]
    BY <1>5, Zenon DEF ElectStep
  <2> HIDE DEF s
  <2>2. Majority(g.voters[T])
    BY <1>2, <2>1, Zenon DEF ClaimInv, Majority
  <2>3. ASSUME NEW p \in g.voters[T] PROVE p \in Server /\ Claim(p, s, T)'
    BY <1>2, <2>1, Zenon DEF Claim
  <2>4. ASSUME NEW p \in g.voters[T]
        PROVE  /\ currentTerm'[p] > T \/ (currentTerm'[p] = T /\ votedFor'[p] = s)
               /\ \A r \in Server : Claim(p, r, T)' => r = s
    BY <1>2, <2>3, Zenon DEF ClaimInv
  <2> QED
    BY <1>3, <1>2, <2>1, <2>2, <2>4 DEF s
<1> QED
  BY <1>4, <1>5, Zenon

\* Once a later term has a leader, nothing new of an earlier term can be chosen.
LEMMA FreshNotChoosable ==
    ASSUME NEW h, NEW g, g \in History, FreshStep(h, g), VoterInv(g)', TypeOK', MajoritiesMeet,
           NEW T \in Nat, NEW i \in Nat, ~Created(h, T, i), NEW U \in g.led, T < U
    PROVE  ~Choosable(g, T, i)'
<1> SUFFICES ASSUME Choosable(g, T, i)' PROVE FALSE
  BY Zenon
<1>1. U \in Nat /\ g.voters[U] \in SUBSET Server
  BY HistoryFacts, Zenon
<1>2. PICK Q \in SUBSET Server :
          Majority(Q) /\ \A p \in Q : g.acked[T][p] >= i \/ currentTerm'[p] =< T
  BY Zenon DEF Choosable, Majority
<1>3. /\ Majority(g.voters[U])
      /\ \A p \in g.voters[U] : currentTerm'[p] > U \/ currentTerm'[p] = U
  BY Zenon DEF VoterInv, Majority
<1>4. PICK p \in Server : p \in Q /\ p \in g.voters[U]
  BY <1>1, <1>2, <1>3, Zenon DEF MajoritiesMeet
<1>5. Created(g, T, i)
  BY Zenon DEF Choosable
<1>6. currentTerm'[p] =< T
  BY <1>2, <1>4, <1>5, Zenon DEF FreshStep
<1>7. currentTerm'[p] \in Nat
  BY Zenon DEF TypeOK
<1> QED
  BY <1>1, <1>3, <1>4, <1>6, <1>7

LEMMA HasGrows ==
    ASSUME NEW h, NEW g, Lineage(h), Grows(h, g), LogShape', NEW s \in Server,
           NEW T \in Nat, NEW c \in Nat, c =< h.len[T], Has(h, s, T, c)'
    PROVE  Has(g, s, T, c)'
<1>1. h.len[T] \in Nat
  BY HistoryFacts, Zenon DEF Lineage
<1>2. ASSUME NEW k \in 1 .. c PROVE Entry(s, k)' = g.log[T][k]
  <2>1. k \in 1 .. h.len[T]
    BY <1>1
  <2>2. Entry(s, k)' = h.log[T][k] /\ g.log[T][k] = h.log[T][k]
    BY <2>1, Zenon DEF Has, Grows
  <2> QED
    BY <2>2, Zenon
<1> QED
  BY <1>2, Zenon DEF Has

LEMMA HoldsKept ==
    ASSUME NEW h, NEW g, Lineage(h), Grows(h, g), KeepStep(h), LogShape', NEW s \in Server,
           NEW T \in Nat, NEW i \in Nat, T =< currentTerm'[s], Choosable(h, T, i),
           Holds(h, s, T, i)
    PROVE  Holds(g, s, T, i)'
<1>1. i =< h.len[T] /\ i =< i
  BY DEF Choosable, Created
<1>2. Has(h, s, T, i)' /\ TopTerm(s)' >= T
  BY <1>1, Zenon DEF KeepStep, Holds
<1>3. Has(g, s, T, i)'
  BY <1>1, <1>2, HasGrows, Zenon
<1> QED
  BY <1>2, <1>3, Zenon DEF Holds

LEMMA ChoicesNext ==
    ASSUME NEW h, NEW g, HistoryInv(h), ChoiceInv(h), SafeStep(h, g), VoterInv(g)',
           TypeOK, TypeOK', VoteStep, MajoritiesMeet
    PROVE  ChoiceInv(g)'
<1>0. Lineage(h) /\ Lineage(g) /\ Grows(h, g) /\ g \in History /\ h \in History
  BY Zenon DEF SafeStep, HistoryInv, Lineage
<1> SUFFICES ASSUME NEW T \in Nat, NEW i \in Nat, NEW U \in g.led, T < U,
                    Choosable(g, T, i)'
             PROVE  Extends(g, U, T, i)
  BY Zenon DEF ChoiceInv
<1>1. Created(h, T, i)
  BY <1>0, FreshNotChoosable, Zenon DEF SafeStep
<1>2. Choosable(h, T, i)
  BY <1>0, <1>1, ChoosableBefore, Zenon
<1>3. CASE U \in h.led
  <2>1. Extends(h, U, T, i)
    BY <1>2, <1>3, Zenon DEF ChoiceInv
  <2>2. i =< h.len[T] /\ U \in Nat
    BY <1>0, <1>1, <1>3, HistoryFacts DEF Created
  <2> QED
    BY <1>0, <2>1, <2>2, GrowsKeeps, Zenon
<1>4. CASE U \notin h.led
  BY <1>2, <1>4, Zenon DEF SafeStep, ElectStep
<1> QED
  BY <1>3, <1>4, Zenon

LEMMA AcksNext ==
    ASSUME NEW h, NEW g, HistoryInv(h), AckInv(h), SafeStep(h, g),
           TypeOK, TypeOK', VoteStep, LogShape'
    PROVE  AckInv(g)'
<1>0. Lineage(h) /\ Lineage(g) /\ Grows(h, g) /\ g \in History /\ h \in History
  BY Zenon DEF SafeStep, HistoryInv, Lineage
<1> SUFFICES ASSUME NEW p \in Server, NEW T \in Nat, NEW i \in Nat,
                    Choosable(g, T, i)', g.acked[T][p] >= i
             PROVE  Holds(g, p, T, i)'
  BY Zenon DEF AckInv
<1>1. Created(g, T, i)
  BY Zenon DEF Choosable
<1>2. CASE h.acked[T][p] >= i
  <2>1. /\ h.acked[T][p] \in Nat /\ h.len[T] \in Nat /\ h.acked[T][p] =< h.len[T]
        /\ i >= 1
    BY <1>0, <1>1, HistoryFacts DEF Lineage, Created
  <2>2. ~(i > h.len[T])
    BY <1>2, <2>1
  <2>3. Created(h, T, i)
    BY <1>0, <1>1, <2>2, FreshIsNew, Zenon
  <2>4. Choosable(h, T, i)
    BY <1>0, <2>3, ChoosableBefore, Zenon
  <2>5. Holds(h, p, T, i)
    BY <1>2, <2>4, Zenon DEF AckInv
  <2>6. T =< currentTerm'[p]
    <3>1. currentTerm[p] >= T
      BY <1>2, <2>1 DEF HistoryInv
    <3>2. /\ currentTerm[p] \in Nat /\ currentTerm'[p] \in Nat
          /\ currentTerm'[p] >= currentTerm[p]
      BY Zenon DEF TypeOK, VoteStep
    <3> QED
      BY <3>1, <3>2
  <2> QED
    BY <1>0, <2>4, <2>5, <2>6, HoldsKept, Zenon DEF SafeStep
<1>3. CASE ~(h.acked[T][p] >= i)
  BY <1>1, <1>3, Zenon DEF SafeStep, AckStep
<1> QED
  BY <1>2, <1>3, Zenon

LEMMA BallotsNext ==
    ASSUME NEW h, NEW g, HistoryInv(h), SafeStep(h, g), ClaimInv',
           TypeOK, TypeOK', VoteStep, LogShape'
    PROVE  BallotInv(g)'
<1>0. Lineage(h) /\ Lineage(g) /\ Grows(h, g) /\ g \in History /\ h \in History
  BY Zenon DEF SafeStep, HistoryInv, Lineage
<1> SUFFICES ASSUME NEW s \in Server, NEW p \in Server, NEW T \in Nat, NEW i \in Nat,
                    state'[s] = "Candidate", T < currentTerm'[s],
                    Claim(p, s, currentTerm[s])', Choosable(g, T, i)', g.acked[T][p] >= i
             PROVE  Holds(g, s, T, i)'
  BY Zenon DEF BallotInv
<1>1. currentTerm'[s] \in Nat /\ currentTerm'[p] \in Nat
  BY Zenon DEF TypeOK
<1>2. currentTerm'[p] > T
  <2>1. PICK t \in Nat : t = currentTerm'[s]
    BY <1>1, Zenon
  <2>2. Claim(p, s, t)'
    BY <2>1, Zenon DEF Claim
  <2>3. currentTerm'[p] > t \/ currentTerm'[p] = t
    BY <2>2, Zenon DEF ClaimInv
  <2> QED
    BY <1>1, <2>1, <2>3
<1>3. /\ h.acked[T][p] \in Nat /\ g.acked[T][p] \in Nat /\ h.len[T] \in Nat
      /\ h.acked[T][p] =< h.len[T] /\ g.acked[T][p] >= h.acked[T][p]
  BY <1>0, HistoryFacts, Zenon DEF Lineage, Grows
<1>4. g.acked[T][p] > h.acked[T][p] => currentTerm'[p] = T
  BY <1>0, Zenon DEF Grows
<1>5. h.acked[T][p] >= i /\ ~(i > h.len[T])
  BY <1>1, <1>2, <1>3, <1>4
<1>6. Created(h, T, i)
  <2>1. Created(g, T, i)
    BY Zenon DEF Choosable
  <2> QED
    BY <1>0, <1>5, <2>1, FreshIsNew, Zenon
<1>7. Choosable(h, T, i)
  BY <1>0, <1>6, ChoosableBefore, Zenon
<1>8. Holds(h, s, T, i)
  BY <1>5, <1>7, Zenon DEF SafeStep, BallotStep
<1>9. T =< currentTerm'[s]
  BY <1>1
<1> QED
  BY <1>0, <1>7, <1>8, <1>9, HoldsKept, Zenon DEF SafeStep

LEMMA CommitsNext ==
    ASSUME NEW h, NEW g, HistoryInv(h), CommitInv(h), SafeStep(h, g),
           TypeOK, TypeOK', VoteStep, LogShape, LogShape'
    PROVE  CommitInv(g)'
<1>0. Lineage(h) /\ Grows(h, g) /\ h \in History
  BY Zenon DEF SafeStep, HistoryInv, Lineage
<1> SUFFICES ASSUME NEW s \in Server
             PROVE  commitIndex'[s] =< Last(s)' /\ PeerDecided(g, s, commitIndex[s])'
  BY Zenon DEF CommitInv
<1>1. /\ currentTerm[s] \in Nat /\ currentTerm'[s] \in Nat
      /\ currentTerm'[s] >= currentTerm[s]
      /\ commitIndex[s] \in Nat /\ commitIndex'[s] \in Nat
      /\ Last(s) \in Nat /\ Last(s)' \in Nat
  BY Zenon DEF TypeOK, VoteStep, LogShape
<1>2. CASE commitIndex'[s] =< commitIndex[s] /\ commitIndex'[s] > 0
  <2>1. commitIndex[s] =< Last(s) /\ PeerDecided(h, s, commitIndex[s])
    BY Zenon DEF CommitInv
  <2>2. PICK T, i \in Nat : /\ T =< currentTerm[s] /\ commitIndex[s] =< i
                            /\ Chosen(h, T, i) /\ Has(h, s, T, commitIndex[s])
    BY <1>1, <1>2, <2>1 DEF PeerDecided
  <2>3. Has(h, s, T, commitIndex'[s])
    BY <1>1, <1>2, <2>2 DEF Has
  <2>4. Choosable(h, T, i) /\ i \in 1 .. h.len[T] /\ Chosen(g, T, i)
    BY <1>0, <2>2, ChosenFacts, GrowsKeeps, Zenon
  <2>5. T =< currentTerm'[s] /\ commitIndex'[s] =< i /\ commitIndex'[s] =< h.len[T]
    BY <1>0, <1>1, <1>2, <2>2, <2>4, HistoryFacts
  <2>6. PICK c \in Nat : c = commitIndex'[s]
    BY <1>1, Zenon
  <2>7. Has(h, s, T, c)'
    BY <2>3, <2>4, <2>5, <2>6, Zenon DEF SafeStep, KeepStep
  <2>8. Has(g, s, T, c)'
    BY <1>0, <2>5, <2>6, <2>7, HasGrows, Zenon
  <2>9. commitIndex'[s] =< Last(s)' /\ Has(g, s, T, commitIndex[s])'
    BY <2>6, <2>8, Zenon DEF Has
  <2> QED
    BY <2>4, <2>5, <2>9, Zenon DEF PeerDecided
<1>3. CASE ~(commitIndex'[s] > 0)
  BY <1>1, <1>3 DEF PeerDecided
<1>4. CASE ~(commitIndex'[s] =< commitIndex[s])
  BY <1>4, Zenon DEF SafeStep, CommitStep
<1> QED
  BY <1>2, <1>3, <1>4, Zenon

LEMMA RequestVoteNext ==
    ASSUME NEW h, NEW g, HistoryInv(h), SafeStep(h, g), VoterInv(g)',
           TypeOK, TypeOK', VoteStep, LogShape', MajoritiesMeet,
           NEW m \in RequestVoteArgs, RequestVoteOK(h, m)
    PROVE  RequestVoteOK(g, m)'
<1>0. Lineage(h) /\ Lineage(g) /\ Grows(h, g) /\ g \in History /\ h \in History
  BY Zenon DEF SafeStep, HistoryInv, Lineage
<1> DEFINE s == m.from
<1>1. /\ s \in Server /\ m.term \in Nat /\ m.lastLogTerm \in Nat /\ m.lastLogIndex \in Nat
      /\ currentTerm[s] \in Nat /\ currentTerm'[s] \in Nat
      /\ currentTerm'[s] >= currentTerm[s] /\ m.term =< currentTerm[s]
  BY Zenon DEF RequestVoteArgs, TypeOK, VoteStep, RequestVoteOK
<1>2. m.term =< currentTerm'[s]
  BY <1>1
<1>3. ASSUME m.term = currentTerm'[s], state'[s] = "Candidate"
      PROVE  /\ m.lastLogTerm > 0 \/ m.lastLogIndex > 0 =>
                    Created(g, m.lastLogTerm, m.lastLogIndex)
             /\ \A T, i \in Nat :
                   /\ T < m.term /\ Choosable(g, T, i)'
                   /\ m.lastLogTerm > T \/ (m.lastLogTerm = T /\ i =< m.lastLogIndex)
                   => Holds(g, s, T, i)'
  <2>1. currentTerm'[s] = currentTerm[s]
    BY <1>1, <1>3
  <2>2. state[s] = "Candidate"
    BY <1>1, <1>3, <2>1, Zenon DEF SafeStep, RoleStep
  <2>3. /\ m.lastLogTerm > 0 \/ m.lastLogIndex > 0 => Created(h, m.lastLogTerm, m.lastLogIndex)
        /\ \A T, i \in Nat :
              /\ T < m.term /\ Choosable(h, T, i)
              /\ m.lastLogTerm > T \/ (m.lastLogTerm = T /\ i =< m.lastLogIndex)
              => Holds(h, s, T, i)
    BY <1>3, <2>1, <2>2, Zenon DEF RequestVoteOK
  <2>4. ASSUME NEW T \in Nat, NEW i \in Nat, T < m.term, Choosable(g, T, i)',
               m.lastLogTerm > T \/ (m.lastLogTerm = T /\ i =< m.lastLogIndex)
        PROVE  Holds(g, s, T, i)'
    <3>1. Created(g, T, i) /\ i >= 1
      BY <1>0, <2>4, HistoryFacts DEF Choosable, Created
    <3>2. Created(h, m.lastLogTerm, m.lastLogIndex)
      BY <1>1, <2>3, <2>4, <3>1
    <3>3. Created(h, T, i)
      <4> SUFFICES ASSUME ~Created(h, T, i) PROVE FALSE
        BY Zenon
      <4>1. CASE m.lastLogTerm > T
        <5>1. m.lastLogTerm \in g.led /\ T < m.lastLogTerm
          BY <1>0, <1>1, <3>2, <4>1, Zenon DEF Created, Grows
        <5> QED
          BY <1>0, <2>4, <5>1, FreshNotChoosable, Zenon DEF SafeStep
      <4>2. CASE m.lastLogTerm = T /\ i =< m.lastLogIndex
        <5>1. h.len[T] \in Nat /\ m.lastLogIndex =< h.len[T]
          BY <1>0, <3>2, <4>2, HistoryFacts DEF Created
        <5>2. ~(i > h.len[T])
          BY <1>1, <4>2, <5>1
        <5> QED
          BY <1>0, <3>1, <5>2, FreshIsNew, Zenon
      <4> QED
        BY <2>4, <4>1, <4>2, Zenon
    <3>4. Choosable(h, T, i)
      BY <1>0, <2>4, <3>3, ChoosableBefore, Zenon
    <3>5. Holds(h, s, T, i)
      BY <2>3, <2>4, <3>4, Zenon
    <3>6. T =< currentTerm'[s]
      BY <1>1, <1>2, <2>4
    <3> QED
      BY <1>0, <1>1, <3>4, <3>5, <3>6, HoldsKept, Zenon DEF SafeStep
  <2>5. m.lastLogTerm > 0 \/ m.lastLogIndex > 0 => Created(g, m.lastLogTerm, m.lastLogIndex)
    BY <1>0, <1>1, <2>3, GrowsKeeps, Zenon
  <2> QED
    BY <2>4, <2>5, Zenon
<1> QED
  BY <1>2, <1>3, Zenon DEF RequestVoteOK

LEMMA AppendEntriesNext ==
    ASSUME NEW h, NEW g, Lineage(h), Grows(h, g), NEW m \in AppendEntriesArgs,
           AppendEntriesOK(h, m)
    PROVE  AppendEntriesOK(g, m)
<1> DEFINE T == m.term
           n == m.prevLogIndex + Len(m.entries)
<1>1. /\ T \in Nat /\ m.prevLogIndex \in Nat /\ m.leaderCommit \in Nat
      /\ Len(m.entries) \in Nat
  BY SeqLength, Zenon DEF AppendEntriesArgs
<1>2. /\ T \in h.led /\ n =< h.len[T]
      /\ m.prevLogTerm = IF m.prevLogIndex = 0 THEN 0 ELSE h.log[T][m.prevLogIndex]
      /\ \A k \in 1 .. Len(m.entries) : m.entries[k] = h.log[T][m.prevLogIndex + k]
      /\ m.leaderCommit =< n
      /\ Decided(h, T, m.leaderCommit)
  BY Zenon DEF AppendEntriesOK
<1> HIDE DEF T
<1>3. /\ h.len[T] \in Nat /\ g.len[T] \in Nat /\ h.len[T] =< g.len[T] /\ T \in g.led
      /\ \A k \in 1 .. h.len[T] : g.log[T][k] = h.log[T][k]
  BY <1>1, <1>2, HistoryFacts, Zenon DEF Lineage, Grows
<1>4. n =< g.len[T] /\ (m.prevLogIndex # 0 => m.prevLogIndex \in 1 .. h.len[T])
  <2>1. m.prevLogIndex + Len(m.entries) =< h.len[T] /\ h.len[T] =< g.len[T]
    BY <1>2, <1>3, Zenon
  <2>2. /\ m.prevLogIndex \in Nat /\ Len(m.entries) \in Nat
        /\ h.len[T] \in Nat /\ g.len[T] \in Nat
    BY <1>1, <1>3, Zenon
  <2> QED
    BY <2>1, <2>2
<1>5. ASSUME NEW k \in 1 .. Len(m.entries)
      PROVE  m.entries[k] = g.log[T][m.prevLogIndex + k]
  <2>1. m.prevLogIndex + k \in 1 .. h.len[T]
    BY <1>1, <1>2, <1>3
  <2> QED
    BY <1>2, <1>3, <2>1, Zenon
<1>6. Decided(g, T, m.leaderCommit)
  BY <1>1, <1>2, DecisionsLast
<1>7. m.prevLogTerm = IF m.prevLogIndex = 0 THEN 0 ELSE g.log[T][m.prevLogIndex]
  BY <1>2, <1>3, <1>4, Zenon
<1> QED
  BY <1>2, <1>3, <1>4, <1>5, <1>6, <1>7, Zenon DEF AppendEntriesOK, T

LEMMA MessagesNext ==
    ASSUME NEW h, NEW g, HistoryInv(h), SafeStep(h, g), VoterInv(g)', MessageInv(h),
           TypeOK, TypeOK', VoteStep, LogShape', MajoritiesMeet
    PROVE  MessageInv(g)'
<1>0. Lineage(h) /\ Lineage(g) /\ Grows(h, g) /\ g \in History /\ h \in History
  BY Zenon DEF SafeStep, HistoryInv, Lineage
<1> SUFFICES ASSUME NEW m \in net, MessageOK(h, m) PROVE MessageOK(g, m)'
  BY Zenon DEF MessageInv, SafeStep, SendStep
<1>1. m \in Message
  BY Zenon DEF TypeOK
<1>2. CASE m.type = "RequestVote"
  <2>1. RequestVoteOK(h, m) /\ m \in RequestVoteArgs
    BY <1>1, <1>2, MessageKind, Zenon DEF MessageOK
  <2>2. RequestVoteOK(g, m)'
    BY <2>1, RequestVoteNext, Zenon
  <2> QED
    BY <1>2, <2>2, Zenon DEF MessageOK
<1>3. CASE m.type = "RequestVoteReply"
  <2>1. m.term \in Nat /\ m.to \in Server /\ m.term =< currentTerm[m.to]
    BY <1>1, <1>3, MessageKind, Zenon DEF MessageOK, RequestVoteReply
  <2>2. /\ currentTerm[m.to] \in Nat /\ currentTerm'[m.to] \in Nat
        /\ currentTerm'[m.to] >= currentTerm[m.to]
    BY <2>1, Zenon DEF TypeOK, VoteStep
  <2>3. m.term =< currentTerm'[m.to]
    BY <2>1, <2>2
  <2> QED
    BY <1>3, <2>3, Zenon DEF MessageOK
<1>4. CASE m.type = "AppendEntries"
  <2>1. AppendEntriesOK(h, m) /\ m \in AppendEntriesArgs
    BY <1>1, <1>4, MessageKind, Zenon DEF MessageOK
  <2>2. AppendEntriesOK(g, m)
    BY <1>0, <2>1, AppendEntriesNext, Zenon
  <2> QED
    BY <1>4, <2>2, Zenon DEF MessageOK
<1>5. CASE m.type = "AppendEntriesReply" /\ m.success
  <2> DEFINE n == m.prevLogIndex + m.numEntries
  <2>1. m \in AppendEntriesReply
    BY <1>1, <1>5, MessageKind, Zenon
  <2>2. /\ m.term \in Nat /\ m.from \in Server
        /\ m.prevLogIndex \in Nat /\ m.numEntries \in Nat
    BY <2>1, Zenon DEF AppendEntriesReply
  <2>3. n =< h.acked[m.term][m.from] \/ Decided(h, m.term, n)
    BY <1>5, Zenon DEF MessageOK
  <2>4. ASSUME n =< h.acked[m.term][m.from] PROVE n =< g.acked[m.term][m.from]
    <3>1. /\ g.acked[m.term][m.from] >= h.acked[m.term][m.from]
          /\ g.acked[m.term][m.from] \in Nat /\ h.acked[m.term][m.from] \in Nat
      BY <1>0, <2>2, HistoryFacts, Zenon DEF Grows
    <3> QED
      BY <2>2, <2>4, <3>1
  <2>5. Decided(h, m.term, n) => Decided(g, m.term, n)
    BY <1>0, <2>2, DecisionsLast
  <2> QED
    BY <1>5, <2>3, <2>4, <2>5, Zenon DEF MessageOK
<1>6. CASE m.type = "InstallSnapshot"
  <2>1. m.term \in Nat /\ m.snap \in Snap
    BY <1>1, <1>6, MessageKind, Zenon DEF InstallSnapshotArgs
  <2>2. m.term \in h.led /\ SnapDecided(h, m.snap, m.term)
    BY <1>6, Zenon DEF MessageOK
  <2>3. m.term \in g.led /\ SnapDecided(g, m.snap, m.term)
    BY <1>0, <2>1, <2>2, DecisionsLast DEF Grows
  <2> QED
    BY <1>6, <2>3, Zenon DEF MessageOK
<1>7. CASE m.type = "InstallSnapshotReply"
  <2>1. m.term \in Nat
    BY <1>1, <1>7, MessageKind, Zenon DEF InstallSnapshotReply
  <2>2. Decided(h, m.term, m.lastIncludedIndex)
    BY <1>7, Zenon DEF MessageOK
  <2>3. Decided(g, m.term, m.lastIncludedIndex)
    BY <1>0, <2>1, <2>2, DecisionsLast
  <2> QED
    BY <1>7, <2>3, Zenon DEF MessageOK
<1> QED
  BY <1>2, <1>3, <1>4, <1>5, <1>6, <1>7, Zenon DEF MessageOK

LEMMA ApplyNext ==
    ASSUME NEW h, NEW g, HistoryInv(h), SafeStep(h, g), ApplyInv(h), TypeOK, TypeOK', VoteStep
    PROVE  ApplyInv(g)'
<1>0. Lineage(h) /\ Grows(h, g)
  BY Zenon DEF SafeStep, HistoryInv
<1> SUFFICES ASSUME NEW s \in Server, NEW snap \in applyCh[s]
             PROVE  SnapDecided(g, snap, currentTerm'[s])
  BY Zenon DEF ApplyInv, SafeStep, ApplyStep
<1>1. /\ currentTerm[s] \in Nat /\ currentTerm'[s] \in Nat
      /\ currentTerm[s] =< currentTerm'[s] /\ snap \in Snap
  BY Zenon DEF TypeOK, VoteStep
<1>2. SnapDecided(h, snap, currentTerm[s])
  BY Zenon DEF ApplyInv
<1> QED
  BY <1>0, <1>1, <1>2, DecisionsLast, Zenon

\* The induction step, once a step of the cluster is shown to be safe.
LEMMA SafeStepExplained ==
    ASSUME NEW h, NEW g, Explains(h), SafeStep(h, g), ElectionInv, ElectionInv',
           VoteSafeStep, LogShape, LogShape', MajoritiesMeet
    PROVE  Explains(g)'
<1>1. /\ TypeOK /\ TypeOK' /\ ClaimInv' /\ VoteStep /\ CountStep /\ ReplyStep
  BY Zenon DEF ElectionInv, DurableInv, VoteSafeStep
<1>2. /\ HistoryInv(h) /\ VoterInv(h) /\ CommitInv(h) /\ ChoiceInv(h) /\ AckInv(h)
      /\ MessageInv(h) /\ ApplyInv(h) /\ h \in History
  BY Zenon DEF Explains, HistoryInv, Lineage
<1>3. HistoryInv(g)'
  BY <1>1, <1>2, HistoryNext, Zenon DEF SafeStep
<1>4. VoterInv(g)'
  BY <1>1, <1>2, VotersNext, Zenon DEF SafeStep
<1>5. ChoiceInv(g)'
  BY <1>1, <1>2, <1>4, ChoicesNext, Zenon
<1>6. AckInv(g)' /\ BallotInv(g)'
  BY <1>1, <1>2, AcksNext, BallotsNext, Zenon
<1>7. CommitInv(g)'
  BY <1>1, <1>2, CommitsNext, Zenon
<1>8. MessageInv(g)' /\ ApplyInv(g)'
  BY <1>1, <1>2, <1>4, MessagesNext, ApplyNext, Zenon
<1> QED
  BY <1>3, <1>4, <1>5, <1>6, <1>7, <1>8, Zenon DEF Explains, SafeStep

-----------------------------------------------------------------------------
(* Steps that leave the history alone, and logs that a step leaves alone. *)

LEMMA SameHistory ==
    ASSUME NEW h, Lineage(h)
    PROVE  Grows(h, h) /\ FreshStep(h, h) /\ ElectStep(h, h) /\ AckStep(h, h)
<1>1. Grows(h, h)
  <2>1. \A T \in Nat : h.len[T] \in Nat /\ \A p \in Server : h.acked[T][p] \in Nat
    BY HistoryFacts, Zenon DEF Lineage
  <2>2. \A T \in Nat : h.len[T] =< h.len[T]
    BY <2>1
  <2>3. \A T \in Nat, p \in Server : /\ h.acked[T][p] >= h.acked[T][p]
                                     /\ ~(h.acked[T][p] > h.acked[T][p])
    BY <2>1
  <2> QED
    BY <2>2, <2>3, Zenon DEF Grows, Lineage
<1> QED
  BY <1>1, Zenon DEF FreshStep, ElectStep, AckStep

\* What KeepStep asks of one peer.
Keeps(h, s) ==
    \A T, i, c \in Nat :
        T =< currentTerm'[s] /\ Choosable(h, T, i) /\ c =< i /\ Has(h, s, T, c) =>
            Has(h, s, T, c)' /\ (c = i /\ TopTerm(s) >= T => TopTerm(s)' >= T)

LEMMA SameLogKeeps ==
    ASSUME NEW h, LogShape, NEW s \in Server, SameLog(s)
    PROVE  Keeps(h, s)
<1> SUFFICES ASSUME NEW T \in Nat, NEW i \in Nat, NEW c \in Nat, Has(h, s, T, c)
             PROVE  Has(h, s, T, c)' /\ (TopTerm(s) >= T => TopTerm(s)' >= T)
  BY Zenon DEF Keeps
<1>1. Last(s) \in Nat /\ c =< Last(s)
  BY Zenon DEF LogShape, Has
<1>2. ASSUME NEW k \in 1 .. c PROVE Entry(s, k)' = h.log[T][k]
  <2>1. k \in 0 .. Last(s)
    BY <1>1
  <2> QED
    BY <2>1, Zenon DEF SameLog, Has
<1>3. c =< Last(s)'
  BY <1>1, Zenon DEF SameLog
<1> QED
  BY <1>2, <1>3, Zenon DEF Has, SameLog

LEMMA SameLogPeer ==
    ASSUME NEW h, NEW g, Lineage(h), Grows(h, g), TypeOK, TypeOK', VoteStep, LogShape,
           NEW s \in Server, SameLog(s), logs'[s].base \in Nat, PeerLog(h, s)
    PROVE  PeerLog(g, s)'
<1> DEFINE t == TopTerm(s)
<1> SUFFICES ASSUME Last(s) > 0
             PROVE  /\ t =< currentTerm'[s] /\ Created(g, t, Last(s))
                    /\ \A k \in (logs'[s].base + 1) .. Last(s) : Entry(s, k)' = g.log[t][k]
  BY Zenon DEF PeerLog, SameLog
<1>1. /\ t =< currentTerm[s] /\ Created(h, t, Last(s))
      /\ \A k \in (logs[s].base + 1) .. Last(s) : Entry(s, k) = h.log[t][k]
  BY Zenon DEF PeerLog
<1>2. /\ t \in Nat /\ Last(s) \in Nat /\ logs[s].base \in Nat
      /\ currentTerm[s] \in Nat /\ currentTerm'[s] \in Nat
      /\ currentTerm'[s] >= currentTerm[s] /\ logs'[s].base >= logs[s].base
  BY Zenon DEF LogShape, TypeOK, VoteStep, SameLog
<1>3. t =< currentTerm'[s]
  BY <1>1, <1>2
<1>4. Created(g, t, Last(s))
  BY <1>1, <1>2, GrowsKeeps, Zenon
<1>5. ASSUME NEW k \in (logs'[s].base + 1) .. Last(s) PROVE Entry(s, k)' = g.log[t][k]
  <2>1. h.len[t] \in Nat /\ Last(s) =< h.len[t]
    BY <1>1, <1>2, HistoryFacts DEF Lineage, Created
  <2>2. /\ k \in (logs[s].base + 1) .. Last(s) /\ k \in 0 .. Last(s)
        /\ k \in 1 .. h.len[t]
    BY <1>2, <2>1
  <2>3. Entry(s, k)' = Entry(s, k) /\ g.log[t][k] = h.log[t][k]
    BY <1>2, <2>2, Zenon DEF SameLog, Grows
  <2> QED
    BY <1>1, <2>2, <2>3, Zenon
<1> QED
  BY <1>3, <1>4, <1>5, Zenon

\* A leader that stays in office with its log, while nobody adds to that log.
LEMMA SameLogLeads ==
    ASSUME NEW h, NEW g, Lineage(h), Lineage(g), Grows(h, g), TypeOK, LogShape,
           NEW s \in Server, NEW T \in Nat, SameLog(s), matchIndex'[s] = matchIndex[s],
           g.len[T] = h.len[T], Leads(h, s, T)
    PROVE  Leads(g, s, T)'
<1>1. /\ T \in h.led /\ h.leader[T] = s /\ h.acked[T][s] = h.len[T]
      /\ Last(s) = h.len[T] /\ \A k \in 1 .. h.len[T] : Entry(s, k) = h.log[T][k]
      /\ \A p \in Server \ {s} :
            matchIndex[s][p] =< h.acked[T][p] \/ Decided(h, T, matchIndex[s][p])
  BY Zenon DEF Leads
<1>2. /\ h.len[T] \in Nat /\ g.acked[T][s] \in Nat /\ g.acked[T][s] =< g.len[T]
      /\ g.acked[T][s] >= h.acked[T][s]
  BY HistoryFacts, Zenon DEF Lineage, Grows
<1>3. T \in g.led /\ g.leader[T] = s /\ g.acked[T][s] = g.len[T] /\ Last(s)' = g.len[T]
  BY <1>1, <1>2 DEF Grows, SameLog
<1>4. ASSUME NEW k \in 1 .. g.len[T] PROVE Entry(s, k)' = g.log[T][k]
  <2>1. k \in 1 .. h.len[T] /\ k \in 0 .. Last(s)
    BY <1>1, <1>2
  <2> QED
    BY <1>1, <2>1, Zenon DEF SameLog, Grows
<1>5. ASSUME NEW p \in Server \ {s}
      PROVE  matchIndex'[s][p] =< g.acked[T][p] \/ Decided(g, T, matchIndex'[s][p])
  <2>1. matchIndex[s][p] =< h.acked[T][p] \/ Decided(h, T, matchIndex[s][p])
    BY <1>1, Zenon
  <2>2. Decided(h, T, matchIndex[s][p]) => Decided(g, T, matchIndex[s][p])
    BY DecisionsLast
  <2>3. ASSUME matchIndex[s][p] =< h.acked[T][p]
        PROVE  matchIndex[s][p] =< g.acked[T][p]
    <3>1. /\ g.acked[T][p] \in Nat /\ h.acked[T][p] \in Nat
          /\ g.acked[T][p] >= h.acked[T][p]
      BY HistoryFacts DEF Lineage, Grows
    <3>2. matchIndex[s][p] \in Nat
      BY Zenon DEF TypeOK
    <3> QED
      BY <2>3, <3>1, <3>2
  <2> QED
    BY <2>1, <2>2, <2>3, Zenon
<1> QED
  BY <1>3, <1>4, <1>5, Zenon DEF Leads

\* A step in which no log changes and the history stays.
LEMMA LogsKeptSafe ==
    ASSUME NEW h, Explains(h), TypeOK, TypeOK', VoteStep, LogShape, LogShape', AllKeepLogs,
           RoleStep, BallotStep(h), CommitStep(h), SendStep(h), ApplyStep(h), LeaderInv(h)'
    PROVE  SafeStep(h, h)
<1>1. Lineage(h) /\ PeerInv(h)
  BY Zenon DEF Explains, HistoryInv
<1>2. Grows(h, h) /\ FreshStep(h, h) /\ ElectStep(h, h) /\ AckStep(h, h)
  BY <1>1, SameHistory, Zenon
<1>3. KeepStep(h)
  BY SameLogKeeps, Zenon DEF AllKeepLogs, KeepStep, Keeps
<1>4. PeerInv(h)'
  <2>1. \A s \in Server : logs'[s].base \in Nat
    BY Zenon DEF LogShape
  <2> QED
    BY <1>1, <1>2, <2>1, SameLogPeer, Zenon DEF AllKeepLogs, PeerInv
<1> QED
  BY <1>1, <1>2, <1>3, <1>4, Zenon DEF SafeStep

\* No leader takes office, and those that stay see no new confirmation.
OfficeKept ==
    \A s \in Server : state'[s] = "Leader" =>
        state[s] = "Leader" /\ currentTerm'[s] = currentTerm[s] /\ matchIndex'[s] = matchIndex[s]

LEMMA LeadersKept ==
    ASSUME NEW h, Lineage(h), LeaderInv(h), LogShape, TypeOK, AllKeepLogs, OfficeKept
    PROVE  LeaderInv(h)'
<1> SUFFICES ASSUME NEW s \in Server, state'[s] = "Leader"
             PROVE  Leads(h, s, currentTerm[s])'
  BY Zenon DEF LeaderInv
<1>1. PICK T \in Nat : T = currentTerm[s]
  BY Zenon DEF TypeOK
<1>2. Leads(h, s, T) /\ currentTerm'[s] = T /\ matchIndex'[s] = matchIndex[s]
  BY <1>1, Zenon DEF LeaderInv, OfficeKept
<1>3. Leads(h, s, T)'
  BY <1>2, SameHistory, SameLogLeads, Zenon DEF AllKeepLogs
<1> QED
  BY <1>2, <1>3, Zenon

\* No candidate appears, and none gets a vote it had no claim to.
BallotsKept ==
    \A s, p \in Server : state'[s] = "Candidate" =>
        /\ state[s] = "Candidate" /\ currentTerm'[s] = currentTerm[s]
        /\ Claim(p, s, currentTerm[s])' => Claim(p, s, currentTerm[s])

LEMMA KeptBallots ==
    ASSUME NEW h, BallotInv(h), BallotsKept
    PROVE  BallotStep(h) /\ RoleStep
BY Zenon DEF BallotInv, BallotsKept, BallotStep, RoleStep

LEMMA NoNewClaims ==
    ASSUME NoNewGrant,
           \A s \in Server : state'[s] = "Candidate" =>
               /\ state[s] = "Candidate" /\ currentTerm'[s] = currentTerm[s]
               /\ votes'[s] = votes[s]
    PROVE  BallotsKept
BY Zenon DEF BallotsKept, NoNewGrant, Claim

LEMMA DeliverSends ==
    ASSUME NEW g, NEW m, NEW out, Deliver(m, out), \A r \in out : MessageOK(g, r)'
    PROVE  SendStep(g)
BY Zenon DEF Deliver, SendStep

LEMMA CommitsKept ==
    ASSUME NEW g, TypeOK, UNCHANGED commitIndex
    PROVE  CommitStep(g)
<1>1. \A s \in Server : commitIndex[s] \in Nat
  BY Zenon DEF TypeOK
<1> QED
  BY <1>1 DEF CommitStep

LEMMA AppliesKept ==
    ASSUME NEW g, UNCHANGED applyCh
    PROVE  ApplyStep(g)
BY Zenon DEF ApplyStep

-----------------------------------------------------------------------------
(* The steps.  What is known before and after any of them: *)

StepContext(h) ==
    /\ Explains(h) /\ ElectionInv /\ DummyInv /\ LogShape
    /\ ElectionInv' /\ LogShape' /\ VoteSafeStep
    /\ MajoritiesMeet /\ MajorityReached

LEMMA ContextFacts ==
    ASSUME NEW h, StepContext(h)
    PROVE  /\ TypeOK /\ DurableInv /\ ClaimInv /\ DummyInv /\ LogShape /\ SnapshotInv
           /\ TypeOK' /\ LogShape' /\ VoteStep
           /\ Explains(h) /\ h \in History /\ Lineage(h) /\ HistoryInv(h)
           /\ VoterInv(h) /\ LeaderInv(h) /\ PeerInv(h) /\ CommitInv(h) /\ ChoiceInv(h)
           /\ AckInv(h) /\ BallotInv(h) /\ MessageInv(h) /\ ApplyInv(h)
           /\ MajoritiesMeet /\ MajorityReached
BY Zenon DEF StepContext, Explains, ElectionInv, DurableInv, HistoryInv, Lineage, VoteSafeStep

LEMMA QuietSafe ==
    ASSUME NEW h, StepContext(h), AllKeepLogs, OfficeKept, BallotsKept, CommitStep(h),
           SendStep(h), ApplyStep(h)
    PROVE  SafeStep(h, h)
<1>1. BallotStep(h) /\ RoleStep
  BY ContextFacts, KeptBallots, Zenon
<1>2. LeaderInv(h)'
  BY ContextFacts, LeadersKept, Zenon
<1> QED
  BY <1>1, <1>2, ContextFacts, LogsKeptSafe, Zenon

\* A step in which s becomes or stays a follower, or nobody's role changes.
Retires(s) ==
    /\ state' = [state EXCEPT ![s] = "Follower"]
    /\ \A p \in Server \ {s} : /\ currentTerm'[p] = currentTerm[p] /\ votes'[p] = votes[p]
                               /\ matchIndex'[p] = matchIndex[p]

RolesKept == UNCHANGED <<currentTerm, state, votes, matchIndex>>

LEMMA RetireQuietly ==
    ASSUME TypeOK, NoNewGrant, NEW s \in Server, Retires(s) \/ RolesKept
    PROVE  OfficeKept /\ BallotsKept
<1>1. \A p \in Server : state'[p] # "Follower" =>
          /\ state'[p] = state[p] /\ currentTerm'[p] = currentTerm[p]
          /\ votes'[p] = votes[p] /\ matchIndex'[p] = matchIndex[p]
  BY Zenon DEF Retires, RolesKept, TypeOK
<1>2. OfficeKept
  BY <1>1, Zenon DEF OfficeKept
<1>3. BallotsKept
  BY <1>1, NoNewClaims, Zenon
<1> QED
  BY <1>2, <1>3, Zenon

LEMMA FollowerRetires ==
    ASSUME TypeOK, NEW s \in Server, NEW t, AdoptTerm(s, t), BecomeFollower(s),
           UNCHANGED matchIndex
    PROVE  Retires(s)
BY Zenon DEF TypeOK, Retires, AdoptTerm, BecomeFollower, Set

LEMMA StepDownQuiet ==
    ASSUME NEW h, StepContext(h), NEW s \in Server, NEW t \in Nat, StepDown(s, t), NEW m,
           Deliver(m, {}), UNCHANGED <<matchIndex, commitIndex, applyCh>>
    PROVE  SafeStep(h, h)
<1>1. Retires(s)
  BY ContextFacts, FollowerRetires, Zenon DEF StepDown
<1>2. NoNewGrant
  BY DeliverGrantsNothing
<1>3. AllKeepLogs
  <2>1. UNCHANGED logs /\ Persist(s)
    BY Zenon DEF StepDown
  <2>2. \A p \in Server : disk'[p].snapshot = disk[p].snapshot
    BY <2>1, ContextFacts, PersistKeepsSnapshot, Zenon
  <2> QED
    BY <2>1, <2>2, ContextFacts, UnchangedLogs, Zenon
<1>4. OfficeKept /\ BallotsKept
  BY <1>1, <1>2, ContextFacts, RetireQuietly, Zenon
<1>5. SendStep(h) /\ CommitStep(h) /\ ApplyStep(h)
  BY ContextFacts, DeliverSends, CommitsKept, AppliesKept
<1> QED
  BY <1>3, <1>4, <1>5, QuietSafe, Zenon

\* A call or reply that changes nothing but the network.
LEMMA NothingButNet ==
    ASSUME NEW h, StepContext(h), RolesKept, UNCHANGED <<logs, disk, commitIndex, applyCh>>,
           NoNewGrant, SendStep(h)
    PROVE  SafeStep(h, h)
<1>1. PICK s : s \in Server
  BY ServerAssumption, Zenon
<1>2. OfficeKept /\ BallotsKept
  BY <1>1, ContextFacts, RetireQuietly, Zenon
<1>3. AllKeepLogs
  BY ContextFacts, UnchangedLogs, Zenon
<1>4. CommitStep(h) /\ ApplyStep(h)
  BY ContextFacts, CommitsKept, AppliesKept, Zenon
<1> QED
  BY <1>2, <1>3, <1>4, QuietSafe, Zenon

LEMMA LoseSafe ==
    ASSUME NEW h, StepContext(h), NEW m \in net, Lose(m)
    PROVE  SafeStep(h, h)
<1>1. /\ RolesKept /\ UNCHANGED <<logs, disk, commitIndex, applyCh>>
      /\ NoNewGrant /\ SendStep(h)
  BY Zenon DEF Lose, persistent, RolesKept, NoNewGrant, SendStep
<1> QED
  BY <1>1, NothingButNet, Zenon

LEMMA StutterSafe ==
    ASSUME NEW h, StepContext(h), UNCHANGED vars
    PROVE  SafeStep(h, h)
<1>1. /\ RolesKept /\ UNCHANGED <<logs, disk, commitIndex, applyCh>>
      /\ NoNewGrant /\ SendStep(h)
  BY Zenon DEF vars, RolesKept, NoNewGrant, SendStep
<1> QED
  BY <1>1, NothingButNet, Zenon

LEMMA SnapshotSafe ==
    ASSUME NEW h, StepContext(h), NEW s \in Server, NEW index \in Nat, Snapshot(s, index)
    PROVE  SafeStep(h, h)
<1>1. AllKeepLogs
  BY ContextFacts, SnapshotLog, Zenon
<1>2. /\ RolesKept /\ NoNewGrant /\ SendStep(h)
      /\ UNCHANGED <<commitIndex, applyCh>>
  BY Zenon DEF Snapshot, RolesKept, NoNewGrant, SendStep
<1>3. OfficeKept /\ BallotsKept
  BY <1>2, ContextFacts, RetireQuietly, Zenon
<1>4. CommitStep(h) /\ ApplyStep(h)
  BY <1>2, ContextFacts, CommitsKept, AppliesKept, Zenon
<1> QED
  BY <1>1, <1>2, <1>3, <1>4, QuietSafe, Zenon

\* A restarted peer is a follower, and all that its service may have applied is
\* in its snapshot again.
LEMMA CrashSafe ==
    ASSUME NEW h, StepContext(h), NEW s \in Server,
           \/ Restart(s)
           \/ RestartInElection(s)
           \/ \E m \in net : RestartInRPC(s, m)
    PROVE  SafeStep(h, h)
<1>1. UNCHANGED logs /\ AllKeepLogs
  BY ContextFacts, CrashLogs, Zenon
<1>2. PICK saved, lost : Make(s, saved, lost)
  BY Zenon DEF Restart, RestartInElection, RestartInRPC
<1>3. Retires(s) /\ NoNewGrant /\ SendStep(h)
  <2>1. /\ currentTerm' = [currentTerm EXCEPT ![s] = saved.currentTerm]
        /\ state' = [state EXCEPT ![s] = "Follower"] /\ votes' = [votes EXCEPT ![s] = {}]
        /\ matchIndex' = [matchIndex EXCEPT ![s] = [p \in Server |-> 0]]
        /\ \A m \in net' : m \in net
    BY <1>2, Zenon DEF Make, BecomeFollower, Set
  <2>2. Retires(s)
    BY <2>1, ContextFacts, ZenonT(30) DEF Retires, TypeOK
  <2> QED
    BY <2>1, <2>2, Zenon DEF NoNewGrant, SendStep
<1>4. OfficeKept /\ BallotsKept
  BY <1>3, ContextFacts, RetireQuietly, Zenon
<1>5. CommitStep(h)
  <2>1. logs'[s] = saved.log /\ commitIndex' = [commitIndex EXCEPT ![s] = saved.log.base]
    BY <1>2, ContextFacts, Zenon DEF Make, Set, TypeOK
  <2>2. ASSUME NEW p \in Server PROVE commitIndex'[p] =< commitIndex[p]
    <3>1. commitIndex[p] \in Nat /\ logs[p].base =< commitIndex[p]
      BY ContextFacts, Zenon DEF LogShape
    <3>2. commitIndex \in [Server -> Nat] /\ logs'[s] = logs[s]
      BY <1>1, ContextFacts, Zenon DEF TypeOK
    <3> QED
      BY <2>1, <3>1, <3>2
  <2> QED
    BY <2>2, Zenon DEF CommitStep
<1>6. ApplyStep(h)
  <2>1. applyCh' = Set(applyCh, s, {}) /\ applyCh \in [Server -> SUBSET Snap]
    BY <1>2, ContextFacts, Zenon DEF Make, TypeOK
  <2>2. \A p \in Server : \A snap \in applyCh'[p] : snap \in applyCh[p]
    BY <2>1 DEF Set
  <2> QED
    BY <2>2, Zenon DEF ApplyStep
<1> QED
  BY <1>1, <1>3, <1>4, <1>5, <1>6, QuietSafe, Zenon

\* What a leader sends is a piece of the log of its term.
LEMMA AppendArgsOK ==
    ASSUME NEW h, StepContext(h), NEW s \in Server, NEW p \in Server, state[s] = "Leader",
           nextIndex[s][p] - 1 \in logs[s].base .. LastIndex(logs[s])
    PROVE  /\ AppendArgs(s, p).type = "AppendEntries"
           /\ AppendEntriesOK(h, AppendArgs(s, p))
<1> DEFINE i == nextIndex[s][p] - 1
           m == AppendArgs(s, p)
           T == currentTerm[s]
<1>1. /\ logs[s] \in Log /\ T \in Nat /\ logs[s].base \in Nat /\ Last(s) \in Nat
      /\ i \in logs[s].base .. Last(s) /\ i \in Nat
      /\ commitIndex[s] \in Nat /\ commitIndex[s] =< Last(s)
  <2>1. /\ T \in Nat /\ logs[s].base \in Nat /\ Last(s) \in Nat
        /\ commitIndex[s] \in Nat /\ commitIndex[s] =< Last(s)
    BY ContextFacts, Zenon DEF LogShape, CommitInv
  <2>2. logs[s] \in Log
    BY ContextFacts, Zenon DEF TypeOK
  <2>3. i \in logs[s].base .. Last(s)
    BY Zenon DEF Last
  <2> QED
    BY <2>1, <2>2, <2>3
<1>2. /\ T \in h.led /\ Last(s) = h.len[T]
      /\ \A k \in 1 .. h.len[T] : Entry(s, k) = h.log[T][k]
  <2>1. LeaderInv(h)
    BY ContextFacts, Zenon
  <2> QED
    BY <2>1 DEF LeaderInv, Leads
<1>3. /\ m.type = "AppendEntries" /\ m.term = T /\ m.prevLogIndex = i
      /\ m.prevLogTerm = TermAt(logs[s], i) /\ m.entries = After(logs[s], i)
      /\ m.leaderCommit = commitIndex[s]
  BY Zenon DEF AppendArgs
<1>4. \A k \in logs[s].base .. Last(s) : TermAt(logs[s], k) = Entry(s, k)
  BY ContextFacts, Zenon DEF LogShape
<1>5. /\ Len(m.entries) = Last(s) - i
      /\ \A k \in 1 .. (Last(s) - i) : m.entries[k] = TermAt(logs[s], i + k)
  BY <1>1, <1>3, AfterFacts, Zenon DEF Last
<1> HIDE DEF m, i, T
<1>6. i + Len(m.entries) = h.len[T]
  BY <1>1, <1>2, <1>5
<1>7. m.prevLogTerm = IF i = 0 THEN 0 ELSE h.log[T][i]
  <2>1. m.prevLogTerm = Entry(s, i)
    BY <1>1, <1>3, <1>4, Zenon
  <2>2. CASE i = 0
    BY <2>1, <2>2, ContextFacts, Zenon DEF LogShape
  <2>3. CASE i # 0
    <3>1. i \in 1 .. h.len[T]
      BY <1>1, <1>2, <2>3
    <3> QED
      BY <1>2, <2>1, <2>3, <3>1, Zenon
  <2> QED
    BY <2>2, <2>3, Zenon
<1>8. ASSUME NEW k \in 1 .. Len(m.entries) PROVE m.entries[k] = h.log[T][i + k]
  <2>1. k \in 1 .. (Last(s) - i)
    BY <1>5, Zenon
  <2>2. i + k \in logs[s].base .. Last(s) /\ i + k \in 1 .. h.len[T]
    BY <1>1, <1>2, <2>1
  <2> QED
    BY <1>2, <1>4, <1>5, <2>1, <2>2, Zenon
<1>9. commitIndex[s] =< i + Len(m.entries)
  BY <1>1, <1>2, <1>6, Zenon
<1>10. Decided(h, T, commitIndex[s])
  BY ContextFacts, Zenon DEF CommitInv, PeerDecided, Decided, T
<1>11. i + Len(m.entries) =< h.len[T]
  BY <1>1, <1>2, <1>6
<1>12. AppendEntriesOK(h, m)
  BY <1>2, <1>3, <1>7, <1>8, <1>9, <1>10, <1>11, Zenon DEF AppendEntriesOK
<1> QED
  BY <1>3, <1>12, Zenon DEF m

LEMMA SnapshotArgsOK ==
    ASSUME NEW h, StepContext(h), NEW s \in Server, NEW p \in Server, state[s] = "Leader"
    PROVE  LET m == SnapshotArgs(s, p)
           IN /\ m.type = "InstallSnapshot" /\ m.term \in h.led
              /\ SnapDecided(h, m.snap, m.term)
<1> DEFINE m == SnapshotArgs(s, p)
           b == logs[s].base
<1>1. /\ m.type = "InstallSnapshot" /\ m.term = currentTerm[s]
      /\ m.snap.index = b /\ m.snap.data = disk[s].snapshot
  BY Zenon DEF SnapshotArgs
<1>2. m.term \in h.led
  BY <1>1, ContextFacts, Zenon DEF LeaderInv, Leads
<1>3. ASSUME b > 0
      PROVE  \E T, i \in Nat : /\ T =< currentTerm[s] /\ b =< i /\ Chosen(h, T, i)
                               /\ \A k \in 1 .. b : disk[s].snapshot[k] = h.log[T][k]
  <2>1. PICK T, i \in Nat : /\ T =< currentTerm[s] /\ Chosen(h, T, i) /\ b =< i
                            /\ \A k \in 1 .. b : Entry(s, k) = h.log[T][k]
    BY <1>3, ContextFacts, CommittedPrefix, Zenon
  <2>2. \A k \in 1 .. b : disk[s].snapshot[k] = Entry(s, k)
    BY ContextFacts, Zenon DEF LogShape
  <2> QED
    BY <2>1, <2>2, ZenonT(30)
<1> HIDE DEF m
<1>4. SnapDecided(h, m.snap, m.term)
  BY <1>1, <1>3 DEF SnapDecided
<1> QED
  BY <1>1, <1>2, <1>4, Zenon DEF m

LEMMA ReplicateOnceRoundSafe ==
    ASSUME NEW h, StepContext(h), NEW s \in Server, NEW p \in Server, ReplicateOnceRound(s, p)
    PROVE  SafeStep(h, h)
<1>1. /\ RolesKept /\ UNCHANGED <<logs, disk, commitIndex, applyCh>> /\ state[s] = "Leader"
  BY Zenon DEF ReplicateOnceRound, persistent, RolesKept
<1>2. \/ net' = net \cup {SnapshotArgs(s, p)}
      \/ /\ nextIndex[s][p] - 1 \in logs[s].base .. LastIndex(logs[s])
         /\ net' = net \cup {AppendArgs(s, p)}
  BY Zenon DEF ReplicateOnceRound
<1>3. ASSUME NEW m \in net', m \notin net PROVE ~Granted(m) /\ MessageOK(h, m)'
  <2>1. CASE m = SnapshotArgs(s, p)
    <3>1. m.type = "InstallSnapshot" /\ m.term \in h.led /\ SnapDecided(h, m.snap, m.term)
      BY <1>1, <2>1, SnapshotArgsOK, Zenon
    <3> QED
      BY <3>1, Zenon DEF MessageOK, Granted
  <2>2. CASE /\ nextIndex[s][p] - 1 \in logs[s].base .. LastIndex(logs[s])
             /\ m = AppendArgs(s, p)
    <3>1. m.type = "AppendEntries" /\ AppendEntriesOK(h, m)
      BY <1>1, <2>2, AppendArgsOK, Zenon
    <3> QED
      BY <3>1, Zenon DEF MessageOK, Granted
  <2> QED
    BY <1>2, <1>3, <2>1, <2>2, Zenon
<1>4. NoNewGrant /\ SendStep(h)
  BY <1>3, Zenon DEF NoNewGrant, SendStep
<1> QED
  BY <1>1, <1>4, NothingButNet, Zenon

LEMMA InstallSnapshotSafe ==
    ASSUME NEW h, StepContext(h), NEW s \in Server, NEW m \in net, InstallSnapshot(s, m)
    PROVE  SafeStep(h, h)
<1> DEFINE r == [type |-> "InstallSnapshotReply", from |-> s, to |-> m.from, term |-> m.term,
                 lastIncludedIndex |-> m.snap.index, replyTerm |-> currentTerm[s]]
<1>1. /\ m.type = "InstallSnapshot" /\ Deliver(m, {r})
      /\ UNCHANGED <<commitIndex, matchIndex>>
  BY Zenon DEF InstallSnapshot
<1>2. SnapDecided(h, m.snap, m.term)
  BY <1>1, ContextFacts, Zenon DEF MessageInv, MessageOK
<1>3. Decided(h, m.term, m.snap.index)
  BY <1>2, Zenon DEF SnapDecided, Decided
<1>4. ASSUME NEW x \in {r} PROVE ~Granted(x) /\ MessageOK(h, x)'
  <2>1. /\ x.type = "InstallSnapshotReply" /\ x.term = m.term
        /\ x.lastIncludedIndex = m.snap.index
    OBVIOUS
  <2> QED
    BY <1>3, <2>1, Zenon DEF Granted, MessageOK
<1>5. NoNewGrant /\ SendStep(h)
  BY <1>1, <1>4, DeliverGrantsNothing, DeliverSends, Zenon
<1>6. CASE m.term < currentTerm[s]
  <2>1. m.term \in Nat /\ currentTerm[s] \in Nat
    BY <1>1, ContextFacts, MessageKind, ZenonT(30) DEF TypeOK, InstallSnapshotArgs
  <2>2. UNCHANGED <<persistent, state, votes, disk, applyCh>>
    BY <1>6, <2>1 DEF InstallSnapshot
  <2> QED
    BY <1>1, <1>5, <2>2, NothingButNet, Zenon DEF RolesKept, persistent
<1>7. CASE ~(m.term < currentTerm[s])
  <2>1. /\ AdoptTerm(s, m.term) /\ BecomeFollower(s) /\ UNCHANGED logs
        /\ PersistIf(m.term > currentTerm[s], s)
        /\ applyCh' = Set(applyCh, s, IF m.snap.index > commitIndex[s]
                                      THEN applyCh[s] \cup {m.snap} ELSE applyCh[s])
    BY <1>7, Zenon DEF InstallSnapshot
  <2>2. OfficeKept /\ BallotsKept
    BY <1>1, <1>5, <2>1, ContextFacts, FollowerRetires, RetireQuietly, Zenon
  <2>3. AllKeepLogs
    <3>1. \A p \in Server : disk'[p].snapshot = disk[p].snapshot
      BY <2>1, ContextFacts, PersistKeepsSnapshot, Zenon DEF PersistIf
    <3> QED
      BY <2>1, <3>1, ContextFacts, UnchangedLogs, Zenon
  <2>4. ApplyStep(h)
    <3>1. currentTerm'[s] = m.term
      BY <2>1, ContextFacts, Zenon DEF AdoptTerm, Set, TypeOK
    <3>2. \A p \in Server : \A snap \in applyCh'[p] :
              snap \in applyCh[p] \/ (p = s /\ snap = m.snap)
      BY <2>1, ContextFacts, Zenon DEF Set, TypeOK
    <3> QED
      BY <1>2, <3>1, <3>2, Zenon DEF ApplyStep
  <2>5. CommitStep(h)
    BY <1>1, ContextFacts, CommitsKept, Zenon
  <2> QED
    BY <1>5, <2>2, <2>3, <2>4, <2>5, QuietSafe, Zenon
<1> QED
  BY <1>6, <1>7, Zenon

\* A leader that raises matchIndex for peer q to what q confirmed or is decided.
LEMMA LeadsMatched ==
    ASSUME NEW h, StepContext(h), NEW s \in Server, NEW q \in Server, NEW n \in Nat,
           AllKeepLogs, UNCHANGED <<currentTerm, state>>, state[s] = "Leader",
           matchIndex' = [matchIndex EXCEPT ![s][q] = n],
           n =< h.acked[currentTerm[s]][q] \/ Decided(h, currentTerm[s], n)
    PROVE  LeaderInv(h)'
<1> SUFFICES ASSUME NEW p \in Server, state[p] = "Leader"
             PROVE  Leads(h, p, currentTerm[p])'
  BY Zenon DEF LeaderInv
<1>1. PICK T \in Nat : T = currentTerm[p]
  BY ContextFacts, Zenon DEF TypeOK
<1>2. Leads(h, p, T)
  BY <1>1, ContextFacts, ZenonT(30) DEF LeaderInv
<1>3. /\ \A x \in Server : matchIndex'[p][x] = IF p = s /\ x = q THEN n ELSE matchIndex[p][x]
      /\ Last(p)' = Last(p) /\ \A k \in 0 .. Last(p) : Entry(p, k)' = Entry(p, k)
  BY ContextFacts DEF TypeOK, AllKeepLogs, SameLog
<1>4. ASSUME NEW x \in Server \ {p}
      PROVE  matchIndex'[p][x] =< h.acked[T][x] \/ Decided(h, T, matchIndex'[p][x])
  BY <1>1, <1>2, <1>3, Zenon DEF Leads
<1>5. /\ T \in h.led /\ h.leader[T] = p /\ h.acked[T][p] = h.len[T]
      /\ Last(p) = h.len[T] /\ \A k \in 1 .. h.len[T] : Entry(p, k) = h.log[T][k]
  BY <1>2, Zenon DEF Leads
<1>6. Last(p)' = h.len[T] /\ \A k \in 1 .. h.len[T] : Entry(p, k)' = h.log[T][k]
  <2>1. h.len[T] \in Nat
    BY ContextFacts, HistoryFacts, Zenon
  <2>2. \A k \in 1 .. h.len[T] : k \in 0 .. Last(p)
    BY <1>5, <2>1
  <2> QED
    BY <1>3, <1>5, <2>2, Zenon
<1>7. Leads(h, p, T)'
  BY <1>4, <1>5, <1>6, Zenon DEF Leads
<1> QED
  BY <1>1, <1>7, Zenon

LEMMA HandleInstallSnapshotReplySafe ==
    ASSUME NEW h, StepContext(h), NEW s \in Server, NEW m \in net,
           HandleInstallSnapshotReply(s, m)
    PROVE  SafeStep(h, h)
<1>1. /\ m.type = "InstallSnapshotReply" /\ Deliver(m, {})
      /\ UNCHANGED <<commitIndex, applyCh>>
  BY Zenon DEF HandleInstallSnapshotReply
<1>2. /\ m.from \in Server /\ m.lastIncludedIndex \in Nat /\ m.replyTerm \in Nat
      /\ Decided(h, m.term, m.lastIncludedIndex)
  <2>1. m \in InstallSnapshotReply
    BY <1>1, ContextFacts, MessageKind, Zenon DEF TypeOK
  <2>2. Decided(h, m.term, m.lastIncludedIndex)
    BY <1>1, ContextFacts, Zenon DEF MessageInv, MessageOK
  <2> QED
    BY <2>1, <2>2, Zenon DEF InstallSnapshotReply
<1>3. NoNewGrant /\ SendStep(h) /\ CommitStep(h) /\ ApplyStep(h)
  BY <1>1, ContextFacts, DeliverGrantsNothing, DeliverSends, CommitsKept, AppliesKept
<1>4. CASE UNCHANGED <<persistent, state, votes, disk, nextIndex, matchIndex>>
  BY <1>1, <1>3, <1>4, NothingButNet, Zenon DEF RolesKept, persistent
<1>5. CASE StepDown(s, m.replyTerm) /\ UNCHANGED <<nextIndex, matchIndex>>
  BY <1>1, <1>2, <1>5, StepDownQuiet, Zenon
<1>6. CASE /\ m.term = currentTerm[s] /\ state[s] = "Leader"
           /\ matchIndex' = [matchIndex EXCEPT ![s][m.from] = m.lastIncludedIndex]
           /\ UNCHANGED <<persistent, state, votes, disk>>
  <2>1. UNCHANGED <<currentTerm, logs, state, votes, disk>>
    BY <1>6, Zenon DEF persistent
  <2>2. AllKeepLogs
    BY <2>1, ContextFacts, UnchangedLogs, Zenon
  <2>3. LeaderInv(h)'
    BY <1>2, <1>6, <2>1, <2>2, LeadsMatched, Zenon
  <2>4. BallotStep(h) /\ RoleStep
    BY <1>3, <2>1, ContextFacts, NoNewClaims, KeptBallots, Zenon
  <2> QED
    BY <1>3, <2>2, <2>3, <2>4, ContextFacts, LogsKeptSafe, Zenon
<1> QED
  BY <1>4, <1>5, <1>6, Zenon DEF HandleInstallSnapshotReply

-----------------------------------------------------------------------------
(* Elections. *)

\* A candidate starts with its own vote only: a grant for its new term cannot be
\* on its way yet.
LEMMA TimeoutBallots ==
    ASSUME NEW h, StepContext(h), NEW s \in Server, ElectionTimeout(s)
    PROVE  BallotStep(h)
<1>1. /\ currentTerm' = [currentTerm EXCEPT ![s] = currentTerm[s] + 1]
      /\ state' = [state EXCEPT ![s] = "Candidate"] /\ votes' = [votes EXCEPT ![s] = {s}]
  BY Zenon DEF ElectionTimeout, Set
<1>2. NoNewGrant
  <2>1. \A m \in net' : m \in net \/ m.type = "RequestVote"
    BY TimeoutSends, Zenon
  <2> QED
    BY <2>1, Zenon DEF NoNewGrant, Granted
<1> SUFFICES ASSUME NEW c \in Server, NEW p \in Server, NEW T \in Nat, NEW i \in Nat,
                    state'[c] = "Candidate", T < currentTerm'[c],
                    Claim(p, c, currentTerm[c])', Choosable(h, T, i), h.acked[T][p] >= i
             PROVE  Holds(h, c, T, i)
  BY Zenon DEF BallotStep
<1>3. CASE c = s
  <2>1. currentTerm[s] \in Nat /\ currentTerm'[s] = currentTerm[s] + 1 /\ votes'[s] = {s}
    BY <1>1, ContextFacts, Zenon DEF TypeOK
  <2>2. ASSUME NEW m \in net', Granted(m), m.to = s, m.term = currentTerm'[s] PROVE FALSE
    <3>1. m \in net /\ m.type = "RequestVoteReply"
      BY <1>2, <2>2, Zenon DEF NoNewGrant, Granted
    <3>2. m.term =< currentTerm[s]
      BY <2>2, <3>1, ContextFacts, Zenon DEF MessageInv, MessageOK
    <3> QED
      BY <2>1, <2>2, <3>2
  <2>3. p = s
    BY <1>3, <2>1, <2>2, Zenon DEF Claim
  <2> QED
    BY <1>3, <2>3, ContextFacts, Zenon DEF AckInv
<1>4. CASE c # s
  <2>1. /\ currentTerm'[c] = currentTerm[c] /\ state[c] = "Candidate"
        /\ votes'[c] = votes[c]
    BY <1>1, <1>4, ContextFacts, Zenon DEF TypeOK
  <2>2. Claim(p, c, currentTerm[c])
    BY <1>2, <2>1, Zenon DEF Claim, NoNewGrant
  <2> QED
    BY <2>1, <2>2, ContextFacts, Zenon DEF BallotInv
<1> QED
  BY <1>3, <1>4, Zenon

\* It asks for votes with its last entry, so it has whatever an earlier term may
\* have chosen up to that entry.
LEMMA TimeoutRequests ==
    ASSUME NEW h, StepContext(h), NEW s \in Server, ElectionTimeout(s), AllKeepLogs
    PROVE  SendStep(h)
<1>1. currentTerm'[s] = currentTerm[s] + 1 /\ currentTerm[s] \in Nat
  BY ContextFacts, Zenon DEF ElectionTimeout, Set, TypeOK
<1>2. Grows(h, h) /\ KeepStep(h)
  BY ContextFacts, SameHistory, SameLogKeeps, Zenon DEF AllKeepLogs, KeepStep, Keeps
<1> SUFFICES ASSUME NEW m \in net', m \notin net PROVE MessageOK(h, m)'
  BY Zenon DEF SendStep
<1>3. /\ m.type = "RequestVote" /\ m.from = s /\ m.term = currentTerm[s] + 1
      /\ m.lastLogIndex = Last(s) /\ m.lastLogTerm = LastTerm(logs[s])
  BY TimeoutSends, Zenon DEF Last
<1>4. /\ m.lastLogTerm = TopTerm(s) /\ Last(s) \in Nat /\ TopTerm(s) \in Nat
      /\ Entry(s, 0) = 0
  BY <1>3, ContextFacts, Zenon DEF LogShape
<1>5. m.term =< currentTerm'[s] /\ m.term \in Nat
  BY <1>1, <1>3
<1>6. m.lastLogTerm > 0 \/ m.lastLogIndex > 0 => Created(h, m.lastLogTerm, m.lastLogIndex)
  <2>1. CASE Last(s) = 0
    BY <1>3, <1>4, <2>1 DEF TopTerm
  <2>2. CASE Last(s) > 0
    BY <1>3, <1>4, <2>2, ContextFacts, Zenon DEF PeerInv, PeerLog
  <2> QED
    BY <1>4, <2>1, <2>2
<1>7. ASSUME NEW T \in Nat, NEW i \in Nat, T < m.term, Choosable(h, T, i)',
             m.lastLogTerm > T \/ (m.lastLogTerm = T /\ i =< m.lastLogIndex)
      PROVE  Holds(h, s, T, i)'
  <2>1. Choosable(h, T, i)
    <3>1. Created(h, T, i)
      BY <1>7, Zenon DEF Choosable
    <3> QED
      BY <1>2, <1>7, <3>1, ContextFacts, ChoosableBefore, Zenon
  <2>2. Holds(h, s, T, i)
    BY <1>3, <1>4, <1>7, <2>1, ContextFacts, UpToDateHolds, Zenon
  <2>3. T =< currentTerm'[s]
    BY <1>1, <1>3, <1>7
  <2> QED
    BY <1>2, <2>1, <2>2, <2>3, ContextFacts, HoldsKept, Zenon
<1>8. RequestVoteOK(h, m)'
  BY <1>3, <1>5, <1>6, <1>7, Zenon DEF RequestVoteOK
<1> QED
  BY <1>3, <1>8, Zenon DEF MessageOK

LEMMA ElectionTimeoutSafe ==
    ASSUME NEW h, StepContext(h), NEW s \in Server, ElectionTimeout(s)
    PROVE  SafeStep(h, h)
<1>1. AllKeepLogs
  <2>1. UNCHANGED logs /\ Persist(s)
    BY Zenon DEF ElectionTimeout
  <2>2. \A p \in Server : disk'[p].snapshot = disk[p].snapshot
    BY <2>1, ContextFacts, PersistKeepsSnapshot, Zenon
  <2> QED
    BY <2>1, <2>2, ContextFacts, UnchangedLogs, Zenon
<1>2. BallotStep(h) /\ SendStep(h)
  BY <1>1, TimeoutBallots, TimeoutRequests, Zenon
<1>3. /\ currentTerm' = [currentTerm EXCEPT ![s] = currentTerm[s] + 1]
      /\ state' = [state EXCEPT ![s] = "Candidate"]
      /\ UNCHANGED <<commitIndex, matchIndex, applyCh>>
      /\ currentTerm \in [Server -> Nat] /\ DOMAIN state = Server
  BY ContextFacts, Zenon DEF ElectionTimeout, Set, TypeOK
<1>4. currentTerm'[s] # currentTerm[s]
  BY <1>3
<1>5. RoleStep /\ OfficeKept
  BY <1>3, <1>4, Zenon DEF RoleStep, OfficeKept
<1>6. LeaderInv(h)'
  BY <1>1, <1>5, ContextFacts, LeadersKept, Zenon
<1>7. CommitStep(h) /\ ApplyStep(h)
  BY <1>3, ContextFacts, CommitsKept, AppliesKept, Zenon
<1> QED
  BY <1>1, <1>2, <1>5, <1>6, <1>7, ContextFacts, LogsKeptSafe, Zenon

\* The voter compares logs: whatever it confirmed, the candidate it votes for has.
LEMMA GrantHolds ==
    ASSUME NEW h, StepContext(h), NEW s \in Server, NEW m \in RequestVoteArgs, m \in net,
           m.term = currentTerm[m.from], state[m.from] = "Candidate",
           IsLogUpToDate(logs[s], m.lastLogIndex, m.lastLogTerm),
           NEW T \in Nat, NEW i \in Nat, T < m.term, Choosable(h, T, i), h.acked[T][s] >= i
    PROVE  Holds(h, m.from, T, i)
<1>1. m.lastLogIndex \in Nat /\ m.lastLogTerm \in Nat /\ m.type = "RequestVote"
  BY Zenon DEF RequestVoteArgs
<1>2. RequestVoteOK(h, m)
  BY <1>1, ContextFacts, Zenon DEF MessageInv, MessageOK
<1>3. i =< Last(s) /\ TopTerm(s) >= T
  BY ContextFacts, Zenon DEF AckInv, Holds, Has
<1>4. /\ \/ m.lastLogTerm > TopTerm(s)
         \/ m.lastLogTerm = TopTerm(s) /\ m.lastLogIndex >= Last(s)
      /\ Last(s) \in Nat /\ TopTerm(s) \in Nat
  BY ContextFacts, Zenon DEF IsLogUpToDate, LogShape, Last
<1>5. m.lastLogTerm > T \/ (m.lastLogTerm = T /\ i =< m.lastLogIndex)
  BY <1>1, <1>3, <1>4
<1> QED
  BY <1>2, <1>5, Zenon DEF RequestVoteOK

LEMMA VoteBallots ==
    ASSUME NEW h, StepContext(h), NEW s \in Server, NEW m \in net, m \in RequestVoteArgs,
           ~DeniesVote(s, m), RequestVote(s, m)
    PROVE  BallotStep(h) /\ RoleStep /\ OfficeKept
<1> DEFINE higher == m.term > currentTerm[s]
           grant == IsLogUpToDate(logs[s], m.lastLogIndex, m.lastLogTerm)
           r == VoteReply(m, m.term, grant)
<1>1. /\ m.term \in Nat /\ currentTerm[s] \in Nat /\ m.to = s /\ m.from \in Server
      /\ DOMAIN state = Server /\ DOMAIN currentTerm = Server /\ DOMAIN votes = Server
  BY ContextFacts, Zenon DEF RequestVoteArgs, TypeOK, RequestVote
<1>2. /\ currentTerm' = Set(currentTerm, s, m.term)
      /\ IF higher THEN BecomeFollower(s) ELSE UNCHANGED <<state, votes>>
      /\ Deliver(m, {r}) /\ UNCHANGED matchIndex
  BY Zenon DEF RequestVote
<1>3. ~higher => m.term = currentTerm[s]
  BY <1>1 DEF DeniesVote
<1>4. \A p \in Server : state'[p] # "Follower" =>
          state'[p] = state[p] /\ currentTerm'[p] = currentTerm[p] /\ votes'[p] = votes[p]
  BY <1>1, <1>2, <1>3, Zenon DEF BecomeFollower, Set
<1>5. RoleStep /\ OfficeKept
  BY <1>2, <1>4, Zenon DEF RoleStep, OfficeKept
<1>6. ASSUME NEW c \in Server, NEW p \in Server, NEW T \in Nat, NEW i \in Nat,
             state'[c] = "Candidate", T < currentTerm'[c],
             Claim(p, c, currentTerm[c])', Choosable(h, T, i), h.acked[T][p] >= i
      PROVE  Holds(h, c, T, i)
  <2>1. state[c] = "Candidate" /\ currentTerm'[c] = currentTerm[c] /\ votes'[c] = votes[c]
    BY <1>4, <1>6, Zenon
  <2>2. CASE Claim(p, c, currentTerm[c])
    BY <1>6, <2>1, <2>2, ContextFacts, Zenon DEF BallotInv
  <2>3. CASE ~Claim(p, c, currentTerm[c])
    <3>1. PICK x \in net' : Granted(x) /\ x.from = p /\ x.to = c /\ x.term = currentTerm[c]
      BY <1>6, <2>1, <2>3, Zenon DEF Claim
    <3>2. x = r
      BY <1>2, <2>3, <3>1 DEF Deliver, Claim
    <3>3. /\ r.voteGranted = grant /\ r.from = s /\ r.to = m.from /\ r.term = m.term
      BY <1>1, Zenon DEF VoteReply
    <3>4. grant /\ p = s /\ c = m.from /\ currentTerm[c] = m.term
      BY <3>1, <3>2, <3>3, Zenon DEF Granted
    <3> QED
      BY <1>6, <2>1, <3>4, GrantHolds, Zenon
  <2> QED
    BY <2>2, <2>3, Zenon
<1> QED
  BY <1>5, <1>6, Zenon DEF BallotStep

LEMMA RequestVoteSafe ==
    ASSUME NEW h, StepContext(h), NEW s \in Server, NEW m \in net, RequestVote(s, m)
    PROVE  SafeStep(h, h)
<1>1. m.type = "RequestVote" /\ m \in RequestVoteArgs /\ m.to = s
      /\ UNCHANGED <<commitIndex, matchIndex, applyCh>>
  BY ContextFacts, MessageKind, Zenon DEF RequestVote, TypeOK
<1>2. m.term \in Nat /\ m.from \in Server /\ m.term =< currentTerm[m.from]
  BY <1>1, ContextFacts, Zenon DEF RequestVoteArgs, MessageInv, MessageOK, RequestVoteOK
<1>3. ASSUME NEW t, NEW b, NEW x, x = VoteReply(m, t, b) PROVE MessageOK(h, x)'
  <2>1. x.type = "RequestVoteReply" /\ x.term = m.term /\ x.to = m.from
    BY <1>3, Zenon DEF VoteReply
  <2>2. /\ currentTerm[m.from] \in Nat /\ currentTerm'[m.from] \in Nat
        /\ currentTerm'[m.from] >= currentTerm[m.from]
    BY <1>2, ContextFacts, Zenon DEF TypeOK, VoteStep
  <2>3. x.term =< currentTerm'[x.to]
    BY <1>2, <2>1, <2>2
  <2> QED
    BY <2>1, <2>3, Zenon DEF MessageOK
<1>4. CASE DeniesVote(s, m)
  <2> DEFINE r == VoteReply(m, currentTerm[s], FALSE)
  <2>1. Deliver(m, {r}) /\ UNCHANGED <<persistent, state, votes, disk>>
    BY <1>4, Zenon DEF RequestVote
  <2>2. ~Granted(r)
    BY Zenon DEF VoteReply, Granted
  <2>3. NoNewGrant
    BY <2>1, <2>2, DeliverGrantsNothing, Zenon
  <2>4. \A x \in {r} : MessageOK(h, x)'
    BY <1>3, Zenon
  <2>5. SendStep(h)
    BY <2>1, <2>4, DeliverSends, Zenon
  <2> QED
    BY <1>1, <2>1, <2>3, <2>5, NothingButNet, Zenon DEF RolesKept, persistent
<1>5. CASE ~DeniesVote(s, m)
  <2> DEFINE grant == IsLogUpToDate(logs[s], m.lastLogIndex, m.lastLogTerm)
             r == VoteReply(m, m.term, grant)
  <2>1. /\ Deliver(m, {r}) /\ UNCHANGED logs
        /\ PersistIf(m.term > currentTerm[s] \/ grant, s)
    BY <1>5, Zenon DEF RequestVote
  <2>2. \A x \in {r} : MessageOK(h, x)'
    BY <1>3, Zenon
  <2>3. SendStep(h)
    BY <2>1, <2>2, DeliverSends, Zenon
  <2>4. AllKeepLogs
    <3>1. \A p \in Server : disk'[p].snapshot = disk[p].snapshot
      BY <2>1, ContextFacts, PersistKeepsSnapshot, Zenon DEF PersistIf
    <3> QED
      BY <2>1, <3>1, ContextFacts, UnchangedLogs, Zenon
  <2>5. BallotStep(h) /\ RoleStep /\ OfficeKept
    BY <1>1, <1>5, VoteBallots, Zenon
  <2>6. LeaderInv(h)'
    BY <2>4, <2>5, ContextFacts, LeadersKept, Zenon
  <2>7. CommitStep(h) /\ ApplyStep(h)
    BY <1>1, ContextFacts, CommitsKept, AppliesKept, Zenon
  <2> QED
    BY <2>3, <2>4, <2>5, <2>6, <2>7, ContextFacts, LogsKeptSafe, Zenon
<1> QED
  BY <1>4, <1>5, Zenon

\* A history that differs from h in one term.
DiffersIn(U, h, g, s, Q, f, n, a) ==
    /\ g.led = h.led \cup {U}
    /\ g.leader[U] = s /\ g.voters[U] = Q /\ g.log[U] = f /\ g.len[U] = n /\ g.acked[U] = a
    /\ \A T \in Nat \ {U} :
          /\ g.leader[T] = h.leader[T] /\ g.voters[T] = h.voters[T]
          /\ g.log[T] = h.log[T] /\ g.len[T] = h.len[T] /\ g.acked[T] = h.acked[T]

LEMMA OtherHistory ==
    ASSUME NEW h \in History, NEW U \in Nat, NEW s \in Server, NEW Q \in SUBSET Server,
           NEW f \in [Nat -> Nat], NEW n \in Nat, NEW a \in [Server -> Nat]
    PROVE  \E g \in History : DiffersIn(U, h, g, s, Q, f, n, a)
<1> DEFINE g == [led |-> h.led \cup {U}, leader |-> [h.leader EXCEPT ![U] = s],
                 voters |-> [h.voters EXCEPT ![U] = Q], log |-> [h.log EXCEPT ![U] = f],
                 len |-> [h.len EXCEPT ![U] = n], acked |-> [h.acked EXCEPT ![U] = a]]
<1>1. /\ h.led \in SUBSET Nat /\ h.leader \in [Nat -> Server]
      /\ h.voters \in [Nat -> SUBSET Server] /\ h.log \in [Nat -> [Nat -> Nat]]
      /\ h.len \in [Nat -> Nat] /\ h.acked \in [Nat -> [Server -> Nat]]
  BY Zenon DEF History
<1>2. g \in History
  BY <1>1, Zenon DEF History
<1>3. DiffersIn(U, h, g, s, Q, f, n, a)
  BY <1>1, Zenon DEF DiffersIn
<1> HIDE DEF g
<1> QED
  BY <1>2, <1>3, Zenon

\* The candidate s that counts a majority wins its term, which nobody else has
\* led or will lead.
Elected(s, Q) ==
    /\ state[s] = "Candidate" /\ Majority(Q) /\ \A p \in Q : Claim(p, s, currentTerm[s])

LEMMA TermIsFree ==
    ASSUME NEW h, StepContext(h), NEW s \in Server, NEW Q \in SUBSET Server, Elected(s, Q)
    PROVE  currentTerm[s] \notin h.led
<1> DEFINE U == currentTerm[s]
<1> SUFFICES ASSUME U \in h.led PROVE FALSE
  BY Zenon
<1>1. U \in Nat /\ h.voters[U] \in SUBSET Server
  BY ContextFacts, HistoryFacts, Zenon DEF TypeOK
<1>2. /\ Majority(h.voters[U])
      /\ \A p \in h.voters[U] : \A r \in Server : Claim(p, r, U) => r = h.leader[U]
      /\ currentTerm[h.leader[U]] = U => state[h.leader[U]] # "Candidate"
  BY ContextFacts, Zenon DEF VoterInv
<1>3. PICK p \in Server : p \in Q /\ p \in h.voters[U]
  BY <1>1, <1>2, ContextFacts, Zenon DEF Elected, MajoritiesMeet
<1>4. s = h.leader[U]
  BY <1>2, <1>3, Zenon DEF Elected
<1> QED
  BY <1>2, <1>4, Zenon DEF Elected

\* It has all that may be chosen in earlier terms.
LEMMA WinnerHolds ==
    ASSUME NEW h, StepContext(h), NEW s \in Server, NEW Q \in SUBSET Server, Elected(s, Q),
           NEW T \in Nat, NEW i \in Nat, T < currentTerm[s], Choosable(h, T, i)
    PROVE  Holds(h, s, T, i)
<1>1. PICK R \in SUBSET Server :
          Majority(R) /\ \A p \in R : h.acked[T][p] >= i \/ currentTerm[p] =< T
  BY Zenon DEF Choosable
<1>2. PICK p \in Server : p \in Q /\ p \in R
  BY <1>1, ContextFacts, Zenon DEF Elected, MajoritiesMeet
<1>3. currentTerm[s] \in Nat /\ currentTerm[p] \in Nat
  BY ContextFacts, Zenon DEF TypeOK
<1>4. Claim(p, s, currentTerm[s])
  BY <1>2, Zenon DEF Elected
<1>5. currentTerm[p] > currentTerm[s] \/ currentTerm[p] = currentTerm[s]
  BY <1>3, <1>4, ContextFacts, Zenon DEF ClaimInv
<1>6. h.acked[T][p] >= i
  BY <1>1, <1>2, <1>3, <1>5
<1> QED
  BY <1>4, <1>6, ContextFacts, Zenon DEF BallotInv, Elected

\* The history in which s leads its term with the log it has.
TakesOffice(h, g, s, Q) ==
    LET U == currentTerm[s] IN
    /\ g \in History /\ g.led = h.led \cup {U}
    /\ g.leader[U] = s /\ g.voters[U] = Q /\ g.len[U] = Last(s)
    /\ \A k \in 1 .. Last(s) : g.log[U][k] = Entry(s, k)
    /\ \A p \in Server : g.acked[U][p] = IF p = s THEN Last(s) ELSE 0
    /\ \A T \in Nat \ {U} :
          /\ g.leader[T] = h.leader[T] /\ g.voters[T] = h.voters[T]
          /\ g.log[T] = h.log[T] /\ g.len[T] = h.len[T] /\ g.acked[T] = h.acked[T]

LEMMA OfficeExists ==
    ASSUME NEW h, StepContext(h), NEW s \in Server, NEW Q \in SUBSET Server
    PROVE  \E g : TakesOffice(h, g, s, Q)
<1> DEFINE U == currentTerm[s]
           n == Last(s)
           f == [k \in Nat |-> IF k \in 1 .. n THEN Entry(s, k) ELSE 0]
           a == [p \in Server |-> IF p = s THEN n ELSE 0]
<1>1. U \in Nat /\ n \in Nat /\ \A k \in 0 .. n : Entry(s, k) \in Nat
  BY ContextFacts, Zenon DEF LogShape
<1>2. f \in [Nat -> Nat] /\ \A k \in 1 .. n : f[k] = Entry(s, k)
  <2>1. \A k \in 1 .. n : k \in Nat /\ k \in 0 .. n
    BY <1>1
  <2> QED
    BY <1>1, <2>1, Zenon
<1>3. a \in [Server -> Nat] /\ \A p \in Server : a[p] = IF p = s THEN n ELSE 0
  BY <1>1, Zenon
<1> HIDE DEF U, n, f, a
<1>4. PICK g \in History : DiffersIn(U, h, g, s, Q, f, n, a)
  BY <1>1, <1>2, <1>3, ContextFacts, OtherHistory, Zenon
<1>5. TakesOffice(h, g, s, Q)
  BY <1>2, <1>3, <1>4, Zenon DEF TakesOffice, DiffersIn, U, n
<1> QED
  BY <1>5, Zenon

\* The entries of a winner come from earlier terms.
LEMMA WinnerEntries ==
    ASSUME NEW h, StepContext(h), NEW s \in Server, NEW Q \in SUBSET Server, Elected(s, Q),
           NEW i \in 1 .. Last(s)
    PROVE  /\ Entry(s, i) \in h.led /\ Entry(s, i) < currentTerm[s]
           /\ i =< h.len[Entry(s, i)]
           /\ \A k \in 1 .. i : Entry(s, k) = h.log[Entry(s, i)][k]
<1> DEFINE t == TopTerm(s)
           e == Entry(s, i)
           U == currentTerm[s]
<1>1. Last(s) \in Nat /\ Last(s) > 0 /\ t \in Nat /\ U \in Nat
  <2>1. Last(s) \in Nat /\ t \in Nat /\ U \in Nat
    BY ContextFacts, Zenon DEF LogShape
  <2> QED
    BY <2>1
<1>2. U \notin h.led
  BY TermIsFree, Zenon
<1>3. \A k \in 1 .. Last(s) : Entry(s, k) = h.log[t][k]
  BY <1>1, <1>2, ContextFacts, WinnerLog, ZenonT(30) DEF Elected
<1>4. t =< U /\ Last(s) =< h.len[t] /\ h.len[t] \in Nat
  BY <1>1, ContextFacts, HistoryFacts DEF PeerInv, PeerLog, Created
<1>5. i \in 1 .. h.len[t] /\ e = h.log[t][i]
  <2>1. e = h.log[t][i]
    BY <1>3, Zenon
  <2> HIDE DEF t
  <2> QED
    BY <1>1, <1>4, <2>1
<1>6. e \in h.led /\ e =< t /\ Extends(h, e, t, i)
  BY <1>1, <1>5, ContextFacts DEF Lineage
<1>7. e \in Nat /\ e # U
  BY <1>2, <1>6, ContextFacts, HistoryFacts, Zenon
<1>8. e < U
  BY <1>1, <1>4, <1>6, <1>7
<1>9. ASSUME NEW k \in 1 .. i PROVE Entry(s, k) = h.log[e][k]
  <2>1. k \in 1 .. Last(s)
    BY <1>1
  <2> QED
    BY <1>3, <1>6, <2>1, Zenon DEF Extends
<1> QED
  BY <1>6, <1>8, <1>9, Zenon DEF Extends

LEMMA OfficeHistory ==
    ASSUME NEW h, StepContext(h), NEW s \in Server, NEW Q \in SUBSET Server, Elected(s, Q),
           NEW g, TakesOffice(h, g, s, Q), UNCHANGED currentTerm
    PROVE  Lineage(g) /\ Grows(h, g) /\ FreshStep(h, g) /\ AckStep(h, g)
<1> DEFINE U == currentTerm[s]
           n == Last(s)
<1>1. U \in Nat /\ n \in Nat /\ U \notin h.led
  BY ContextFacts, TermIsFree, Zenon DEF LogShape
<1>2. /\ g \in History /\ g.led = h.led \cup {U}
      /\ g.leader[U] = s /\ g.voters[U] = Q /\ g.len[U] = n
      /\ \A k \in 1 .. n : g.log[U][k] = Entry(s, k)
      /\ \A p \in Server : g.acked[U][p] = IF p = s THEN n ELSE 0
      /\ \A T \in Nat \ {U} :
            /\ g.leader[T] = h.leader[T] /\ g.voters[T] = h.voters[T]
            /\ g.log[T] = h.log[T] /\ g.len[T] = h.len[T] /\ g.acked[T] = h.acked[T]
  BY Zenon DEF TakesOffice
<1>3. h.led \subseteq Nat /\ \A T \in Nat : h.len[T] \in Nat /\ g.len[T] \in Nat
  BY <1>2, ContextFacts, HistoryFacts, Zenon
<1>4. /\ h.len[U] = 0
      /\ \A p \in Server : h.acked[U][p] = 0
  <2>1. h.len[U] = 0
    BY <1>1, ContextFacts, Zenon DEF Lineage
  <2>2. ASSUME NEW p \in Server PROVE h.acked[U][p] = 0
    <3>1. h.acked[U][p] \in Nat /\ h.acked[U][p] =< h.len[U]
      BY <1>1, ContextFacts, HistoryFacts, Zenon DEF Lineage
    <3> QED
      BY <2>1, <3>1
  <2> QED
    BY <2>1, <2>2, Zenon
<1>5. \A i \in 1 .. n : /\ Entry(s, i) \in h.led /\ Entry(s, i) < U
                        /\ i =< h.len[Entry(s, i)]
                        /\ \A k \in 1 .. i : Entry(s, k) = h.log[Entry(s, i)][k]
  BY WinnerEntries
<1> HIDE DEF U, n
<1>6. Lineage(g)
  <2>1. ASSUME NEW T \in Nat, NEW i \in 1 .. g.len[T]
        PROVE  /\ g.log[T][i] \in g.led /\ g.log[T][i] =< T
               /\ Extends(g, g.log[T][i], T, i)
    <3> DEFINE e == g.log[T][i]
    <3>1. CASE T = U
      <4>1. i \in 1 .. n /\ e = Entry(s, i)
        BY <1>2, <2>1, <3>1, Zenon
      <4>2. e \in h.led /\ e < U /\ i =< h.len[e] /\ \A k \in 1 .. i : Entry(s, k) = h.log[e][k]
        BY <1>5, <4>1, Zenon
      <4>3. e \in Nat \ {U} /\ e =< T
        BY <1>1, <1>3, <3>1, <4>2
      <4>4. i =< g.len[e] /\ g.log[e] = h.log[e]
        BY <1>2, <4>2, <4>3, Zenon
      <4>5. ASSUME NEW k \in 1 .. i PROVE g.log[e][k] = g.log[T][k]
        <5>1. k \in 1 .. n
          BY <1>1, <4>1
        <5> QED
          BY <1>2, <3>1, <4>2, <4>4, <5>1, Zenon
      <4> QED
        BY <1>2, <4>2, <4>3, <4>4, <4>5, Zenon DEF Extends
    <3>2. CASE T # U
      <4>1. g.log[T] = h.log[T] /\ i \in 1 .. h.len[T]
        BY <1>2, <2>1, <3>2, Zenon
      <4>2. e \in h.led /\ e =< T /\ Extends(h, e, T, i)
        BY <4>1, ContextFacts, Zenon DEF Lineage
      <4>3. e \in Nat \ {U}
        BY <1>1, <1>3, <4>2, Zenon
      <4>4. g.log[e] = h.log[e] /\ g.len[e] = h.len[e]
        BY <1>2, <4>3, Zenon
      <4> QED
        BY <1>2, <4>1, <4>2, <4>4, Zenon DEF Extends
    <3> QED
      BY <3>1, <3>2, Zenon
  <2>2. ASSUME NEW T \in Nat \ g.led PROVE g.len[T] = 0
    <3>1. \A X \in Nat \ h.led : h.len[X] = 0
      BY ContextFacts, Zenon DEF Lineage
    <3> QED
      BY <1>2, <2>2, <3>1
  <2>3. ASSUME NEW T \in Nat, NEW p \in Server PROVE g.acked[T][p] =< g.len[T]
    <3>1. CASE T = U
      BY <1>1, <1>2, <3>1
    <3>2. CASE T # U
      BY <1>2, <3>2, ContextFacts, Zenon DEF Lineage
    <3> QED
      BY <3>1, <3>2, Zenon
  <2> QED
    BY <1>2, <2>1, <2>2, <2>3, Zenon DEF Lineage
<1>7. Grows(h, g)
  <2>1. ASSUME NEW T \in Nat
        PROVE  /\ h.len[T] =< g.len[T]
               /\ \A k \in 1 .. h.len[T] : g.log[T][k] = h.log[T][k]
    BY <1>1, <1>2, <1>3, <1>4
  <2>2. ASSUME NEW T \in Nat, NEW p \in Server
        PROVE  /\ g.acked[T][p] >= h.acked[T][p]
               /\ g.acked[T][p] > h.acked[T][p] => currentTerm[p] =< T /\ currentTerm'[p] = T
    <3>1. CASE T = U /\ p = s
      BY <1>1, <1>2, <1>4, <3>1 DEF U
    <3>2. CASE T = U /\ p # s
      BY <1>1, <1>2, <1>4, <3>2
    <3>3. CASE T # U
      <4>1. g.acked[T][p] = h.acked[T][p] /\ h.acked[T][p] \in Nat
        BY <1>2, <3>3, ContextFacts, HistoryFacts, Zenon
      <4> QED
        BY <4>1
    <3> QED
      BY <3>1, <3>2, <3>3, Zenon
  <2>3. \A T \in h.led : g.leader[T] = h.leader[T] /\ g.voters[T] = h.voters[T]
    BY <1>1, <1>2, <1>3, Zenon
  <2> QED
    BY <1>2, <2>1, <2>2, <2>3, Zenon DEF Grows
<1>8. ASSUME NEW T \in Nat, NEW i \in Nat, Created(g, T, i)
      PROVE  Created(h, T, i) /\ T # U
  <2>1. T # U
    <3> SUFFICES ASSUME T = U PROVE FALSE
      BY Zenon
    <3>1. i \in 1 .. n /\ g.log[U][i] = U
      BY <1>2, <1>8, Zenon DEF Created
    <3>2. Entry(s, i) = U /\ Entry(s, i) \in h.led
      BY <1>2, <1>5, <3>1, Zenon
    <3> QED
      BY <1>1, <3>2, Zenon
  <2> QED
    BY <1>2, <1>8, <2>1, Zenon DEF Created
<1>9. FreshStep(h, g)
  BY <1>8, Zenon DEF FreshStep
<1>10. AckStep(h, g)
  <2>1. ASSUME NEW p \in Server, NEW T \in Nat, NEW i \in Nat, Created(g, T, i)
        PROVE  g.acked[T][p] = h.acked[T][p]
    BY <1>2, <1>8, <2>1, Zenon
  <2> QED
    BY <2>1, Zenon DEF AckStep
<1> QED
  BY <1>6, <1>7, <1>9, <1>10, Zenon

LEMMA ElectSafe ==
    ASSUME NEW h, StepContext(h), NEW s \in Server, NEW Q \in SUBSET Server, Elected(s, Q),
           state' = [state EXCEPT ![s] = "Leader"], votes' = [votes EXCEPT ![s] = Q],
           UNCHANGED <<currentTerm, logs, disk, matchIndex, commitIndex, applyCh>>,
           \A p \in Server \ {s} : matchIndex[s][p] = 0,
           net' \subseteq net
    PROVE  \E g : SafeStep(h, g)
<1>1. PICK g : TakesOffice(h, g, s, Q)
  BY OfficeExists, Zenon
<1>2. Lineage(g) /\ Grows(h, g) /\ FreshStep(h, g) /\ AckStep(h, g)
  BY <1>1, OfficeHistory, Zenon
<1>0. PICK U \in Nat : U = currentTerm[s]
  BY ContextFacts, Zenon DEF TypeOK
<1>3. /\ U \in Nat /\ U \notin h.led /\ Last(s) \in Nat
      /\ g \in History /\ g.led = h.led \cup {U}
      /\ g.leader[U] = s /\ g.voters[U] = Q /\ g.len[U] = Last(s)
      /\ \A k \in 1 .. Last(s) : g.log[U][k] = Entry(s, k)
      /\ \A p \in Server : g.acked[U][p] = IF p = s THEN Last(s) ELSE 0
      /\ \A T \in Nat \ {U} : g.log[T] = h.log[T] /\ g.len[T] = h.len[T]
  BY <1>0, <1>1, TermIsFree, ContextFacts, Zenon DEF TakesOffice, LogShape
<1>4. \A p \in Server : /\ state'[p] = IF p = s THEN "Leader" ELSE state[p]
                        /\ votes'[p] = IF p = s THEN Q ELSE votes[p]
  BY ContextFacts, Zenon DEF TypeOK
<1>5. ElectStep(h, g)
  <2>1. ASSUME NEW T \in Nat, NEW i \in Nat, T < U, Choosable(h, T, i)
        PROVE  Extends(g, U, T, i)
    <3>1. i =< Last(s) /\ \A k \in 1 .. i : Entry(s, k) = h.log[T][k]
      BY <1>0, <2>1, WinnerHolds, Zenon DEF Holds, Has
    <3>2. T # U
      BY <1>3, <2>1
    <3>3. ASSUME NEW k \in 1 .. i PROVE g.log[U][k] = g.log[T][k]
      <4>1. k \in 1 .. Last(s)
        BY <1>3, <3>1
      <4> QED
        BY <1>3, <3>1, <3>2, <4>1, Zenon
    <3> QED
      BY <1>3, <3>1, <3>3, Zenon DEF Extends
  <2>2. /\ state'[g.leader[U]] = "Leader" /\ currentTerm'[g.leader[U]] = U
        /\ g.voters[U] = votes'[g.leader[U]]
    BY <1>0, <1>3, <1>4, Zenon
  <2> QED
    BY <1>3, <2>1, <2>2 DEF ElectStep
<1>6. AllKeepLogs
  BY ContextFacts, UnchangedLogs, Zenon
<1>7. KeepStep(h) /\ PeerInv(g)'
  <2>1. KeepStep(h)
    BY <1>6, ContextFacts, SameLogKeeps, Zenon DEF AllKeepLogs, KeepStep, Keeps
  <2>2. \A p \in Server : logs'[p].base \in Nat
    BY ContextFacts, Zenon DEF LogShape
  <2>3. PeerInv(g)'
    BY <1>2, <1>6, <2>2, ContextFacts, SameLogPeer, Zenon DEF AllKeepLogs, PeerInv
  <2> QED
    BY <2>1, <2>3, Zenon
<1>8. BallotStep(h) /\ RoleStep
  <2>1. NoNewGrant
    BY Zenon DEF NoNewGrant
  <2>2. BallotsKept
    BY <1>4, <2>1, NoNewClaims
  <2> QED
    BY <2>2, ContextFacts, KeptBallots, Zenon
<1>9. CommitStep(g) /\ ApplyStep(g) /\ SendStep(g)
  BY ContextFacts, CommitsKept, AppliesKept, Zenon DEF SendStep
<1>10. LeaderInv(g)'
  <2> SUFFICES ASSUME NEW p \in Server, state'[p] = "Leader"
               PROVE  Leads(g, p, currentTerm[p])'
    BY Zenon DEF LeaderInv
  <2>1. CASE p = s
    <3>1. Last(s)' = Last(s) /\ \A k \in 0 .. Last(s) : Entry(s, k)' = Entry(s, k)
      BY <1>6, Zenon DEF AllKeepLogs, SameLog
    <3>2. \A k \in 1 .. Last(s) : k \in 0 .. Last(s)
      BY <1>3
    <3>3. /\ U \in g.led /\ g.leader[U] = s /\ g.acked[U][s] = g.len[U]
          /\ Last(s)' = g.len[U] /\ \A k \in 1 .. g.len[U] : Entry(s, k)' = g.log[U][k]
      BY <1>3, <3>1, <3>2
    <3>4. ASSUME NEW q \in Server \ {s} PROVE matchIndex'[s][q] =< g.acked[U][q]
      <4>1. matchIndex'[s][q] = 0 /\ g.acked[U][q] = 0
        BY <1>3, Zenon
      <4> QED
        BY <4>1
    <3>5. Leads(g, s, U)'
      BY <3>3, <3>4, Zenon DEF Leads
    <3> QED
      BY <1>0, <2>1, <3>5, Zenon
  <2>2. CASE p # s
    <3>1. PICK T \in Nat : T = currentTerm[p]
      BY ContextFacts, Zenon DEF TypeOK
    <3>2. Leads(h, p, T)
      BY <1>4, <2>2, <3>1, ContextFacts, Zenon DEF LeaderInv
    <3>3. g.len[T] = h.len[T]
      BY <1>3, <3>2, Zenon DEF Leads
    <3>4. Leads(g, p, T)'
      BY <1>2, <1>6, <3>2, <3>3, ContextFacts, SameLogLeads, Zenon DEF AllKeepLogs
    <3> QED
      BY <3>1, <3>4, Zenon
  <2> QED
    BY <2>1, <2>2, Zenon
<1> QED
  BY <1>2, <1>5, <1>7, <1>8, <1>9, <1>10, Zenon DEF SafeStep

LEMMA HandleRequestVoteReplySafe ==
    ASSUME NEW h, StepContext(h), NEW s \in Server, NEW m \in net,
           HandleRequestVoteReply(s, m), ~staleMatch'
    PROVE  \E g : SafeStep(h, g)
<1>1. /\ m.type = "RequestVoteReply" /\ m.to = s /\ Deliver(m, {})
      /\ UNCHANGED <<commitIndex, matchIndex, applyCh>>
  BY Zenon DEF HandleRequestVoteReply
<1>2. NoNewGrant /\ SendStep(h) /\ CommitStep(h) /\ ApplyStep(h) /\ net' \subseteq net
  <2>1. NoNewGrant /\ SendStep(h)
    BY <1>1, DeliverGrantsNothing, DeliverSends
  <2>2. CommitStep(h) /\ ApplyStep(h)
    BY <1>1, ContextFacts, CommitsKept, AppliesKept, Zenon
  <2>3. net' \subseteq net
    BY <1>1, Zenon DEF Deliver
  <2> QED
    BY <2>1, <2>2, <2>3, Zenon
<1>3. CASE UNCHANGED <<persistent, state, votes, disk, staleMatch>>
  BY <1>1, <1>2, <1>3, NothingButNet, Zenon DEF RolesKept, persistent
<1>4. CASE StepDown(s, m.replyTerm)
  <2>1. m.replyTerm \in Nat
    BY <1>1, ContextFacts, MessageKind, Zenon DEF TypeOK, RequestVoteReply
  <2> QED
    BY <1>1, <1>4, <2>1, StepDownQuiet, Zenon
<1> DEFINE granted == votes[s] \cup {m.from}
           wins == 2 * Cardinality(granted) > Cardinality(Server)
<1>5. CASE /\ m.term = currentTerm[s] /\ state[s] = "Candidate" /\ m.voteGranted
           /\ votes' = Set(votes, s, granted)
           /\ state' = Set(state, s, IF wins THEN "Leader" ELSE "Candidate")
           /\ staleMatch' = (staleMatch \/ (wins /\ \E p \in Server \ {s} :
                                                    matchIndex[s][p] # 0))
           /\ UNCHANGED <<persistent, disk>>
  <2>1. /\ granted \in SUBSET Server /\ \A p \in granted : Claim(p, s, currentTerm[s])
        /\ UNCHANGED <<currentTerm, logs>>
    <3>1. m.from \in Server /\ votes[s] \in SUBSET Server
      BY <1>1, ContextFacts, MessageKind DEF TypeOK, RequestVoteReply
    <3> QED
      BY <1>1, <1>5, <3>1, Zenon DEF Claim, Granted, persistent
  <2> HIDE DEF granted
  <2>2. CASE wins
    <3>1. Elected(s, granted)
      BY <1>5, <2>1, <2>2, Zenon DEF Elected, Majority
    <3>2. \A p \in Server \ {s} : matchIndex[s][p] = 0
      BY <1>5, <2>2, Zenon
    <3>3. /\ state' = [state EXCEPT ![s] = "Leader"]
          /\ votes' = [votes EXCEPT ![s] = granted]
      BY <1>5, <2>2, Zenon DEF Set
    <3> QED
      BY <1>1, <1>2, <1>5, <2>1, <3>1, <3>2, <3>3, ElectSafe, Zenon
  <2>3. CASE ~wins
    <3>1. AllKeepLogs
      BY <1>5, <2>1, ContextFacts, UnchangedLogs, Zenon
    <3>2. \A p \in Server : /\ state'[p] = state[p]
                            /\ votes'[p] = IF p = s THEN granted ELSE votes[p]
      BY <1>5, <2>3, ContextFacts, Zenon DEF Set, TypeOK
    <3>3. OfficeKept
      BY <1>1, <2>1, <3>2, Zenon DEF OfficeKept
    <3>4. BallotsKept
      <4> SUFFICES ASSUME NEW c \in Server, NEW p \in Server, state'[c] = "Candidate",
                          Claim(p, c, currentTerm[c])'
                   PROVE  Claim(p, c, currentTerm[c])
        BY <2>1, <3>2, Zenon DEF BallotsKept
      <4>1. CASE p \in votes'[c]
        BY <2>1, <3>2, <4>1 DEF Claim
      <4>2. CASE p \notin votes'[c]
        BY <1>2, <2>1, <4>2, Zenon DEF Claim
      <4> QED
        BY <4>1, <4>2, Zenon
    <3>5. SafeStep(h, h)
      BY <1>2, <3>1, <3>3, <3>4, QuietSafe, Zenon
    <3> QED
      BY <3>5, Zenon
  <2> QED
    BY <2>2, <2>3, Zenon
<1> QED
  BY <1>3, <1>4, <1>5, Zenon DEF HandleRequestVoteReply

=============================================================================
