----------------------- MODULE RaftReplicationProofs ------------------------
(***************************************************************************)
(* The step of the history that comes with each of the actions that change *)
(* entries or decide them.  In Start a leader adds an entry, in            *)
(* AppendEntries a peer confirms entries; replies to AppendEntries and     *)
(* CondInstallSnapshot leave the history alone.                            *)
(***************************************************************************)
EXTENDS RaftHistoryProofs

\* The leaves that name no prover are for the SMT solver.
USE SMTT(30)

-----------------------------------------------------------------------------
(* Replication.  Steps that change the log of one peer. *)

LEMMA OneLogChanges ==
    ASSUME NEW h, StepContext(h), NEW g, Grows(h, g), NEW s \in Server, OthersKeepLogs(s),
           Keeps(h, s), PeerLog(g, s)'
    PROVE  KeepStep(h) /\ PeerInv(g)'
<1>1. ASSUME NEW p \in Server, p # s PROVE Keeps(h, p) /\ PeerLog(g, p)'
  <2>1. SameLog(p) /\ logs'[p].base \in Nat /\ PeerLog(h, p)
    BY <1>1, ContextFacts, Zenon DEF OthersKeepLogs, LogShape, PeerInv
  <2> QED
    BY <2>1, ContextFacts, SameLogKeeps, SameLogPeer, Zenon
<1> QED
  BY <1>1, Zenon DEF KeepStep, Keeps, PeerInv

\* The history after a leader adds an entry to its log, as its last entry n.
Adds(h, g, s, T, n) ==
    /\ g \in History /\ g.led = h.led /\ g.leader[T] = s /\ g.voters[T] = h.voters[T]
    /\ g.len[T] = n /\ g.log[T][n] = T /\ \A k \in 1 .. (n - 1) : g.log[T][k] = h.log[T][k]
    /\ \A p \in Server : g.acked[T][p] = IF p = s THEN n ELSE h.acked[T][p]
    /\ \A X \in Nat \ {T} :
          /\ g.leader[X] = h.leader[X] /\ g.voters[X] = h.voters[X]
          /\ g.log[X] = h.log[X] /\ g.len[X] = h.len[X] /\ g.acked[X] = h.acked[X]

LEMMA AddExists ==
    ASSUME NEW h \in History, NEW s \in Server, NEW T \in h.led, NEW n \in Nat \ {0}
    PROVE  \E g : Adds(h, g, s, T, n)
<1>1. /\ T \in Nat /\ h.voters[T] \in SUBSET Server
      /\ h.log[T] \in [Nat -> Nat] /\ h.acked[T] \in [Server -> Nat]
  BY Zenon DEF History
<1> DEFINE f == [h.log[T] EXCEPT ![n] = T]
           a == [h.acked[T] EXCEPT ![s] = n]
<1>2. f \in [Nat -> Nat] /\ f[n] = T /\ \A k \in 1 .. (n - 1) : f[k] = h.log[T][k]
  <2>1. \A k \in 1 .. (n - 1) : k \in Nat /\ k # n
    OBVIOUS
  <2> QED
    BY <1>1, <2>1, Zenon
<1>3. /\ a \in [Server -> Nat]
      /\ \A p \in Server : a[p] = IF p = s THEN n ELSE h.acked[T][p]
  BY <1>1, Zenon
<1> HIDE DEF f, a
<1>4. PICK g \in History : DiffersIn(T, h, g, s, h.voters[T], f, n, a)
  BY <1>1, <1>2, <1>3, OtherHistory, Zenon
<1>5. Adds(h, g, s, T, n)
  BY <1>2, <1>3, <1>4 DEF Adds, DiffersIn
<1> QED
  BY <1>5, Zenon

LEMMA AddHistory ==
    ASSUME NEW h, StepContext(h), NEW s \in Server, NEW T \in h.led, h.leader[T] = s,
           h.acked[T][s] = h.len[T], NEW n \in Nat, n = h.len[T] + 1, NEW g,
           Adds(h, g, s, T, n), currentTerm[s] = T, UNCHANGED currentTerm
    PROVE  /\ Grows(h, g) /\ Lineage(g) /\ FreshStep(h, g) /\ ElectStep(h, g)
           /\ \A p \in Server, X, i \in Nat :
                 Created(g, X, i) /\ g.acked[X][p] >= i /\ ~(h.acked[X][p] >= i) =>
                     p = s /\ X = T /\ i = n
<1>1. /\ T \in Nat /\ h.len[T] \in Nat /\ n > 0 /\ h \in History
      /\ \A X \in Nat : h.len[X] \in Nat
      /\ \A X \in Nat, p \in Server : h.acked[X][p] \in Nat /\ h.acked[X][p] =< h.len[X]
  BY ContextFacts, HistoryFacts DEF Lineage
<1>2. /\ g \in History /\ g.led = h.led /\ g.leader[T] = s /\ g.voters[T] = h.voters[T]
      /\ g.len[T] = n /\ g.log[T][n] = T
      /\ \A k \in 1 .. (n - 1) : g.log[T][k] = h.log[T][k]
      /\ \A p \in Server : g.acked[T][p] = IF p = s THEN n ELSE h.acked[T][p]
      /\ \A X \in Nat \ {T} :
            /\ g.leader[X] = h.leader[X] /\ g.voters[X] = h.voters[X]
            /\ g.log[X] = h.log[X] /\ g.len[X] = h.len[X] /\ g.acked[X] = h.acked[X]
  BY Zenon DEF Adds
<1>3. /\ \A k \in 1 .. h.len[T] : k \in 1 .. (n - 1)
      /\ \A k \in 1 .. n : k \in 1 .. h.len[T] \/ k = n
  <2>1. h.len[T] \in Nat /\ n = h.len[T] + 1
    BY <1>1, Zenon
  <2> QED
    BY <2>1
<1>4. Grows(h, g)
  <2>1. ASSUME NEW X \in Nat
        PROVE  /\ h.len[X] =< g.len[X]
               /\ \A k \in 1 .. h.len[X] : g.log[X][k] = h.log[X][k]
    <3>1. CASE X = T
      BY <1>1, <1>2, <1>3, <3>1
    <3>2. CASE X # T
      <4>1. g.len[X] = h.len[X] /\ g.log[X] = h.log[X] /\ h.len[X] \in Nat
        BY <1>1, <1>2, <3>2, Zenon
      <4> QED
        BY <4>1
    <3> QED
      BY <3>1, <3>2, Zenon
  <2>2. ASSUME NEW X \in Nat, NEW p \in Server
        PROVE  /\ g.acked[X][p] >= h.acked[X][p]
               /\ g.acked[X][p] > h.acked[X][p] => currentTerm[p] =< X /\ currentTerm'[p] = X
    <3>1. CASE X = T /\ p = s
      BY <1>1, <1>2, <3>1
    <3>2. CASE ~(X = T /\ p = s)
      <4>1. g.acked[X][p] = h.acked[X][p] /\ h.acked[X][p] \in Nat
        BY <1>1, <1>2, <3>2, Zenon
      <4> QED
        BY <4>1
    <3> QED
      BY <3>1, <3>2, Zenon
  <2>3. \A X \in h.led : g.leader[X] = h.leader[X] /\ g.voters[X] = h.voters[X]
    BY <1>1, <1>2, HistoryFacts, Zenon
  <2> QED
    BY <1>2, <2>1, <2>2, <2>3, Zenon DEF Grows
<1>5. ASSUME NEW X \in Nat, NEW i \in 1 .. g.len[X], ~(X = T /\ i = n)
      PROVE  i \in 1 .. h.len[X] /\ g.log[X][i] = h.log[X][i]
  <2>1. i \in 1 .. h.len[X]
    BY <1>2, <1>3, <1>5, Zenon
  <2> QED
    BY <1>4, <2>1, Zenon DEF Grows
<1>6. Lineage(g)
  <2>1. ASSUME NEW X \in Nat, NEW i \in 1 .. g.len[X]
        PROVE  g.log[X][i] \in g.led /\ g.log[X][i] =< X /\ Extends(g, g.log[X][i], X, i)
    <3>1. CASE X = T /\ i = n
      <4>1. g.log[X][i] = T /\ T \in g.led /\ T =< T /\ n =< g.len[T]
        BY <1>1, <1>2, <3>1
      <4> QED
        BY <3>1, <4>1, Zenon DEF Extends
    <3>2. CASE ~(X = T /\ i = n)
      <4> DEFINE e == g.log[X][i]
      <4>1. i \in 1 .. h.len[X] /\ e = h.log[X][i]
        BY <1>5, <3>2, Zenon
      <4>2. e \in h.led /\ e =< X /\ Extends(h, e, X, i)
        BY <4>1, ContextFacts, Zenon DEF Lineage
      <4>3. i \in Nat /\ i =< h.len[X] /\ e \in Nat
        BY <1>1, <4>1, <4>2, HistoryFacts
      <4>4. Extends(g, e, X, i)
        BY <1>4, <4>2, <4>3, ContextFacts, GrowsKeeps, Zenon
      <4> QED
        BY <1>2, <4>2, <4>4, Zenon
    <3> QED
      BY <3>1, <3>2, Zenon
  <2>2. ASSUME NEW X \in Nat \ g.led PROVE g.len[X] = 0
    BY <1>2, <2>2, ContextFacts DEF Lineage
  <2>3. ASSUME NEW X \in Nat, NEW p \in Server PROVE g.acked[X][p] =< g.len[X]
    <3>1. CASE X = T
      <4>1. /\ g.acked[T][p] = IF p = s THEN n ELSE h.acked[T][p]
            /\ h.acked[T][p] \in Nat /\ h.acked[T][p] =< h.len[T]
        BY <1>1, <1>2, Zenon
      <4> QED
        BY <1>1, <1>2, <3>1, <4>1
    <3>2. CASE X # T
      BY <1>1, <1>2, <3>2, Zenon
    <3> QED
      BY <3>1, <3>2, Zenon
  <2> QED
    BY <1>2, <2>1, <2>2, <2>3, Zenon DEF Lineage
<1>7. ASSUME NEW X \in Nat, NEW i \in Nat, Created(g, X, i), ~(X = T /\ i = n)
      PROVE  Created(h, X, i)
  BY <1>2, <1>5, <1>7, Zenon DEF Created
<1>8. FreshStep(h, g)
  <2> SUFFICES ASSUME NEW p \in Server, g.acked[T][p] >= n PROVE currentTerm'[p] =< T
    BY <1>7, Zenon DEF FreshStep
  <2>1. p = s
    BY <1>1, <1>2
  <2> QED
    BY <1>1, <2>1
<1>9. ElectStep(h, g)
  BY <1>2, Zenon DEF ElectStep
<1>10. ASSUME NEW p \in Server, NEW X \in Nat, NEW i \in Nat, Created(g, X, i),
              g.acked[X][p] >= i, ~(h.acked[X][p] >= i)
       PROVE  p = s /\ X = T /\ i = n
  <2>1. p = s /\ X = T
    BY <1>2, <1>10, Zenon
  <2>2. n >= i /\ ~(h.len[T] >= i)
    BY <1>2, <1>10, <2>1, Zenon
  <2> QED
    BY <1>1, <2>1, <2>2
<1> QED
  BY <1>4, <1>6, <1>8, <1>9, <1>10, ZenonT(30)

LEMMA StartSafe ==
    ASSUME NEW h, StepContext(h), NEW s \in Server, Start(s)
    PROVE  \E g : SafeStep(h, g)
<1>1. PICK T \in Nat : T = currentTerm[s]
  BY ContextFacts, Zenon DEF TypeOK
<1>2. /\ T \in h.led /\ h.leader[T] = s /\ h.acked[T][s] = h.len[T]
      /\ Last(s) = h.len[T] /\ \A k \in 1 .. h.len[T] : Entry(s, k) = h.log[T][k]
      /\ \A p \in Server \ {s} :
            matchIndex[s][p] =< h.acked[T][p] \/ Decided(h, T, matchIndex[s][p])
  <2>1. LeaderInv(h) /\ state[s] = "Leader"
    BY <1>1, ContextFacts, Zenon DEF Start
  <2> QED
    BY <1>1, <2>1 DEF LeaderInv, Leads
<1>3. PICK n \in Nat \ {0} : n = h.len[T] + 1
  BY ContextFacts, HistoryFacts
<1>4. PICK g : Adds(h, g, s, T, n)
  BY <1>2, <1>3, ContextFacts, AddExists, Zenon
<1>5. /\ UNCHANGED <<currentTerm, state, votes, commitIndex, applyCh, net>>
      /\ matchIndex' = [matchIndex EXCEPT ![s][s] = LastIndex(logs[s]) + 1]
  BY Zenon DEF Start
<1>6. /\ Grows(h, g) /\ Lineage(g) /\ FreshStep(h, g) /\ ElectStep(h, g)
      /\ \A p \in Server, X, i \in Nat :
            Created(g, X, i) /\ g.acked[X][p] >= i /\ ~(h.acked[X][p] >= i) =>
                p = s /\ X = T /\ i = n
  BY <1>1, <1>2, <1>3, <1>4, <1>5, AddHistory
<1>7. /\ OthersKeepLogs(s) /\ logs'[s].base = logs[s].base /\ Last(s)' = n
      /\ \A k \in 0 .. Last(s) : Entry(s, k)' = Entry(s, k)
      /\ Entry(s, n)' = T /\ TopTerm(s)' = T
  BY <1>1, <1>2, <1>3, ContextFacts, StartLog, Zenon
<1>8. /\ g.led = h.led /\ g.leader[T] = s /\ g.len[T] = n /\ g.log[T][n] = T
      /\ g.acked[T][s] = n /\ \A p \in Server \ {s} : g.acked[T][p] = h.acked[T][p]
      /\ \A k \in 1 .. (n - 1) : g.log[T][k] = h.log[T][k]
      /\ \A X \in Nat \ {T} : g.len[X] = h.len[X]
  BY <1>4, Zenon DEF Adds
<1>9. ASSUME NEW k \in 1 .. n PROVE Entry(s, k)' = g.log[T][k]
  <2>1. CASE k = n
    BY <1>7, <1>8, <2>1, Zenon
  <2>2. CASE k # n
    <3>1. h.len[T] \in Nat /\ Last(s) = h.len[T]
      BY <1>1, <1>2, ContextFacts, HistoryFacts, Zenon
    <3>2. k \in 1 .. (n - 1) /\ k \in 0 .. Last(s) /\ k \in 1 .. h.len[T]
      BY <1>3, <2>2, <3>1
    <3> QED
      BY <1>2, <1>7, <1>8, <3>2, Zenon
  <2> QED
    BY <2>1, <2>2, Zenon
<1>10. AckStep(h, g)
  <2>1. n =< Last(s)' /\ TopTerm(s)' >= T
    BY <1>7
  <2>2. Holds(g, s, T, n)'
    BY <1>9, <2>1, Zenon DEF Holds, Has
  <2> QED
    BY <1>6, <2>2, Zenon DEF AckStep
<1>11. Keeps(h, s)
  <2> SUFFICES ASSUME NEW X \in Nat, NEW c \in Nat, X =< currentTerm'[s], Has(h, s, X, c)
               PROVE  Has(h, s, X, c)' /\ TopTerm(s)' >= X
    BY Zenon DEF Keeps
  <2>1. TopTerm(s)' >= X
    BY <1>1, <1>5, <1>7, Zenon
  <2>2. Last(s) \in Nat /\ c =< Last(s) /\ Last(s) =< n
    <3>1. Last(s) \in Nat /\ n = Last(s) + 1
      BY <1>2, <1>3, ContextFacts, Zenon DEF LogShape
    <3> QED
      BY <3>1 DEF Has
  <2>3. c =< Last(s)' /\ \A k \in 1 .. c : k \in 0 .. Last(s)
    BY <1>7, <2>2
  <2>4. \A k \in 1 .. c : Entry(s, k)' = h.log[X][k]
    BY <1>7, <2>3, Zenon DEF Has
  <2> QED
    BY <2>1, <2>3, <2>4, Zenon DEF Has
<1>12. PeerLog(g, s)'
  <2>1. T =< currentTerm'[s]
    BY <1>1, <1>5
  <2>2. Created(g, T, n)
    BY <1>2, <1>3, <1>8 DEF Created
  <2>3. \A k \in (logs'[s].base + 1) .. n : k \in 1 .. n
    <3>1. logs'[s].base \in Nat
      BY ContextFacts, Zenon DEF LogShape
    <3> QED
      BY <3>1
  <2> QED
    BY <1>7, <1>9, <2>1, <2>2, <2>3, Zenon DEF PeerLog
<1>13. KeepStep(h) /\ PeerInv(g)'
  BY <1>6, <1>7, <1>11, <1>12, OneLogChanges, Zenon
<1>14. BallotStep(h) /\ RoleStep
  <2>1. BallotsKept
    BY <1>5, NoNewClaims, Zenon DEF NoNewGrant
  <2> QED
    BY <2>1, ContextFacts, KeptBallots, Zenon
<1>15. CommitStep(g) /\ ApplyStep(g) /\ SendStep(g)
  BY <1>5, ContextFacts, CommitsKept, AppliesKept, Zenon DEF SendStep
<1>16. LeaderInv(g)'
  <2> SUFFICES ASSUME NEW p \in Server, state[p] = "Leader"
               PROVE  Leads(g, p, currentTerm[p])'
    BY <1>5, Zenon DEF LeaderInv
  <2>1. CASE p = s
    <3>1. \A q \in Server \ {s} : matchIndex'[s][q] = matchIndex[s][q]
      BY <1>5, ContextFacts, ZenonT(30) DEF TypeOK
    <3>2. \A q \in Server \ {s} :
              matchIndex'[s][q] =< g.acked[T][q] \/ Decided(g, T, matchIndex'[s][q])
      <4>1. T =< T /\ Lineage(h)
        BY ContextFacts
      <4>2. \A x : Decided(h, T, x) => Decided(g, T, x)
        BY <1>6, <4>1, DecisionsLast, Zenon
      <4> QED
        BY <1>2, <1>8, <3>1, <4>2, Zenon
    <3>3. Leads(g, s, T)'
      BY <1>2, <1>7, <1>8, <1>9, <3>2, Zenon DEF Leads
    <3> QED
      BY <1>1, <1>5, <2>1, <3>3, Zenon
  <2>2. CASE p # s
    <3>1. PICK X \in Nat : X = currentTerm[p]
      BY ContextFacts, Zenon DEF TypeOK
    <3>2. Leads(h, p, X)
      BY <3>1, ContextFacts, Zenon DEF LeaderInv
    <3>3. g.len[X] = h.len[X] /\ matchIndex'[p] = matchIndex[p] /\ SameLog(p)
      BY <1>2, <1>5, <1>7, <1>8, <2>2, <3>2, ContextFacts, ZenonT(30) DEF Leads, TypeOK, OthersKeepLogs
    <3>4. Leads(g, p, X)'
      BY <1>6, <3>2, <3>3, ContextFacts, SameLogLeads, Zenon
    <3> QED
      BY <1>5, <3>1, <3>4, Zenon
  <2> QED
    BY <2>1, <2>2, Zenon
<1> QED
  BY <1>6, <1>10, <1>13, <1>14, <1>15, <1>16, Zenon DEF SafeStep

\* What a leader commits is chosen: a majority confirmed an entry of its own term.
LEMMA LeaderCommits ==
    ASSUME NEW h, Lineage(h), ChoiceInv(h), MajorityReached, NEW s \in Server, NEW T \in h.led,
           h.acked[T][s] = h.len[T], NEW match \in [Server -> Nat],
           \A p \in Server \ {s} : match[p] =< h.acked[T][p] \/ Decided(h, T, match[p]),
           NEW new, new = MajorityMatch(match), new > 0, new =< h.len[T], h.log[T][new] = T
    PROVE  new \in Nat /\ Chosen(h, T, new)
<1>1. /\ T \in Nat /\ h \in History /\ h.len[T] \in Nat
      /\ \A p \in Server : h.acked[T][p] \in Nat /\ h.acked[T][p] =< h.len[T]
  BY HistoryFacts, Zenon DEF Lineage
<1>2. ASSUME NEW p \in Server \ {s} PROVE match[p] =< h.len[T]
  <2>1. CASE match[p] =< h.acked[T][p]
    <3>1. match[p] \in Nat /\ h.acked[T][p] \in Nat /\ h.acked[T][p] =< h.len[T]
      BY <1>1, Zenon
    <3> QED
      BY <1>1, <2>1, <3>1
  <2>2. CASE Decided(h, T, match[p])
    BY <2>2, DecidedFacts, Zenon
  <2> QED
    BY <2>1, <2>2, Zenon
<1>3. PICK n \in Nat : \A p \in Server : match[p] =< n
  <2>1. match[s] \in Nat
    BY Zenon
  <2>2. PICK n \in Nat : n = h.len[T] + match[s]
    BY <1>1, <2>1
  <2>3. ASSUME NEW p \in Server PROVE match[p] =< n
    <3>1. CASE p = s
      BY <1>1, <2>1, <2>2, <3>1
    <3>2. CASE p # s
      <4>1. match[p] \in Nat /\ match[p] =< h.len[T]
        BY <1>2, <3>2, Zenon
      <4> QED
        BY <1>1, <2>1, <2>2, <4>1
    <3> QED
      BY <3>1, <3>2, Zenon
  <2> QED
    BY <2>3, Zenon
<1>4. PICK Q \in SUBSET Server : Majority(Q) /\ \A p \in Q : match[p] >= new
  BY <1>3, Zenon DEF MajorityReached
<1>5. new \in Nat
  BY <1>3, Zenon DEF MajorityReached
<1>6. CASE \E p \in Q \ {s} : Decided(h, T, match[p])
  <2>1. PICK p \in Q \ {s} : Decided(h, T, match[p])
    BY <1>6, Zenon
  <2>2. match[p] \in Nat /\ match[p] >= new
    BY <1>4, Zenon
  <2>3. Decided(h, T, new)
    <3>1. PICK X, i \in Nat : X =< T /\ match[p] =< i /\ Chosen(h, X, i)
      BY <1>5, <2>1, <2>2 DEF Decided
    <3>2. new =< i
      BY <1>5, <2>2, <3>1
    <3> QED
      BY <3>1, <3>2, Zenon DEF Decided
  <2> QED
    BY <1>5, <2>3, DecidedFacts, Zenon
<1>7. CASE \A p \in Q \ {s} : match[p] =< h.acked[T][p]
  <2>1. ASSUME NEW p \in Q PROVE h.acked[T][p] >= new
    <3>1. CASE p = s
      BY <1>1, <1>5, <3>1, Zenon
    <3>2. CASE p # s
      <4>1. /\ match[p] \in Nat /\ h.acked[T][p] \in Nat
            /\ match[p] =< h.acked[T][p] /\ match[p] >= new
        BY <1>1, <1>4, <1>7, <3>2, Zenon
      <4> QED
        BY <1>5, <4>1
    <3> QED
      BY <3>1, <3>2, Zenon
  <2>2. new \in 1 .. h.len[T]
    BY <1>1, <1>5
  <2>3. Created(h, T, new)
    BY <2>2, Zenon DEF Created
  <2> QED
    BY <1>4, <1>5, <2>1, <2>3, Zenon DEF Chosen
<1> QED
  BY <1>4, <1>6, <1>7, Zenon

LEMMA HandleAppendEntriesReplySafe ==
    ASSUME NEW h, StepContext(h), NEW s \in Server, NEW m \in net,
           HandleAppendEntriesReply(s, m)
    PROVE  SafeStep(h, h)
<1> DEFINE n == m.prevLogIndex + m.numEntries
<1>1. /\ m.type = "AppendEntriesReply" /\ Deliver(m, {}) /\ UNCHANGED applyCh
  BY Zenon DEF HandleAppendEntriesReply
<1>2. /\ m.from \in Server /\ n \in Nat /\ m.replyTerm \in Nat
  <2>1. m \in AppendEntriesReply
    BY <1>1, ContextFacts, MessageKind, Zenon DEF TypeOK
  <2>2. m.prevLogIndex \in Nat /\ m.numEntries \in Nat
    BY <2>1, Zenon DEF AppendEntriesReply
  <2> QED
    BY <2>1, <2>2 DEF AppendEntriesReply
<1>3. NoNewGrant /\ SendStep(h) /\ ApplyStep(h)
  BY <1>1, DeliverGrantsNothing, DeliverSends, AppliesKept
<1>4. CASE UNCHANGED <<persistent, state, votes, disk, commitIndex, matchIndex>>
  BY <1>1, <1>3, <1>4, NothingButNet, Zenon DEF RolesKept, persistent
<1>5. CASE StepDown(s, m.replyTerm) /\ UNCHANGED <<commitIndex, nextIndex, matchIndex>>
  BY <1>1, <1>2, <1>5, StepDownQuiet, Zenon
<1>6. CASE /\ m.term = currentTerm[s] /\ state[s] = "Leader" /\ m.success
           /\ matchIndex' = [matchIndex EXCEPT ![s][m.from] = n]
           /\ AdvanceCommitIndexForLeader(s, matchIndex'[s])
           /\ UNCHANGED <<persistent, state, votes, disk>>
  <2>1. UNCHANGED <<currentTerm, logs, state, votes, disk>>
    BY <1>6, Zenon DEF persistent
  <2>2. AllKeepLogs
    BY <2>1, ContextFacts, UnchangedLogs, Zenon
  <2>3. n =< h.acked[currentTerm[s]][m.from] \/ Decided(h, currentTerm[s], n)
    BY <1>1, <1>6, ContextFacts, Zenon DEF MessageInv, MessageOK
  <2>4. LeaderInv(h)'
    <3> HIDE DEF n
    <3> QED
      BY <1>2, <1>6, <2>1, <2>2, <2>3, LeadsMatched, Zenon
  <2>5. BallotStep(h) /\ RoleStep
    BY <1>3, <2>1, ContextFacts, NoNewClaims, KeptBallots, Zenon
  <2>6. CommitStep(h)
    <3> DEFINE match == matchIndex'[s]
               new == MajorityMatch(match)
    <3>1. commitIndex' = [commitIndex EXCEPT ![s] =
             IF new > commitIndex[s] /\ IsLogMatched(logs[s], new, currentTerm[s])
             THEN new ELSE commitIndex[s]]
      BY <1>6, Zenon DEF AdvanceCommitIndexForLeader, Set
    <3> HIDE DEF new
    <3>2. \A p \in Server : commitIndex[p] \in Nat /\ commitIndex[p] =< commitIndex[p]
      BY ContextFacts DEF TypeOK
    <3>3. DOMAIN commitIndex = Server
      BY ContextFacts, Zenon DEF TypeOK
    <3>4. CASE ~(new > commitIndex[s] /\ IsLogMatched(logs[s], new, currentTerm[s]))
      BY <3>1, <3>2, <3>3, <3>4, Zenon DEF CommitStep
    <3>5. CASE new > commitIndex[s] /\ IsLogMatched(logs[s], new, currentTerm[s])
      <4>1. PICK T \in Nat : T = currentTerm[s]
        BY ContextFacts, Zenon DEF TypeOK
      <4>2. /\ T \in h.led /\ h.acked[T][s] = h.len[T]
            /\ Last(s)' = h.len[T] /\ \A k \in 1 .. h.len[T] : Entry(s, k)' = h.log[T][k]
            /\ \A p \in Server \ {s} : match[p] =< h.acked[T][p] \/ Decided(h, T, match[p])
        <5>1. Leads(h, s, currentTerm[s])'
          BY <1>6, <2>1, <2>4, Zenon DEF LeaderInv
        <5>2. Leads(h, s, T)'
          BY <2>1, <4>1, <5>1, Zenon
        <5> QED
          BY <5>2, Zenon DEF Leads
      <4>3. match \in [Server -> Nat]
        BY ContextFacts, Zenon DEF TypeOK
      <4> HIDE DEF match
      <4>4. /\ new \in Int /\ new >= logs[s].base /\ new =< Last(s)
            /\ TermAt(logs[s], new) = T /\ new > commitIndex[s]
        <5>1. new \in logs[s].base .. Last(s) /\ TermAt(logs[s], new) = T
          BY <3>5, <4>1, Zenon DEF IsLogMatched, Last
        <5>2. logs[s].base \in Nat /\ Last(s) \in Nat
          BY ContextFacts, Zenon DEF LogShape
        <5> QED
          BY <3>5, <5>1, <5>2
      <4>5. /\ new > 0 /\ new =< h.len[T] /\ new \in Nat /\ Entry(s, new) = T
            /\ Last(s)' = Last(s) /\ Last(s) \in Nat
        <5>1. /\ Last(s)' = Last(s) /\ Last(s) \in Nat /\ logs[s].base \in Nat
              /\ \A k \in logs[s].base .. Last(s) : TermAt(logs[s], k) = Entry(s, k)
              /\ commitIndex[s] \in Nat
          BY <2>2, ContextFacts, Zenon DEF AllKeepLogs, SameLog, LogShape
        <5>2. new > 0 /\ new \in logs[s].base .. Last(s) /\ new \in Nat
          BY <4>4, <5>1
        <5> QED
          BY <4>2, <4>4, <5>1, <5>2, Zenon
      <4>6. PICK k \in Nat : k = new
        BY <4>5, Zenon
      <4>7. k \in 1 .. h.len[T] /\ k \in 0 .. Last(s)
        BY <4>2, <4>5, <4>6
      <4>8. Entry(s, k)' = T /\ h.log[T][k] = T
        <5>1. Entry(s, k)' = Entry(s, k) /\ Entry(s, k) = T
          BY <2>2, <4>5, <4>6, <4>7, Zenon DEF AllKeepLogs, SameLog
        <5> QED
          BY <4>2, <4>7, <5>1, Zenon
      <4>9. Chosen(h, T, k)
        BY <4>2, <4>3, <4>5, <4>6, <4>8, ContextFacts, LeaderCommits, Zenon DEF new
      <4>10. Has(h, s, T, k)' /\ k =< Last(s)'
        <5>1. k =< Last(s)' /\ \A x \in 1 .. k : x \in 1 .. h.len[T]
          BY <4>2, <4>5, <4>6
        <5> QED
          BY <4>2, <5>1, Zenon DEF Has
      <4>11. commitIndex'[s] = k
        BY <3>1, <3>3, <3>5, <4>6, Zenon
      <4>12. PeerDecided(h, s, k)'
        <5>1. T =< currentTerm'[s] /\ k =< k
          BY <2>1, <4>1
        <5> QED
          BY <4>9, <4>10, <5>1, Zenon DEF PeerDecided
      <4>13. commitIndex'[s] =< Last(s)' /\ PeerDecided(h, s, commitIndex[s])'
        BY <4>10, <4>11, <4>12, Zenon
      <4>14. \A p \in Server \ {s} : commitIndex'[p] =< commitIndex[p]
        BY <3>1, <3>2, <3>3, Zenon
      <4> QED
        BY <4>13, <4>14, Zenon DEF CommitStep
    <3> QED
      BY <3>4, <3>5, Zenon
  <2> QED
    BY <1>3, <2>2, <2>4, <2>5, <2>6, ContextFacts, LogsKeptSafe, Zenon
<1> QED
  BY <1>4, <1>5, <1>6, Zenon DEF HandleAppendEntriesReply

\* The service installs a snapshot of what a majority chose.  Entries that the
\* peer keeps after it are its own; what it gives up cannot have been chosen.
LEMMA InstallKeeps ==
    ASSUME NEW h, StepContext(h), NEW s \in Server, NEW snap \in applyCh[s],
           CondInstallSnapshot(s, snap), snap.index > commitIndex[s],
           NEW U \in Nat, NEW j \in Nat, U =< currentTerm[s], Chosen(h, U, j), snap.index =< j,
           \A k \in 1 .. snap.index : snap.data[k] = h.log[U][k]
    PROVE  /\ Keeps(h, s) /\ PeerLog(h, s)' /\ Has(h, s, U, snap.index)'
<1> DEFINE x == snap.index
<1>1. /\ x \in Nat /\ logs'[s].base = x
      /\ Last(s)' = IF x > Last(s) THEN x ELSE Last(s)
      /\ \A k \in 1 .. x : Entry(s, k)' = snap.data[k]
      /\ \A k \in (x + 1) .. Last(s) : Entry(s, k)' = Entry(s, k)
  BY ContextFacts, CondInstallLog, Zenon
<1>2. /\ Last(s) \in Nat /\ x > 0 /\ logs[s].base \in Nat /\ logs[s].base < x
      /\ currentTerm[s] \in Nat /\ currentTerm'[s] = currentTerm[s]
  <2>1. commitIndex[s] \in Nat /\ logs[s].base =< commitIndex[s] /\ logs[s].base \in Nat
    BY ContextFacts, Zenon DEF LogShape
  <2>2. x > 0 /\ logs[s].base < x
    BY <1>1, <2>1
  <2> QED
    BY <2>1, <2>2, ContextFacts, ZenonT(30) DEF LogShape, CondInstallSnapshot
<1>3. /\ Choosable(h, U, j) /\ U \in h.led /\ j \in 1 .. h.len[U] /\ h.len[U] \in Nat
      /\ \A k \in 1 .. x : Entry(s, k)' = h.log[U][k]
  BY <1>1, ContextFacts, ChosenFacts, HistoryFacts, ZenonT(30)
<1> HIDE DEF x
<1>4. /\ x > Last(s) => Last(s)' = x
      /\ ~(x > Last(s)) => Last(s)' = Last(s)
      /\ x =< Last(s)' /\ Last(s) =< Last(s)'
  BY <1>1, <1>2
<1>5. PICK z \in Nat : z = Last(s)'
  BY ContextFacts, Zenon DEF LogShape
<1>6. TopTerm(s)' = Entry(s, z)'
  BY <1>5, Zenon DEF TopTerm
<1>7. x \in 1 .. h.len[U] /\ x \in 1 .. x
  BY <1>1, <1>2, <1>3 DEF x
<1>0. x \in Nat /\ x > 0 /\ x =< j /\ Last(s) \in Nat
  BY <1>1, <1>2, Zenon DEF x
<1>8. CASE Last(s) > x
  <2>1. z = Last(s) /\ z \in (x + 1) .. Last(s)
    BY <1>1, <1>2, <1>4, <1>5, <1>8
  <2>2. TopTerm(s)' = TopTerm(s)
    BY <1>1, <1>6, <2>1, Zenon DEF TopTerm
  <2>3. Keeps(h, s)
    <3> SUFFICES ASSUME NEW T \in Nat, NEW i \in Nat, NEW c \in Nat, Choosable(h, T, i),
                        c =< i, Has(h, s, T, c)
                 PROVE  Has(h, s, T, c)'
      BY <2>2, Zenon DEF Keeps
    <3>1. c =< Last(s)' /\ c =< Last(s)
      BY <1>5, <2>1, Zenon DEF Has
    <3>2. ASSUME NEW k \in 1 .. c PROVE Entry(s, k)' = h.log[T][k]
      <4>1. CASE k =< x
        <5>1. k \in 1 .. x /\ k \in 1 .. i /\ k =< j
          BY <1>0, <4>1
        <5>2. h.log[T][k] = h.log[U][k]
          <6>1. Lineage(h) /\ ChoiceInv(h)
            BY ContextFacts, Zenon
          <6>2. \A l \in 1 .. i : l =< j => h.log[T][l] = h.log[U][l]
            BY <1>3, <6>1, ChoicesAgree
          <6> QED
            BY <5>1, <6>2, Zenon
        <5> QED
          BY <1>3, <5>1, <5>2, Zenon
      <4>2. CASE ~(k =< x)
        <5>1. k \in (x + 1) .. Last(s)
          BY <1>0, <3>1, <4>2
        <5> QED
          BY <1>1, <5>1, Zenon DEF Has
      <4> QED
        BY <4>1, <4>2, Zenon
    <3> QED
      BY <3>1, <3>2, Zenon DEF Has
  <2>4. PeerLog(h, s)'
    <3>1. /\ TopTerm(s) =< currentTerm[s] /\ Created(h, TopTerm(s), Last(s))
          /\ \A k \in (logs[s].base + 1) .. Last(s) : Entry(s, k) = h.log[TopTerm(s)][k]
      <4>1. Last(s) > 0 /\ PeerLog(h, s)
        <5>1. Last(s) > 0
          BY <1>0, <1>8
        <5> QED
          BY <5>1, ContextFacts, Zenon DEF PeerInv
      <4> QED
        BY <4>1, Zenon DEF PeerLog
    <3>2. \A k \in (x + 1) .. Last(s) : k \in (logs[s].base + 1) .. Last(s)
      <4>1. logs[s].base \in Nat /\ logs[s].base < x
        BY <1>2, ZenonT(30)
      <4> QED
        BY <1>0, <4>1
    <3> QED
      BY <1>1, <1>2, <1>5, <2>1, <2>2, <3>1, <3>2, Zenon DEF PeerLog
  <2> QED
    BY <1>3, <1>4, <2>3, <2>4, ZenonT(30) DEF Has, x
<1>9. CASE ~(Last(s) > x)
  <2> DEFINE e == h.log[U][x]
  <2>1. z = x /\ Last(s) =< x
    BY <1>1, <1>2, <1>4, <1>5, <1>9
  <2>2. TopTerm(s)' = e
    BY <1>3, <1>6, <1>7, <2>1, Zenon
  <2>3. /\ e \in h.led /\ e =< U /\ Extends(h, e, U, x) /\ e \in Nat
    BY <1>7, ContextFacts, HistoryFacts, Zenon DEF Lineage
  <2>4. Keeps(h, s)
    <3> SUFFICES ASSUME NEW T \in Nat, NEW i \in Nat, NEW c \in Nat, Choosable(h, T, i),
                        c =< i, Has(h, s, T, c)
                 PROVE  Has(h, s, T, c)' /\ (c = i => TopTerm(s)' >= T)
      BY Zenon DEF Keeps
    <3>1. c =< Last(s)' /\ c =< x
      <4>1. c =< Last(s)
        BY Zenon DEF Has
      <4> QED
        BY <1>0, <1>5, <2>1, <4>1
    <3>2. \A k \in 1 .. i : k =< x => h.log[T][k] = h.log[U][k]
      <4>1. \A k \in 1 .. i : k =< x => k =< j
        BY <1>0
      <4>2. Lineage(h) /\ ChoiceInv(h)
        BY ContextFacts, Zenon
      <4>3. \A k \in 1 .. i : k =< j => h.log[T][k] = h.log[U][k]
        BY <1>3, <4>2, ChoicesAgree
      <4> QED
        BY <4>1, <4>3, Zenon
    <3>3. \A k \in 1 .. c : k \in 1 .. i /\ k =< x /\ k \in 1 .. x
      BY <1>0, <3>1
    <3>4. Has(h, s, T, c)'
      BY <1>3, <3>1, <3>2, <3>3, Zenon DEF Has
    <3>5. ASSUME c = i PROVE TopTerm(s)' >= T
      <4>1. i \in 1 .. i /\ h.log[T][i] = T /\ i =< x /\ i \in 1 .. x
        <5>1. i > 0 /\ h.log[T][i] = T
          <6>1. h.len[T] \in Nat /\ i \in 1 .. h.len[T] /\ h.log[T][i] = T
            BY ContextFacts, HistoryFacts, Zenon DEF Choosable, Created
          <6> QED
            BY <6>1
        <5> QED
          BY <1>0, <3>1, <3>5, <5>1
      <4>2. h.log[U][i] = T
        BY <3>2, <4>1, Zenon
      <4>3. h.log[U][i] =< h.log[U][x]
        BY <1>7, <4>1, ContextFacts, LogsAscend, Zenon
      <4> QED
        BY <2>2, <2>3, <4>2, <4>3, Zenon
    <3> QED
      BY <3>4, <3>5, Zenon
  <2>5. Created(h, e, x)
    <3>1. x =< h.len[e] /\ h.log[e][x] = e /\ h.len[e] \in Nat
      BY <1>7, <2>3, ContextFacts, HistoryFacts, Zenon DEF Extends
    <3> HIDE DEF e
    <3>2. x \in 1 .. h.len[e]
      BY <1>0, <3>1
    <3> QED
      BY <2>3, <3>1, <3>2, Zenon DEF Created
  <2>6. PeerLog(h, s)'
    <3>1. e =< currentTerm'[s]
      BY <1>2, <2>3
    <3>2. \A k \in (x + 1) .. x : FALSE
      BY <1>0
    <3> HIDE DEF e
    <3> QED
      BY <1>1, <1>5, <2>1, <2>2, <2>5, <3>1, <3>2, Zenon DEF PeerLog
  <2> QED
    BY <1>3, <1>4, <2>4, <2>6, Zenon DEF Has, x
<1> QED
  BY <1>8, <1>9, Zenon

LEMMA CondInstallSnapshotSafe ==
    ASSUME NEW h, StepContext(h), NEW s \in Server, NEW snap \in applyCh[s],
           CondInstallSnapshot(s, snap)
    PROVE  SafeStep(h, h)
<1> DEFINE x == snap.index
<1>1. /\ UNCHANGED <<currentTerm, state, votes, matchIndex, net>>
      /\ applyCh' = Set(applyCh, s, applyCh[s] \ {snap})
  BY Zenon DEF CondInstallSnapshot
<1>2. ApplyStep(h) /\ SendStep(h) /\ NoNewGrant
  BY <1>1, ContextFacts, Zenon DEF ApplyStep, SendStep, NoNewGrant, Set, TypeOK
<1>3. BallotStep(h) /\ RoleStep
  BY <1>1, <1>2, ContextFacts, NoNewClaims, KeptBallots, Zenon
<1>4. CASE UNCHANGED <<logs, commitIndex, disk>>
  <2>1. AllKeepLogs
    BY <1>4, ContextFacts, UnchangedLogs, Zenon
  <2>2. LeaderInv(h)'
    BY <1>1, <2>1, ContextFacts, LeadersKept, Zenon DEF OfficeKept
  <2>3. CommitStep(h)
    BY <1>4, ContextFacts, CommitsKept, Zenon
  <2> QED
    BY <1>2, <1>3, <2>1, <2>2, <2>3, ContextFacts, LogsKeptSafe, Zenon
<1>5. CASE x > commitIndex[s] /\ commitIndex' = Set(commitIndex, s, x)
  <2>1. /\ OthersKeepLogs(s) /\ x \in Nat
        /\ Last(s)' = IF x > Last(s) THEN x ELSE Last(s)
        /\ \A k \in 1 .. x : Entry(s, k)' = snap.data[k]
        /\ \A k \in (x + 1) .. Last(s) : Entry(s, k)' = Entry(s, k)
    BY <1>5, ContextFacts, CondInstallLog, Zenon
  <2>2. x > 0 /\ Last(s) \in Nat /\ x =< Last(s)'
    <3>1. commitIndex[s] \in Nat /\ Last(s) \in Nat
      BY ContextFacts, Zenon DEF LogShape
    <3> HIDE DEF x
    <3> QED
      BY <1>5, <2>1, <3>1
  <2>3. PICK U, j \in Nat : /\ U =< currentTerm[s] /\ x =< j /\ Chosen(h, U, j)
                            /\ \A k \in 1 .. x : snap.data[k] = h.log[U][k]
    <3>1. SnapDecided(h, snap, currentTerm[s])
      BY ContextFacts, Zenon DEF ApplyInv
    <3> QED
      BY <2>2, <3>1, Zenon DEF SnapDecided
  <2>4. Keeps(h, s) /\ PeerLog(h, s)' /\ Has(h, s, U, x)'
    BY <1>5, <2>3, InstallKeeps, Zenon
  <2> HIDE DEF x
  <2>5. Grows(h, h) /\ FreshStep(h, h) /\ ElectStep(h, h) /\ AckStep(h, h) /\ Lineage(h)
    BY ContextFacts, SameHistory, Zenon
  <2>6. KeepStep(h) /\ PeerInv(h)'
    BY <2>1, <2>4, <2>5, OneLogChanges, Zenon
  <2>7. CommitStep(h)
    <3>1. \A p \in Server : /\ commitIndex'[p] = IF p = s THEN x ELSE commitIndex[p]
                            /\ commitIndex[p] \in Nat
      BY <1>5, ContextFacts, Zenon DEF TypeOK, Set
    <3>2. PeerDecided(h, s, commitIndex[s])'
      <4>1. commitIndex'[s] = x /\ U =< currentTerm'[s]
        BY <1>1, <2>3, <3>1, Zenon
      <4>2. PeerDecided(h, s, x)'
        BY <2>3, <2>4, <4>1, Zenon DEF PeerDecided
      <4> QED
        BY <4>1, <4>2, Zenon
    <3>3. \A p \in Server \ {s} : commitIndex'[p] =< commitIndex[p]
      BY <3>1
    <3> QED
      BY <2>2, <3>1, <3>2, <3>3, Zenon DEF CommitStep
  <2>8. LeaderInv(h)'
    <3> SUFFICES ASSUME NEW p \in Server, state[p] = "Leader"
                 PROVE  Leads(h, p, currentTerm[p])'
      BY <1>1, Zenon DEF LeaderInv
    <3>1. PICK T \in Nat : T = currentTerm[p]
      BY ContextFacts, Zenon DEF TypeOK
    <3>2. Leads(h, p, T)
      BY <3>1, ContextFacts, Zenon DEF LeaderInv
    <3>3. CASE p = s
      <4>1. /\ T \in h.led /\ h.leader[T] = s /\ h.acked[T][s] = h.len[T]
            /\ Last(s) = h.len[T] /\ \A k \in 1 .. h.len[T] : Entry(s, k) = h.log[T][k]
        BY <3>2, <3>3, Zenon DEF Leads
      <4>2. Choosable(h, U, j) /\ U =< T
        BY <2>3, <3>1, <3>3, ContextFacts, ChosenFacts, Zenon
      <4>3. j =< h.len[T] /\ \A k \in 1 .. j : h.log[T][k] = h.log[U][k]
        <5>1. Extends(h, T, U, j)
          BY <4>1, <4>2, ContextFacts, LaterExtends, ZenonT(30)
        <5> QED
          BY <5>1, Zenon DEF Extends
      <4>4. h.len[T] \in Nat /\ ~(x > Last(s))
        BY <2>1, <2>2, <2>3, <4>1, <4>3
      <4>5. Last(s)' = h.len[T]
        BY <2>1, <4>1, <4>4, Zenon
      <4>6. ASSUME NEW k \in 1 .. h.len[T] PROVE Entry(s, k)' = h.log[T][k]
        <5>1. CASE k =< x
          <6>1. k \in 1 .. x /\ k \in 1 .. j
            BY <2>1, <2>3, <5>1
          <6> QED
            BY <2>1, <2>3, <4>3, <6>1, Zenon
        <5>2. CASE ~(k =< x)
          <6>1. k \in (x + 1) .. Last(s)
            BY <2>1, <4>1, <4>4, <5>2
          <6> QED
            BY <2>1, <4>1, <6>1, Zenon
        <5> QED
          BY <5>1, <5>2, Zenon
      <4>7. Leads(h, s, T)'
        BY <1>1, <3>2, <3>3, <4>1, <4>5, <4>6, Zenon DEF Leads
      <4> QED
        BY <1>1, <3>1, <3>3, <4>7, Zenon
    <3>4. CASE p # s
      <4>1. SameLog(p) /\ matchIndex'[p] = matchIndex[p]
        BY <1>1, <2>1, <3>4, Zenon DEF OthersKeepLogs
      <4>2. Leads(h, p, T)'
        BY <2>5, <3>2, <4>1, ContextFacts, SameLogLeads, Zenon
      <4> QED
        BY <1>1, <3>1, <4>2, Zenon
    <3> QED
      BY <3>3, <3>4, Zenon
  <2> QED
    BY <1>2, <1>3, <2>5, <2>6, <2>7, <2>8, Zenon DEF SafeStep
<1> QED
  BY <1>4, <1>5, Zenon DEF CondInstallSnapshot

\* A follower that accepts a call has the log of the call's term up to the last
\* entry of the call, and gave up nothing that may be chosen.
LEMMA AcceptedLog ==
    ASSUME NEW h, StepContext(h), NEW s \in Server, NEW m \in AppendEntriesArgs,
           AppendEntriesOK(h, m), AppendAccepted(s, m), m.term >= currentTerm[s],
           currentTerm'[s] = m.term, NEW n \in Nat, n = m.prevLogIndex + Len(m.entries)
    PROVE  /\ Has(h, s, m.term, n)' /\ Keeps(h, s) /\ OthersKeepLogs(s)
           /\ logs'[s].base = logs[s].base
           /\ SameLog(s) \/ (Last(s)' = n /\ n > 0)
<1> DEFINE T == m.term
           i == m.prevLogIndex
           w == Len(m.entries)
<1>1. T \in Nat /\ i \in Nat /\ m.entries \in Seq(Nat) /\ w \in Nat /\ m.prevLogTerm \in Nat
  BY SeqLength, Zenon DEF AppendEntriesArgs
<1>2. /\ T \in h.led /\ n =< h.len[T] /\ h.len[T] \in Nat
      /\ m.prevLogTerm = IF i = 0 THEN 0 ELSE h.log[T][i]
      /\ \A k \in 1 .. w : m.entries[k] = h.log[T][i + k]
  BY <1>1, ContextFacts, HistoryFacts, Zenon DEF AppendEntriesOK
<1>3. i >= logs[s].base /\ i =< Last(s) /\ m.prevLogTerm = Entry(s, i)
  <2>1. i \in Int /\ IsLogMatched(logs[s], i, m.prevLogTerm)
    <3>1. i \in Int
      BY <1>1
    <3> QED
      BY <3>1, Zenon DEF AppendAccepted
  <2> QED
    BY <2>1, ContextFacts, MatchedFacts, Zenon
<1>4. /\ OthersKeepLogs(s) /\ logs'[s].base = logs[s].base
      /\ \/ SameLog(s) /\ AllMatch(s, i, m.entries)
         \/ /\ ~AllMatch(s, i, m.entries)
            /\ Last(s)' = n
            /\ \A k \in 0 .. i : Entry(s, k)' = Entry(s, k)
            /\ \A k \in 1 .. w : Entry(s, i + k)' = m.entries[k]
  BY ContextFacts, MergeLog, Zenon
<1> HIDE DEF T, i, w
<1>5. n = i + w /\ i =< n
  <2>1. n = i + w
    BY Zenon DEF i, w
  <2> QED
    BY <1>1, <2>1
<1>6. logs[s].base \in Nat /\ Last(s) \in Nat /\ currentTerm[s] \in Nat /\ currentTerm[s] =< T
  BY <1>1, ContextFacts, Zenon DEF LogShape, T
<1>7. Has(h, s, T, i)
  <2>1. /\ logs[s].base =< i /\ i =< h.len[T]
        /\ i > 0 => Entry(s, i) = h.log[T][i]
    BY <1>1, <1>2, <1>3, <1>5, <1>6
  <2> QED
    BY <1>1, <1>2, <1>3, <1>6, <2>1, ContextFacts, MatchVouches, Zenon
<1>8. \A k \in 1 .. n : k \in 1 .. i \/ k - i \in 1 .. w
  BY <1>1, <1>5
<1>9. \A k \in 1 .. n : k - i \in 1 .. w => i + (k - i) = k
  BY <1>1
<1>10. CASE SameLog(s) /\ AllMatch(s, i, m.entries)
  <2>1. \A k \in 1 .. w : i + k =< Last(s) /\ Entry(s, i + k) = m.entries[k]
    BY <1>10, Zenon DEF AllMatch, w
  <2>2. n =< Last(s)
    <3>1. CASE w = 0
      BY <1>1, <1>3, <1>5, <3>1
    <3>2. CASE w # 0
      <4>1. w \in 1 .. w
        BY <1>1, <3>2
      <4> QED
        BY <1>5, <2>1, <4>1, Zenon
    <3> QED
      BY <3>1, <3>2, Zenon
  <2>3. ASSUME NEW k \in 1 .. n PROVE Entry(s, k)' = h.log[T][k]
    <3>1. k \in 0 .. Last(s)
      BY <1>6, <2>2
    <3>2. Entry(s, k)' = Entry(s, k)
      BY <1>10, <3>1, Zenon DEF SameLog
    <3>3. CASE k \in 1 .. i
      BY <1>7, <3>2, <3>3, Zenon DEF Has
    <3>4. CASE k - i \in 1 .. w
      <4>1. Entry(s, i + (k - i)) = h.log[T][i + (k - i)]
        BY <1>2, <2>1, <3>4, Zenon
      <4> QED
        BY <1>9, <3>2, <3>4, <4>1, Zenon
    <3> QED
      BY <1>8, <3>3, <3>4, Zenon
  <2>4. Has(h, s, T, n)'
    BY <1>10, <2>2, <2>3, Zenon DEF Has, SameLog
  <2> QED
    BY <1>4, <1>10, <2>4, ContextFacts, SameLogKeeps, Zenon DEF T
<1>11. CASE /\ ~AllMatch(s, i, m.entries)
            /\ Last(s)' = n
            /\ \A k \in 0 .. i : Entry(s, k)' = Entry(s, k)
            /\ \A k \in 1 .. w : Entry(s, i + k)' = m.entries[k]
  <2>1. ASSUME NEW k \in 1 .. n PROVE Entry(s, k)' = h.log[T][k]
    <3>1. CASE k \in 1 .. i
      <4>1. k \in 0 .. i
        BY <1>1, <3>1
      <4> QED
        BY <1>7, <1>11, <3>1, <4>1, Zenon DEF Has
    <3>2. CASE k - i \in 1 .. w
      <4>1. PICK q \in 1 .. w : q = k - i
        BY <3>2, Zenon
      <4>2. Entry(s, i + q)' = h.log[T][i + q]
        BY <1>2, <1>11, Zenon
      <4>3. i + q = k
        BY <1>9, <3>2, <4>1, Zenon
      <4>4. Entry(s, k)' = h.log[T][k]
        BY <4>2, <4>3, Zenon
      <4> QED
        BY <4>4, Zenon
    <3> QED
      BY <1>8, <3>1, <3>2, Zenon
  <2>2. n =< Last(s)'
    BY <1>11
  <2>3. Has(h, s, T, n)'
    BY <2>1, <2>2, Zenon DEF Has
  <2>4. w > 0 /\ n > 0
    <3>1. w # 0
      <4>1. w = 0 => \A k \in 1 .. w : FALSE
        OBVIOUS
      <4> QED
        BY <1>11, <4>1, Zenon DEF AllMatch, w
    <3> QED
      BY <1>1, <1>5, <3>1
  <2>5. Keeps(h, s)
    <3> SUFFICES ASSUME NEW X \in Nat, NEW j \in Nat, NEW c \in Nat, X =< currentTerm'[s],
                        Choosable(h, X, j), c =< j, Has(h, s, X, c)
                 PROVE  Has(h, s, X, c)' /\ (c = j => TopTerm(s)' >= X)
      BY Zenon DEF Keeps
    <3>1. Extends(h, T, X, j)
      BY <1>2, ContextFacts, LaterExtends, Zenon DEF T
    <3>2. \A k \in 1 .. j : h.log[T][k] = h.log[X][k]
      BY <3>1, Zenon DEF Extends
    <3>3. c =< n
      <4> SUFFICES ASSUME c > n PROVE FALSE
        OBVIOUS
      <4>1. ASSUME NEW k \in 1 .. w
            PROVE  i + k =< Last(s) /\ Entry(s, i + k) = m.entries[k]
        <5>1. c =< Last(s)
          BY Zenon DEF Has
        <5>2. i + k \in 1 .. c /\ i + k \in 1 .. j /\ i + k =< Last(s)
          BY <1>1, <1>5, <1>6, <5>1
        <5>3. Entry(s, i + k) = h.log[X][i + k] /\ h.log[T][i + k] = h.log[X][i + k]
          BY <3>2, <5>2, Zenon DEF Has
        <5> QED
          BY <1>2, <5>2, <5>3, Zenon
      <4> QED
        BY <1>11, <4>1, Zenon DEF AllMatch, w
    <3>4. Has(h, s, X, c)'
      <4>1. \A k \in 1 .. c : k \in 1 .. n /\ k \in 1 .. j
        BY <3>3
      <4>2. \A k \in 1 .. c : Entry(s, k)' = h.log[X][k]
        BY <2>1, <3>2, <4>1, Zenon
      <4> QED
        BY <1>11, <3>3, <4>2, Zenon DEF Has
    <3>5. ASSUME c = j PROVE TopTerm(s)' >= X
      <4>1. j \in 1 .. j /\ h.log[X][j] = X
        <5>1. h.len[X] \in Nat /\ j \in 1 .. h.len[X] /\ h.log[X][j] = X
          BY ContextFacts, HistoryFacts, Zenon DEF Choosable, Created
        <5> QED
          BY <5>1
      <4>2. n \in 1 .. h.len[T] /\ j \in 1 .. n /\ n \in 1 .. n
        BY <1>2, <2>4, <3>3, <3>5, <4>1
      <4>3. h.log[T][j] = X /\ h.log[T][j] =< h.log[T][n]
        BY <1>1, <3>2, <4>1, <4>2, ContextFacts, LogsAscend, Zenon
      <4>4. TopTerm(s)' = h.log[T][n] /\ h.log[T][n] \in Nat
        <5>1. TopTerm(s)' = Entry(s, n)'
          BY <1>11, Zenon DEF TopTerm
        <5> QED
          BY <1>1, <2>1, <4>2, <5>1, ContextFacts, HistoryFacts, Zenon
      <4> QED
        BY <4>3, <4>4, Zenon
    <3> QED
      BY <3>4, <3>5, Zenon
  <2> QED
    BY <1>4, <1>11, <2>3, <2>4, <2>5, Zenon DEF T
<1> QED
  BY <1>4, <1>10, <1>11, Zenon

\* The history after follower s confirmed the log of term T up to n.
Acks(h, g, s, T, n) ==
    /\ g \in History /\ g.led = h.led
    /\ \A X \in Nat :
          /\ g.leader[X] = h.leader[X] /\ g.voters[X] = h.voters[X]
          /\ g.log[X] = h.log[X] /\ g.len[X] = h.len[X]
    /\ \A X \in Nat, p \in Server :
          g.acked[X][p] = IF X = T /\ p = s THEN n ELSE h.acked[X][p]

LEMMA AckExists ==
    ASSUME NEW h \in History, NEW s \in Server, NEW T \in h.led, NEW n \in Nat
    PROVE  \E g : Acks(h, g, s, T, n)
<1>1. /\ T \in Nat /\ h.leader[T] \in Server /\ h.voters[T] \in SUBSET Server
      /\ h.log[T] \in [Nat -> Nat] /\ h.len[T] \in Nat /\ h.acked[T] \in [Server -> Nat]
  BY Zenon DEF History
<1> DEFINE a == [h.acked[T] EXCEPT ![s] = n]
<1>2. /\ a \in [Server -> Nat]
      /\ \A p \in Server : a[p] = IF p = s THEN n ELSE h.acked[T][p]
  BY <1>1, Zenon
<1> HIDE DEF a
<1>3. PICK g \in History :
          DiffersIn(T, h, g, h.leader[T], h.voters[T], h.log[T], h.len[T], a)
  BY <1>1, <1>2, OtherHistory, Zenon
<1>4. g.led = h.led
  BY <1>3, Zenon DEF DiffersIn
<1>5. Acks(h, g, s, T, n)
  BY <1>2, <1>3, <1>4, Zenon DEF Acks, DiffersIn
<1> QED
  BY <1>5, Zenon

LEMMA AckHistory ==
    ASSUME NEW h, Lineage(h), NEW s \in Server, NEW T \in h.led, NEW n \in Nat,
           n =< h.len[T], n > h.acked[T][s], NEW g, Acks(h, g, s, T, n),
           currentTerm[s] =< T, currentTerm'[s] = T
    PROVE  /\ Grows(h, g) /\ Lineage(g) /\ FreshStep(h, g) /\ ElectStep(h, g)
           /\ \A p \in Server, X, i \in Nat :
                 Created(g, X, i) /\ g.acked[X][p] >= i /\ ~(h.acked[X][p] >= i) =>
                     p = s /\ X = T /\ i =< n
<1>1. /\ T \in Nat /\ h \in History
      /\ \A X \in Nat : h.len[X] \in Nat
      /\ \A X \in Nat, p \in Server : h.acked[X][p] \in Nat /\ h.acked[X][p] =< h.len[X]
  BY HistoryFacts, Zenon DEF Lineage
<1>2. /\ g \in History /\ g.led = h.led
      /\ \A X \in Nat :
            /\ g.leader[X] = h.leader[X] /\ g.voters[X] = h.voters[X]
            /\ g.log[X] = h.log[X] /\ g.len[X] = h.len[X]
      /\ \A X \in Nat, p \in Server :
            g.acked[X][p] = IF X = T /\ p = s THEN n ELSE h.acked[X][p]
  BY Zenon DEF Acks
<1>3. Grows(h, g)
  <2>1. ASSUME NEW X \in Nat, NEW p \in Server
        PROVE  /\ g.acked[X][p] >= h.acked[X][p]
               /\ g.acked[X][p] > h.acked[X][p] => currentTerm[p] =< X /\ currentTerm'[p] = X
    <3>1. CASE X = T /\ p = s
      BY <1>1, <1>2, <3>1
    <3>2. CASE ~(X = T /\ p = s)
      <4>1. g.acked[X][p] = h.acked[X][p] /\ h.acked[X][p] \in Nat
        BY <1>1, <1>2, <3>2, Zenon
      <4> QED
        BY <4>1
    <3> QED
      BY <3>1, <3>2, Zenon
  <2>2. \A X \in Nat : h.len[X] =< g.len[X]
    BY <1>1, <1>2
  <2>3. \A X \in h.led : X \in Nat
    BY <1>1, HistoryFacts, Zenon
  <2> QED
    BY <1>2, <2>1, <2>2, <2>3, Zenon DEF Grows
<1>4. Lineage(g)
  <2>1. ASSUME NEW X \in Nat, NEW i \in 1 .. g.len[X]
        PROVE  g.log[X][i] \in g.led /\ g.log[X][i] =< X /\ Extends(g, g.log[X][i], X, i)
    <3> DEFINE e == h.log[X][i]
    <3>1. i \in 1 .. h.len[X] /\ g.log[X][i] = e
      BY <1>2, Zenon
    <3>2. e \in h.led /\ e =< X /\ Extends(h, e, X, i)
      BY <3>1, Zenon DEF Lineage
    <3>3. i \in Nat /\ i =< h.len[X] /\ e \in Nat
      BY <1>1, <3>1, <3>2, HistoryFacts
    <3> HIDE DEF e
    <3>4. Extends(g, e, X, i)
      BY <1>3, <3>2, <3>3, GrowsKeeps, Zenon
    <3> QED
      BY <1>2, <3>1, <3>2, <3>4, Zenon
  <2>2. \A X \in Nat \ g.led : g.len[X] = 0
    BY <1>2, Zenon DEF Lineage
  <2>3. \A X \in Nat, p \in Server : g.acked[X][p] =< g.len[X]
    BY <1>1, <1>2
  <2> QED
    BY <1>2, <2>1, <2>2, <2>3, Zenon DEF Lineage
<1>5. \A X, i \in Nat : Created(g, X, i) => Created(h, X, i)
  BY <1>2, Zenon DEF Created
<1>6. FreshStep(h, g) /\ ElectStep(h, g)
  BY <1>2, <1>5, Zenon DEF FreshStep, ElectStep
<1>7. ASSUME NEW p \in Server, NEW X \in Nat, NEW i \in Nat,
             g.acked[X][p] >= i, ~(h.acked[X][p] >= i)
      PROVE  p = s /\ X = T /\ i =< n
  <2>1. p = s /\ X = T
    BY <1>2, <1>7, Zenon
  <2> QED
    BY <1>2, <1>7, <2>1, Zenon
<1> QED
  BY <1>3, <1>4, <1>6, <1>7, Zenon

\* What the follower has is a log that its term's leader sent it, whichever
\* history is used from here on.
LEMMA AcceptedPeer ==
    ASSUME NEW h, StepContext(h), NEW g, Grows(h, g), NEW s \in Server, NEW T \in h.led,
           currentTerm'[s] = T, NEW n \in Nat, n =< h.len[T], Has(h, s, T, n)',
           SameLog(s) \/ (Last(s)' = n /\ n > 0)
    PROVE  PeerLog(g, s)'
<1>1. logs'[s].base \in Nat /\ T \in Nat /\ h.len[T] \in Nat
  BY ContextFacts, HistoryFacts, Zenon DEF LogShape
<1>2. CASE SameLog(s)
  BY <1>1, <1>2, ContextFacts, SameLogPeer, Zenon DEF PeerInv
<1>3. CASE Last(s)' = n /\ n > 0
  <2> DEFINE e == h.log[T][n]
  <2>1. n \in 1 .. h.len[T] /\ n \in 1 .. n
    BY <1>1, <1>3
  <2>2. e \in h.led /\ e =< T /\ Extends(h, e, T, n) /\ e \in Nat
    BY <1>1, <2>1, ContextFacts, HistoryFacts, Zenon DEF Lineage
  <2> HIDE DEF e
  <2>3. n =< h.len[e] /\ h.len[e] \in Nat /\ \A k \in 1 .. n : h.log[e][k] = h.log[T][k]
    BY <2>2, ContextFacts, HistoryFacts, Zenon DEF Extends
  <2>4. Created(h, e, n)
    <3>1. n \in 1 .. h.len[e] /\ h.log[e][n] = e
      BY <2>1, <2>3 DEF e
    <3> QED
      BY <2>2, <3>1, Zenon DEF Created
  <2>5. Created(g, e, n)
    BY <2>2, <2>4, ContextFacts, GrowsKeeps, Zenon
  <2>6. \A k \in 1 .. n : Entry(s, k)' = h.log[T][k]
    BY Zenon DEF Has
  <2>7. TopTerm(s)' = e
    <3>1. TopTerm(s)' = Entry(s, n)'
      BY <1>3, Zenon DEF TopTerm
    <3> QED
      BY <2>1, <2>6, <3>1, Zenon DEF e
  <2>8. ASSUME NEW k \in (logs'[s].base + 1) .. n PROVE Entry(s, k)' = g.log[e][k]
    <3>1. k \in 1 .. n /\ k \in 1 .. h.len[e]
      BY <1>1, <2>3
    <3>2. g.log[e][k] = h.log[e][k]
      BY <2>2, <3>1, Zenon DEF Grows
    <3> QED
      BY <2>3, <2>6, <3>1, <3>2, Zenon
  <2> QED
    BY <1>3, <2>2, <2>5, <2>7, <2>8, Zenon DEF PeerLog
<1> QED
  BY <1>2, <1>3, Zenon

LEMMA AcceptedCommit ==
    ASSUME NEW h, StepContext(h), NEW g, Grows(h, g), NEW s \in Server,
           NEW m \in AppendEntriesArgs, AppendEntriesOK(h, m), AppendAccepted(s, m),
           currentTerm'[s] = m.term, Has(h, s, m.term, m.prevLogIndex + Len(m.entries))'
    PROVE  CommitStep(g)
<1> DEFINE l == Merge(logs[s], m.prevLogIndex, m.entries)
           c == m.leaderCommit
           T == m.term
<1>1. /\ logs' = [logs EXCEPT ![s] = l]
      /\ commitIndex' = [commitIndex EXCEPT ![s] =
             IF (IF c < LastIndex(l) THEN c ELSE LastIndex(l)) > commitIndex[s]
             THEN (IF c < LastIndex(l) THEN c ELSE LastIndex(l)) ELSE commitIndex[s]]
  BY Zenon DEF AppendAccepted, Set
<1>2. logs \in [Server -> Log] /\ commitIndex \in [Server -> Nat]
  BY ContextFacts, Zenon DEF TypeOK
<1>3. logs'[s] = l /\ Last(s)' = LastIndex(l)
  BY <1>1, <1>2, Zenon DEF Last
<1> HIDE DEF l
<1>4. Last(s)' \in Nat /\ c \in Nat /\ T \in Nat
  BY ContextFacts, Zenon DEF LogShape, AppendEntriesArgs
<1>5. PICK n \in Nat : n = m.prevLogIndex + Len(m.entries)
  BY SeqLength DEF AppendEntriesArgs
<1>6. c =< n /\ T \in h.led /\ Decided(h, T, c) /\ n =< h.len[T]
  BY <1>5, Zenon DEF AppendEntriesOK
<1>7. n =< Last(s)' /\ \A k \in 1 .. n : Entry(s, k)' = h.log[T][k]
  BY <1>5, Zenon DEF Has
<1>8. c =< Last(s)' /\ LastIndex(l) \in Nat /\ c =< LastIndex(l)
  BY <1>3, <1>4, <1>5, <1>6, <1>7
<1>9. (IF c < LastIndex(l) THEN c ELSE LastIndex(l)) = c
  BY <1>4, <1>8
<1>10. /\ commitIndex'[s] = IF c > commitIndex[s] THEN c ELSE commitIndex[s]
       /\ \A p \in Server \ {s} : commitIndex'[p] = commitIndex[p]
  BY <1>1, <1>2, <1>9, Zenon
<1>11. \A p \in Server : commitIndex[p] \in Nat
  BY <1>2, Zenon
<1>12. \A p \in Server \ {s} : commitIndex'[p] =< commitIndex[p]
  BY <1>10, <1>11
<1>13. CASE ~(c > commitIndex[s])
  <2>1. commitIndex'[s] =< commitIndex[s]
    BY <1>10, <1>11, <1>13
  <2> QED
    BY <1>12, <2>1, Zenon DEF CommitStep
<1>14. CASE c > commitIndex[s]
  <2>1. c > 0 /\ commitIndex'[s] = c
    BY <1>4, <1>10, <1>11, <1>14
  <2>2. PICK U, j \in Nat : U =< T /\ c =< j /\ Chosen(h, U, j)
    BY <1>6, <2>1, Zenon DEF Decided
  <2>3. Extends(h, T, U, j) /\ j =< h.len[U] /\ h.len[U] \in Nat
    <3>1. /\ Choosable(h, U, j) /\ U \in Nat /\ U =< T /\ j \in 1 .. h.len[U]
      BY <2>2, ContextFacts, ChosenFacts, Zenon
    <3>2. Extends(h, T, U, j) /\ h.len[U] \in Nat
      BY <1>6, <3>1, ContextFacts, HistoryFacts, LaterExtends, Zenon
    <3> QED
      BY <3>1, <3>2
  <2>4. PICK q \in Nat : q = c
    BY <1>4, Zenon
  <2>5. \A k \in 1 .. q : Entry(s, k)' = h.log[U][k]
    <3>1. \A k \in 1 .. q : k \in 1 .. n /\ k \in 1 .. j
      BY <1>5, <1>6, <2>2, <2>4
    <3> QED
      BY <1>7, <2>3, <3>1, Zenon DEF Extends
  <2>6. Has(h, s, U, q)'
    <3>1. q =< Last(s)'
      BY <1>8, <2>4, Zenon
    <3> QED
      BY <2>5, <3>1, Zenon DEF Has
  <2>7. q =< h.len[U]
    BY <2>2, <2>3, <2>4
  <2>8. Has(g, s, U, q)' /\ Chosen(g, U, j)
    BY <2>2, <2>6, <2>7, ContextFacts, HasGrows, GrowsKeeps, Zenon
  <2>9. PeerDecided(g, s, q)'
    <3>1. U =< currentTerm'[s] /\ q =< j
      BY <2>2, <2>4, Zenon
    <3> QED
      BY <2>8, <3>1, Zenon DEF PeerDecided
  <2>10. commitIndex'[s] =< Last(s)' /\ PeerDecided(g, s, commitIndex[s])'
    BY <1>8, <2>1, <2>4, <2>9, Zenon
  <2> QED
    BY <1>12, <2>10, Zenon DEF CommitStep
<1> QED
  BY <1>13, <1>14, Zenon

\* Confirming a log safely, in whichever history.
LEMMA AcceptedStep ==
    ASSUME NEW h, StepContext(h), NEW s \in Server, NEW m \in AppendEntriesArgs,
           AppendEntriesOK(h, m), AppendAccepted(s, m), m.term >= currentTerm[s],
           AdoptTerm(s, m.term), BecomeFollower(s), UNCHANGED <<matchIndex, applyCh>>,
           NEW g, Grows(h, g), Lineage(g), FreshStep(h, g), ElectStep(h, g), AckStep(h, g),
           \A X \in Nat : g.len[X] = h.len[X],
           NEW n \in Nat, n = m.prevLogIndex + Len(m.entries),
           n =< g.acked[m.term][s] \/ Decided(g, m.term, n), m.to = s
    PROVE  SafeStep(h, g)
<1>1. Retires(s)
  BY ContextFacts, FollowerRetires, Zenon
<1>2. currentTerm'[s] = m.term /\ m.term \in h.led /\ n =< h.len[m.term]
  BY ContextFacts, Zenon DEF AdoptTerm, Set, TypeOK, AppendEntriesOK
<1>3. /\ Has(h, s, m.term, n)' /\ Keeps(h, s) /\ OthersKeepLogs(s)
      /\ SameLog(s) \/ (Last(s)' = n /\ n > 0)
  BY <1>2, AcceptedLog, Zenon
<1>4. PeerLog(g, s)'
  BY <1>2, <1>3, AcceptedPeer, Zenon
<1>5. KeepStep(h) /\ PeerInv(g)'
  BY <1>3, <1>4, OneLogChanges, Zenon
<1>6. CommitStep(g) /\ ApplyStep(g)
  BY <1>2, <1>3, AcceptedCommit, AppliesKept, Zenon
<1> DEFINE r == AppendReply(m, m.term, TRUE, 0, 0)
<1>7. Deliver(m, {r}) /\ ~Granted(r)
  BY Zenon DEF AppendAccepted, AppendReply, Granted
<1>8. OfficeKept /\ BallotsKept
  <2>1. NoNewGrant
    BY <1>7, DeliverGrantsNothing, Zenon
  <2> QED
    BY <1>1, <2>1, ContextFacts, RetireQuietly, Zenon
<1>9. SendStep(g)
  <2>1. /\ r.type = "AppendEntriesReply" /\ r.from = s /\ r.term = m.term
        /\ r.prevLogIndex + r.numEntries = n
    BY Zenon DEF AppendReply
  <2> HIDE DEF r
  <2>2. MessageOK(g, r)'
    BY <2>1, Zenon DEF MessageOK
  <2> QED
    BY <1>7, <2>2, DeliverSends, Zenon
<1>10. BallotStep(h) /\ RoleStep
  BY <1>8, ContextFacts, KeptBallots, Zenon
<1>11. LeaderInv(g)'
  <2> SUFFICES ASSUME NEW p \in Server, state'[p] = "Leader"
               PROVE  Leads(g, p, currentTerm[p])'
    BY Zenon DEF LeaderInv
  <2>1. PICK X \in Nat : X = currentTerm[p]
    BY ContextFacts, Zenon DEF TypeOK
  <2>2. Leads(h, p, X) /\ currentTerm'[p] = X /\ matchIndex'[p] = matchIndex[p]
    BY <1>8, <2>1, ContextFacts, Zenon DEF LeaderInv, OfficeKept
  <2>3. SameLog(p)
    BY <1>1, <1>3, ContextFacts, Zenon DEF Retires, TypeOK, OthersKeepLogs
  <2>4. Leads(g, p, X)'
    BY <2>2, <2>3, ContextFacts, SameLogLeads, Zenon
  <2> QED
    BY <2>2, <2>4, Zenon
<1> QED
  BY <1>5, <1>6, <1>9, <1>10, <1>11, Zenon DEF SafeStep

\* What a follower confirms it holds.
LEMMA AcceptedHolds ==
    ASSUME NEW h, StepContext(h), NEW s \in Server, NEW T \in h.led, NEW n \in Nat,
           n =< h.len[T], n > logs[s].base, Has(h, s, T, n)',
           SameLog(s) \/ (Last(s)' = n /\ n > 0), NEW i \in Nat, i =< n, Created(h, T, i)
    PROVE  Has(h, s, T, i)' /\ TopTerm(s)' >= T
<1>1. /\ T \in Nat /\ h.len[T] \in Nat /\ i \in 1 .. h.len[T] /\ h.log[T][i] = T
      /\ Last(s)' \in Nat /\ Last(s) \in Nat /\ logs[s].base \in Nat /\ TopTerm(s)' \in Nat
  BY ContextFacts, HistoryFacts, Zenon DEF Created, LogShape
<1>2. n =< Last(s)' /\ \A k \in 1 .. n : Entry(s, k)' = h.log[T][k]
  BY Zenon DEF Has
<1>3. Has(h, s, T, i)'
  <2>1. i =< Last(s)' /\ \A k \in 1 .. i : k \in 1 .. n
    BY <1>1, <1>2
  <2> QED
    BY <1>2, <2>1, Zenon DEF Has
<1>4. Entry(s, n)' = h.log[T][n] /\ h.log[T][n] \in Nat /\ T =< h.log[T][n]
  <2>1. n \in 1 .. h.len[T] /\ i \in 1 .. n /\ n \in 1 .. n
    BY <1>1
  <2> QED
    BY <1>1, <1>2, <2>1, ContextFacts, HistoryFacts, LogsAscend, Zenon
<1>5. CASE Last(s)' = n
  <2>1. TopTerm(s)' = Entry(s, n)'
    BY <1>5, Zenon DEF TopTerm
  <2> QED
    BY <1>1, <1>3, <1>4, <2>1, Zenon
<1>6. CASE SameLog(s)
  <2>1. n \in (logs[s].base + 1) .. Last(s) /\ n \in 0 .. Last(s)
    <3>1. Last(s)' = Last(s) /\ n =< Last(s)'
      BY <1>2, <1>6, Zenon DEF SameLog
    <3> QED
      BY <1>1, <3>1
  <2>2. Entry(s, n) =< TopTerm(s)
    BY <2>1, ContextFacts, TailTerms, Zenon
  <2>3. Entry(s, n)' = Entry(s, n) /\ TopTerm(s)' = TopTerm(s)
    BY <1>6, <2>1, Zenon DEF SameLog
  <2> QED
    BY <1>1, <1>3, <1>4, <2>2, <2>3
<1> QED
  BY <1>5, <1>6, Zenon

LEMMA AcceptedSafe ==
    ASSUME NEW h, StepContext(h), NEW s \in Server, NEW m \in AppendEntriesArgs,
           AppendEntriesOK(h, m), AppendAccepted(s, m), m.term >= currentTerm[s],
           AdoptTerm(s, m.term), BecomeFollower(s), UNCHANGED <<matchIndex, applyCh>>, m.to = s
    PROVE  \E g : SafeStep(h, g)
<1>1. PICK n \in Nat : n = m.prevLogIndex + Len(m.entries)
  BY SeqLength DEF AppendEntriesArgs
<1>2. PICK T \in h.led : T = m.term /\ n =< h.len[T]
  BY <1>1, Zenon DEF AppendEntriesOK
<1>3. /\ T \in Nat /\ h.acked[T][s] \in Nat /\ h.len[T] \in Nat
      /\ logs[s].base \in Nat /\ currentTerm[s] \in Nat
  BY ContextFacts, HistoryFacts, Zenon DEF LogShape
<1>4. currentTerm'[s] = T /\ currentTerm[s] =< T
  BY <1>2, <1>3, ContextFacts, Zenon DEF AdoptTerm, Set, TypeOK
<1>5. CASE n =< h.acked[T][s] \/ Decided(h, T, n)
  <2>1. Grows(h, h) /\ FreshStep(h, h) /\ ElectStep(h, h) /\ AckStep(h, h) /\ Lineage(h)
    BY ContextFacts, SameHistory, Zenon
  <2>2. SafeStep(h, h)
    BY <1>1, <1>2, <1>5, <2>1, AcceptedStep, Zenon
  <2> QED
    BY <2>2, Zenon
<1>6. CASE n > h.acked[T][s] /\ n > logs[s].base
  <2>1. PICK g : Acks(h, g, s, T, n)
    BY ContextFacts, AckExists, Zenon
  <2>2. /\ Grows(h, g) /\ Lineage(g) /\ FreshStep(h, g) /\ ElectStep(h, g)
        /\ \A p \in Server, X, i \in Nat :
              Created(g, X, i) /\ g.acked[X][p] >= i /\ ~(h.acked[X][p] >= i) =>
                  p = s /\ X = T /\ i =< n
    BY <1>2, <1>4, <1>6, <2>1, ContextFacts, AckHistory, ZenonT(30)
  <2>3. /\ g.led = h.led /\ g.acked[T][s] = n
        /\ \A X \in Nat : g.len[X] = h.len[X] /\ g.log[X] = h.log[X]
    BY <1>3, <2>1, Zenon DEF Acks
  <2>4. n =< g.acked[T][s]
    BY <2>3
  <2>5. /\ Has(h, s, T, n)'
        /\ SameLog(s) \/ (Last(s)' = n /\ n > 0)
    BY <1>1, <1>2, <1>4, AcceptedLog, Zenon
  <2>6. ASSUME NEW i \in Nat, i =< n, Created(g, T, i) PROVE Holds(g, s, T, i)'
    <3>1. Created(h, T, i)
      BY <1>3, <2>3, <2>6, Zenon DEF Created
    <3>2. Has(h, s, T, i)' /\ TopTerm(s)' >= T
      BY <1>2, <1>6, <2>5, <2>6, <3>1, AcceptedHolds, Zenon
    <3>3. i =< h.len[T]
      BY <1>2, <1>3, <2>6
    <3>4. Has(g, s, T, i)'
      BY <1>3, <2>2, <3>2, <3>3, ContextFacts, HasGrows, Zenon
    <3> QED
      BY <3>2, <3>4, Zenon DEF Holds
  <2>7. AckStep(h, g)
    BY <2>2, <2>6, Zenon DEF AckStep
  <2>8. SafeStep(h, g)
    BY <1>1, <1>2, <2>2, <2>3, <2>4, <2>7, AcceptedStep, Zenon
  <2> QED
    BY <2>8, Zenon
<1>7. CASE n =< logs[s].base
  <2>1. Decided(h, T, n)
    <3> SUFFICES ASSUME n > 0
                 PROVE  \E U, j \in Nat : U =< T /\ n =< j /\ Chosen(h, U, j)
      BY Zenon DEF Decided
    <3>1. PICK U, j \in Nat : U =< currentTerm[s] /\ logs[s].base =< j /\ Chosen(h, U, j)
      <4>1. logs[s].base > 0
        BY <1>3, <1>7
      <4> QED
        BY <4>1, ContextFacts, CommittedPrefix, Zenon
    <3>2. U =< T /\ n =< j
      BY <1>3, <1>4, <1>7, <3>1
    <3> QED
      BY <3>1, <3>2, Zenon
  <2> QED
    BY <1>5, <2>1, Zenon
<1> QED
  BY <1>3, <1>5, <1>6, <1>7

LEMMA AppendEntriesSafe ==
    ASSUME NEW h, StepContext(h), NEW s \in Server, NEW m \in net, AppendEntries(s, m)
    PROVE  \E g : SafeStep(h, g)
<1>1. /\ m.type = "AppendEntries" /\ m.to = s /\ UNCHANGED <<matchIndex, applyCh>>
  BY Zenon DEF AppendEntries
<1>2. m \in AppendEntriesArgs /\ AppendEntriesOK(h, m)
  BY <1>1, ContextFacts, MessageKind, Zenon DEF TypeOK, MessageInv, MessageOK
<1>3. ASSUME NEW t, NEW i, NEW c, Deliver(m, {AppendReply(m, t, FALSE, i, c)})
      PROVE  NoNewGrant /\ SendStep(h)
  <2> DEFINE r == AppendReply(m, t, FALSE, i, c)
  <2>1. r.type = "AppendEntriesReply" /\ r.success = FALSE /\ ~Granted(r)
    BY Zenon DEF AppendReply, Granted
  <2> HIDE DEF r
  <2>2. MessageOK(h, r)'
    BY <2>1, Zenon DEF MessageOK
  <2>3. Deliver(m, {r})
    BY <1>3, Zenon DEF r
  <2> QED
    BY <2>1, <2>2, <2>3, DeliverGrantsNothing, DeliverSends, Zenon
<1>4. CASE /\ Deliver(m, {AppendReply(m, currentTerm[s], FALSE, 0, 0)})
           /\ UNCHANGED <<persistent, state, votes, disk, commitIndex>>
  <2>1. SafeStep(h, h)
    BY <1>1, <1>3, <1>4, NothingButNet, Zenon DEF RolesKept, persistent
  <2> QED
    BY <2>1, Zenon
<1>5. CASE /\ m.term >= currentTerm[s] /\ AdoptTerm(s, m.term) /\ BecomeFollower(s)
           /\ AppendRejected(s, m)
  <2>1. /\ UNCHANGED <<logs, commitIndex>> /\ PersistIf(m.term > currentTerm[s], s)
        /\ NoNewGrant /\ SendStep(h)
    BY <1>3, <1>5, Zenon DEF AppendRejected
  <2>2. AllKeepLogs
    <3>1. \A p \in Server : disk'[p].snapshot = disk[p].snapshot
      BY <2>1, ContextFacts, PersistLogs, Zenon
    <3> QED
      BY <2>1, <3>1, ContextFacts, UnchangedLogs, Zenon
  <2>3. OfficeKept /\ BallotsKept
    <3>1. Retires(s)
      BY <1>1, <1>5, ContextFacts, FollowerRetires, Zenon
    <3> QED
      BY <2>1, <3>1, ContextFacts, RetireQuietly, Zenon
  <2>4. CommitStep(h) /\ ApplyStep(h)
    BY <1>1, <2>1, ContextFacts, CommitsKept, AppliesKept, Zenon
  <2>5. SafeStep(h, h)
    BY <2>1, <2>2, <2>3, <2>4, QuietSafe, Zenon
  <2> QED
    BY <2>5, Zenon
<1>6. CASE /\ m.term >= currentTerm[s] /\ AdoptTerm(s, m.term) /\ BecomeFollower(s)
           /\ AppendAccepted(s, m)
  BY <1>1, <1>2, <1>6, AcceptedSafe, Zenon
<1> QED
  BY <1>4, <1>5, <1>6, Zenon DEF AppendEntries
=============================================================================
