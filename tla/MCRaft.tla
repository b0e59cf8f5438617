------------------------------- MODULE MCRaft -------------------------------
(* Raft on small clusters: the peers are model values and interchangeable. *)
EXTENDS RaftPromise, TLC

Symmetry == Permutations(Server)

\* The caller of m waits no more: it would ignore a reply.
Abandoned(caller, term, role) == currentTerm[caller] # term \/ state[caller] # role

\* A message whose delivery changes nothing, now or later.  A behaviour with
\* such a message has a twin in which the network loses it instead, so the
\* search need not continue from states that hold one.
Futile(m) ==
    CASE m.type = "RequestVoteReply" -> Abandoned(m.to, m.term, "Candidate")
      [] IsReply(m) /\ m.type # "RequestVoteReply" -> Abandoned(m.to, m.term, "Leader")
      [] m.type = "RequestVote" ->
            DeniesVote(m.to, m) /\ Abandoned(m.from, m.term, "Candidate")
      [] OTHER -> m.term < currentTerm[m.to] /\ Abandoned(m.from, m.term, "Leader")

NoFutileMessage == \A m \in net : ~Futile(m)

\* Once a leader trusts a used matchIndex nothing is claimed of the logs.
NoStaleMatch == ~staleMatch

\* After a crash two calls are in flight only if they can overtake each other: they
\* are for the same peer.  Before it there may be any two.
OvertakingOnly == restarts > 0 => \A m, n \in net : m.to = n.to

\* Not every peer has a snapshot: once all do, nobody refers to what it replaced.
\* Once one has, some peer's log ends where it begins: it is empty, as before an
\* InstallSnapshot, or there is nothing after the snapshot.  The third term is for
\* clusters without any, one of whose peers has received no entry yet.
Combined ==
    /\ \E s \in Server : logs[s].base = 0
    /\ (\E s \in Server : logs[s].base > 0) =>
           \E s \in Server : LastIndex(logs[s]) = logs[s].base
    /\ (\E s \in Server : currentTerm[s] = 3) =>
           /\ \A s \in Server : logs[s].base = 0
           /\ \E s \in Server : LastIndex(logs[s]) = 0

=============================================================================
