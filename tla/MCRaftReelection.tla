-------------------------- MODULE MCRaftReelection --------------------------
(* Raft, searched along the executions in which two peers of three take     *)
(* office in turn: odd terms are for one peer and even ones to       *)
(* another, who ask the third for its vote, and the number of entries each  *)
(* term's leader accepts is fixed.                                          *)
EXTENDS MCRaft

CONSTANTS Odd, Even  \* the two peers that campaign

\* Entries accepted per term: two that stay uncommitted, one that replaces
\* them, and one in each of the last two terms.
Quota == <<2, 1, 0, 0, 1, 1>>

Alternating ==
    /\ \A s \in Server : state[s] = "Candidate" =>
          s = IF currentTerm[s] % 2 = 1 THEN Odd ELSE Even
    /\ \A m \in net : m.type = "RequestVote" => m.to \notin {Odd, Even}
    /\ \A s \in Server, t \in 1 .. MaxTerm :
          Cardinality({i \in 2 .. Len(logs[s].terms) : logs[s].terms[i] = t}) =< Quota[t]

=============================================================================
