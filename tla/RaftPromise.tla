---------------------------- MODULE RaftPromise -----------------------------
(***************************************************************************)
(* What a cluster of Raft peers promises: the log that its services read   *)
(* is the one of CommittedLog.                                             *)
(***************************************************************************)
EXTENDS Raft

\* What a peer knows to be committed, snapshots included.
Seen(s) == IF commitIndex[s] = 0 THEN <<>> ELSE SubSeq(FullLog(s), 1, commitIndex[s])

Promise == INSTANCE CommittedLog WITH
    seen <- [s \in Server |-> Seen(s)], crashes <- restarts

\* Raft implements one log that all its peers learn in order.  A step lets at
\* most one peer know more; what it knew stays as it was, through snapshots,
\* conflicts and requests out of order; and no two peers commit different
\* entries at an index (config.go:504, "committed values do not match"), as long
\* as no leader trusts a matchIndex left over from an earlier term of office.
ImplementsCommittedLog == Promise!Spec

=============================================================================
