---------------------------- MODULE CommittedLog ----------------------------
(***************************************************************************)
(* What Raft promises to the services on top of it: all the peers learn    *)
(* the entries of one log, in order.                                       *)
(***************************************************************************)
EXTENDS Naturals, Sequences

CONSTANT Server

VARIABLES
    seen,     \* the entries that each peer knows to be committed
    crashes   \* number of crashes so far

\* s is the beginning of t.
Prefix(s, t) == Len(s) <= Len(t) /\ \A i \in 1 .. Len(s) : s[i] = t[i]

Init == crashes = 0 /\ \A s \in Server : seen[s] = <<>>

\* Peer s learns more, which is what the others know already or learn later.
Learn(s) ==
    /\ seen'[s] # seen[s]
    /\ Prefix(seen[s], seen'[s])
    /\ \A t \in Server : Prefix(seen[t], seen'[s]) \/ Prefix(seen'[s], seen[t])
    /\ UNCHANGED crashes

\* Only a crash makes peer s forget, and what it has left is not another log.
Crash(s) ==
    /\ crashes' = crashes + 1
    /\ Prefix(seen'[s], seen[s])

Next ==
    \E s \in Server :
        /\ Learn(s) \/ Crash(s)
        /\ \A t \in Server \ {s} : seen'[t] = seen[t]

vars == <<seen, crashes>>

Spec == Init /\ [][Next]_vars
=============================================================================
