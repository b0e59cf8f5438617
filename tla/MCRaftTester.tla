---------------------------- MODULE MCRaftTester ----------------------------
(* A log of two entries for RaftTester; cfg files have no sequences. *)
EXTENDS RaftTester

\* Once the tester is muddled only SavedIsOwn and ConfigInv say something, and
\* they do not depend on what the test asks or on commands that are wrong.
MuddledOnlyRestarts ==
    Muddled => wrong = 0 /\ thread.op \in {"idle", "copy", "kill", "reset", "make"}

MCChosen == <<1, 2>>
=============================================================================
