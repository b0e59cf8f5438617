------------------------------ MODULE KvModel ------------------------------
(***************************************************************************)
(* The key/value store that the tests hand to the linearizability checker  *)
(* (src/src/models/kv.go), and what it means for a history of operations   *)
(* on such a store to be linearizable.  A string is a sequence of letters. *)
(* An operation is a record of its input, its output and the times of its  *)
(* call and its return.                                                    *)
(***************************************************************************)
EXTENDS Integers, Sequences, FiniteSets, FiniteSetsExt, Functions

-----------------------------------------------------------------------------
(* models/kv.go: one key's value, as Init and Step of KvModel see it. *)

KvInit == <<>>

\* Op 0 is get, 1 put, 2 append, any other an append that returns the old value.
Step(state, o) ==
    CASE o.op = "get" -> [ok |-> o.out = state, state |-> state]
      [] o.op = "put" -> [ok |-> TRUE, state |-> o.value]
      [] o.op = "append" -> [ok |-> TRUE, state |-> state \o o.value]
      [] OTHER -> [ok |-> o.out = state, state |-> state \o o.value]

\* The operations on a key, in the order of the history.
Partition(h) ==
    [k \in {h[i].key : i \in DOMAIN h} |-> SelectSeq(h, LAMBDA o : o.key = k)]

-----------------------------------------------------------------------------
(* The reference: a whole store, all keys at once. *)

Precedes(o1, o2) == o1.return < o2.call

\* The order of a history's operations that pi gives is one in which they
\* could have happened one by one.
RespectsTime(h, pi) ==
    \A i, j \in DOMAIN h : i < j => ~Precedes(h[pi[j]], h[pi[i]])

\* What the last of the operations pi[1], ..., pi[i] on a key leaves there.
ValueAfter(h, pi, i, key) ==
    LET value[j \in 0 .. i] ==
            IF j = 0 THEN <<>>
            ELSE LET o == h[pi[j]] IN
                 CASE o.key # key \/ o.op = "get" -> value[j - 1]
                   [] o.key = key /\ o.op = "put" -> o.value
                   [] OTHER -> value[j - 1] \o o.value
    IN  value[i]

AnswersMatch(h, pi) ==
    \A i \in DOMAIN h :
        LET o == h[pi[i]] IN
        o.op \in {"get", "appendReturning"} => o.out = ValueAfter(h, pi, i - 1, o.key)

Linearizable(h) ==
    \E pi \in Bijection(DOMAIN h, DOMAIN h) : RespectsTime(h, pi) /\ AnswersMatch(h, pi)
=============================================================================
