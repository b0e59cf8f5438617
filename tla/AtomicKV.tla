------------------------------ MODULE AtomicKV ------------------------------
(***************************************************************************)
(* What kvsrv promises to its clerks, for one key: a value that Get, Put   *)
(* and Append read or change in one step, somewhere between the call of    *)
(* the clerk's method and its return.  A value is the sequence of the      *)
(* operations that wrote it: Put starts a new one, Append extends it.      *)
(***************************************************************************)
EXTENDS Sequences, Integers

CONSTANTS Clerk, MaxOps     \* bound: operations of a clerk

Kind == {"Get", "Put", "Append"}
Op == [clerk: Clerk, n: 1 .. MaxOps, kind: Kind]

VARIABLES
    value,      \* the value of the key
    op,         \* op[c]: the operations that clerk c has called, in order
    done,       \* done[c]: how many of them have taken effect
    result,     \* result[c]: the value that the last one called saw
    returned    \* returned[c]: how many have returned

vars == <<value, op, done, result, returned>>

Init ==
    /\ value = <<>>
    /\ op = [c \in Clerk |-> <<>>]
    /\ done = [c \in Clerk |-> 0]
    /\ result = [c \in Clerk |-> <<>>]
    /\ returned = [c \in Clerk |-> 0]

Effect(v, o) ==
    CASE o.kind = "Get" -> v
      [] o.kind = "Put" -> <<o>>
      [] o.kind = "Append" -> Append(v, o)

Call(c) ==
    /\ returned[c] = Len(op[c]) /\ Len(op[c]) < MaxOps
    /\ \E k \in Kind :
          op' = [op EXCEPT ![c] = Append(@, [clerk |-> c, n |-> Len(@) + 1, kind |-> k])]
    /\ result' = [result EXCEPT ![c] = <<>>]
    /\ UNCHANGED <<value, done, returned>>

Act(c) ==
    /\ done[c] < Len(op[c])
    /\ value' = Effect(value, op[c][Len(op[c])])
    /\ result' = [result EXCEPT ![c] = value]
    /\ done' = [done EXCEPT ![c] = @ + 1]
    /\ UNCHANGED <<op, returned>>

Return(c) ==
    /\ returned[c] < done[c]
    /\ returned' = [returned EXCEPT ![c] = @ + 1]
    /\ UNCHANGED <<value, op, done, result>>

Next == \E c \in Clerk : Call(c) \/ Act(c) \/ Return(c)

Spec == Init /\ [][Next]_vars /\ \A c \in Clerk : WF_vars(Act(c)) /\ WF_vars(Return(c))
=============================================================================
