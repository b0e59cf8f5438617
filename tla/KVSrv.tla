-------------------------------- MODULE KVSrv --------------------------------
(***************************************************************************)
(* The key/value server of src/src/kvsrv and its clerks, for one key, over *)
(* labrpc.  A clerk repeats a call until it succeeds, and then repeats a   *)
(* confirmation that lets the server forget the operation.  The server     *)
(* remembers the result of every operation it has not been told to forget. *)
(*                                                                         *)
(* A handler takes the lock twice: to look for a remembered result, and to *)
(* do the operation.  labrpc runs it once per call.  A call fails because  *)
(* it was lost or because its reply was lost: the harness of kvsrv never   *)
(* disables a connection, so no call fails while its handler is at work.   *)
(***************************************************************************)
EXTENDS Integers, Sequences

CONSTANTS
    Clerk,
    MaxOps,        \* bound: operations of a clerk
    MaxFailures    \* bound: calls that fail

ASSUME BoundAssumption == MaxOps \in Nat /\ MaxFailures \in Nat

VARIABLES
    kvMap,      \* the value of the key: the operations that wrote it
    status,     \* remembered results, by operation (its Id)
    calls,      \* calls that the server has, or will have, or has had
    op,         \* op[c]: the operations of clerk c so far
    phase,      \* phase[c]: "idle", "request" or "confirm"
    reply,      \* reply[c]: reply.Value, <<>> for the empty string
    failures

vars == <<kvMap, status, calls, op, phase, reply, failures>>

Kind == {"Get", "Put", "Append"}
Op == [clerk: Clerk, n: 1 .. MaxOps, kind: Kind]

\* A call.  Its handler is going to look for a result ("check"), to do the
\* operation ("act") or to return val ("answer").
CallRec == [op: Op, confirm: BOOLEAN, step: {"check", "act", "answer"},
            val: Seq(Op)]

Current(c) == op[c][Len(op[c])]

TypeOK ==
    /\ kvMap \in Seq(Op)
    /\ DOMAIN status \subseteq Op /\ \A o \in DOMAIN status : status[o] \in Seq(Op)
    /\ calls \subseteq CallRec
    /\ \A m, k \in calls : m.op.clerk = k.op.clerk => m = k
    /\ op \in [Clerk -> Seq(Op)]
    /\ phase \in [Clerk -> {"idle", "request", "confirm"}]
    /\ reply \in [Clerk -> Seq(Op)]
    /\ failures \in Nat

Init ==
    /\ kvMap = <<>> /\ status = <<>> /\ calls = {}
    /\ op = [c \in Clerk |-> <<>>]
    /\ phase = [c \in Clerk |-> "idle"]
    /\ reply = [c \in Clerk |-> <<>>]
    /\ failures = 0

-----------------------------------------------------------------------------
(* Clerks. *)

\* Get, Put or Append is called: fresh arguments, with a fresh Id.
Begin(c) ==
    /\ phase[c] = "idle" /\ Len(op[c]) < MaxOps
    /\ \E k \in Kind :
          op' = [op EXCEPT ![c] = Append(@, [clerk |-> c, n |-> Len(@) + 1, kind |-> k])]
    /\ phase' = [phase EXCEPT ![c] = "request"]
    /\ reply' = [reply EXCEPT ![c] = <<>>]
    /\ UNCHANGED <<kvMap, status, calls, failures>>

\* The loops around Call: one call at a time, until it succeeds.
Call(c) ==
    /\ phase[c] # "idle"
    /\ ~\E m \in calls : m.op.clerk = c
    /\ calls' = calls \cup {[op |-> Current(c), confirm |-> phase[c] = "confirm",
                             step |-> "check", val |-> <<>>]}
    /\ UNCHANGED <<kvMap, status, op, phase, reply, failures>>

\* The encoder leaves out fields that are zero, so that decoding an empty Value
\* leaves the one that is there.
Decode(old, val) == IF val = <<>> THEN old ELSE val

Succeed(m) ==
    LET c == m.op.clerk IN
    /\ m.step = "answer"
    /\ calls' = calls \ {m}
    /\ reply' = [reply EXCEPT ![c] = Decode(@, m.val)]
    /\ phase' = [phase EXCEPT ![c] = IF m.confirm THEN "idle" ELSE "confirm"]
    /\ UNCHANGED <<kvMap, status, op, failures>>

-----------------------------------------------------------------------------
(* Handlers. *)

Goes(m, step, val) == calls' = (calls \ {m}) \cup {[m EXCEPT !.step = step, !.val = val]}

Without(f, o) == [x \in DOMAIN f \ {o} |-> f[x]]
With(f, o, v) == [x \in DOMAIN f \cup {o} |-> IF x = o THEN v ELSE f[x]]

\* Mutant: a confirmation leaves the result where it is.
CheckAndKeep(m) ==
    /\ m.step = "check"
    /\ \/ m.confirm /\ Goes(m, "answer", <<>>)
       \/ /\ ~m.confirm /\ m.op \in DOMAIN status
          /\ Goes(m, "answer", status[m.op])
       \/ /\ ~m.confirm /\ m.op \notin DOMAIN status
          /\ Goes(m, "act", IF m.op.kind = "Get" THEN kvMap ELSE <<>>)
    /\ UNCHANGED <<kvMap, status, op, phase, reply, failures>>

\* The first time the lock is taken.  A confirmation deletes the result and is
\* done, a remembered result is returned, and Get reads the value.
Check(m) ==
    /\ m.step = "check"
    /\ \/ /\ m.confirm
          /\ status' = Without(status, m.op)
          /\ Goes(m, "answer", <<>>)
       \/ /\ ~m.confirm /\ m.op \in DOMAIN status
          /\ Goes(m, "answer", status[m.op])
          /\ UNCHANGED status
       \/ /\ ~m.confirm /\ m.op \notin DOMAIN status
          /\ Goes(m, "act", IF m.op.kind = "Get" THEN kvMap ELSE <<>>)
          /\ UNCHANGED status
    /\ UNCHANGED <<kvMap, op, phase, reply, failures>>

\* Mutant: the result is not remembered.
ActAndForget(m) ==
    LET old == IF m.op.kind = "Get" THEN m.val ELSE kvMap IN
    /\ m.step = "act"
    /\ kvMap' = CASE m.op.kind = "Get" -> kvMap
                  [] m.op.kind = "Put" -> <<m.op>>
                  [] m.op.kind = "Append" -> Append(kvMap, m.op)
    /\ Goes(m, "answer", old)
    /\ UNCHANGED <<status, op, phase, reply, failures>>

\* The second time: Put and Append change the value, and the result is kept.
Act(m) ==
    LET old == IF m.op.kind = "Get" THEN m.val ELSE kvMap IN
    /\ m.step = "act"
    /\ kvMap' = CASE m.op.kind = "Get" -> kvMap
                  [] m.op.kind = "Put" -> <<m.op>>
                  [] m.op.kind = "Append" -> Append(kvMap, m.op)
    /\ status' = With(status, m.op, old)
    /\ Goes(m, "answer", old)
    /\ UNCHANGED <<op, phase, reply, failures>>

-----------------------------------------------------------------------------
(* labrpc. *)

\* The request is dropped before the handler runs, or the reply after it.
Drop(m) ==
    /\ m.step \in {"check", "answer"}
    /\ failures < MaxFailures /\ failures' = failures + 1
    /\ calls' = calls \ {m}
    /\ UNCHANGED <<kvMap, status, op, phase, reply>>

Serve(m) == Check(m) \/ Act(m)

Next ==
    \/ \E c \in Clerk : Begin(c) \/ Call(c)
    \/ \E m \in calls : Serve(m) \/ Succeed(m) \/ Drop(m)

\* Clerks go on, the server serves their calls and calls that are not lost return.
Fairness ==
    \A c \in Clerk :
        /\ WF_vars(Call(c))
        /\ WF_vars(\E m \in calls : m.op.clerk = c /\ (Serve(m) \/ Succeed(m)))

Spec == Init /\ [][Next]_vars /\ Fairness

-----------------------------------------------------------------------------
(* Properties. *)

\* The current operation of clerk c has taken effect: Put and Append when they
\* write the value, Get when it reads it.
Effective(c) ==
    \/ phase[c] \in {"idle", "confirm"}
    \/ Current(c) \in DOMAIN status
    \/ \E m \in calls : m.op = Current(c) /\ m.op.kind = "Get" /\ m.step = "act"

Seen(c) ==
    IF phase[c] # "request" THEN reply[c]
    ELSE IF Current(c) \in DOMAIN status THEN status[Current(c)]
    ELSE LET gets == {m \in calls : m.op = Current(c) /\ m.op.kind = "Get" /\ m.step = "act"}
         IN IF gets = {} THEN <<>> ELSE (CHOOSE m \in gets : TRUE).val

KV == INSTANCE AtomicKV WITH
          value <- kvMap,
          done <- [c \in Clerk |-> IF Effective(c) THEN Len(op[c]) ELSE Len(op[c]) - 1],
          result <- [c \in Clerk |-> Seen(c)],
          returned <- [c \in Clerk |-> IF phase[c] = "idle" THEN Len(op[c])
                                                            ELSE Len(op[c]) - 1]

\* Clerks that retry over a network that loses calls and replies see an atomic
\* value: every operation takes effect exactly once, between call and return,
\* returns what it saw then, and does return.
Linearizable == KV!Spec

\* The server remembers results of unfinished operations only: confirmations
\* delete the others, and no handler puts one back.
StatusIsBounded ==
    \A o \in DOMAIN status : phase[o.clerk] # "idle" /\ o = Current(o.clerk)

\* A clerk has one call at a time, whose result alone the server remembers.
ServerInv == TypeOK /\ StatusIsBounded
=============================================================================
