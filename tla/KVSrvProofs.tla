---------------------------- MODULE KVSrvProofs -----------------------------
(***************************************************************************)
(* Retries of clerks are invisible, for any number of clerks, operations   *)
(* and lost calls: module KVSrv implements the safety part of AtomicKV.    *)
(*                                                                         *)
(* The server could do an operation twice if a call found no result while  *)
(* another call of the operation was at work, or after a confirmation had  *)
(* deleted the result.  Neither happens because a clerk has one call at a  *)
(* time, and that call is for its current operation and phase.             *)
(***************************************************************************)
EXTENDS KVSrv, TLAPS

\* What a call knows agrees with its clerk and with what the server remembers.
CallInv ==
    \A m \in calls :
        /\ m.op.clerk \in Clerk /\ phase[m.op.clerk] # "idle" /\ m.op = Current(m.op.clerk)
        /\ m.confirm <=> phase[m.op.clerk] = "confirm"
        /\ m.step = "act" => ~m.confirm /\ m.op \notin DOMAIN status
        /\ m.step = "answer" /\ m.confirm => m.val = <<>> /\ m.op \notin DOMAIN status
        /\ m.step = "answer" /\ ~m.confirm => m.op \in DOMAIN status /\ m.val = status[m.op]

\* A clerk at work has an operation of its own, and no reply before the first
\* call that succeeds.
ClerkInv ==
    \A c \in Clerk :
        /\ phase[c] # "idle" => op[c] # <<>> /\ Current(c) \in Op /\ Current(c).clerk = c
        /\ phase[c] = "request" => reply[c] = <<>>

KVInv == ServerInv /\ CallInv /\ ClerkInv

-----------------------------------------------------------------------------
(* Sequences and functions. *)

LEMMA AppendFacts ==
    ASSUME NEW S, NEW s \in Seq(S), NEW x \in S
    PROVE  /\ Append(s, x) \in Seq(S) /\ Len(Append(s, x)) = Len(s) + 1
           /\ Append(s, x) # <<>> /\ Append(s, x)[Len(s) + 1] = x
  OBVIOUS

LEMMA LenFacts ==
    ASSUME NEW S, NEW s \in Seq(S), s # <<>>
    PROVE  Len(s) \in Nat /\ Len(s) >= 1 /\ s[Len(s)] \in S
  OBVIOUS

LEMMA EmptyFacts == ASSUME NEW S PROVE <<>> \in Seq(S) /\ Len(<<>>) = 0 /\ DOMAIN <<>> = {}
  OBVIOUS

\* A call that goes on stays a call of the same clerk, and the only one.
Becomes(m, k, step, val) ==
    /\ k.op = m.op /\ k.confirm = m.confirm /\ k.step = step /\ k.val = val
    /\ calls' = (calls \ {m}) \cup {k}
    /\ calls' \subseteq CallRec
    /\ \A n, l \in calls' : n.op.clerk = l.op.clerk => n = l

LEMMA GoesFacts ==
    ASSUME TypeOK, NEW m \in calls, NEW step \in {"check", "act", "answer"},
           NEW val \in Seq(Op), Goes(m, step, val)
    PROVE  \E k \in CallRec : Becomes(m, k, step, val)
<1> DEFINE k == [m EXCEPT !.step = step, !.val = val]
<1>1. m \in CallRec /\ calls \subseteq CallRec
  BY Zenon DEF TypeOK
<1>2. k \in CallRec /\ k.op = m.op /\ k.confirm = m.confirm /\ k.step = step /\ k.val = val
  BY <1>1, Zenon DEF CallRec
<1>3. calls' = (calls \ {m}) \cup {k}
  BY Zenon DEF Goes
<1> HIDE DEF k
<1>4. \A n, l \in calls' : n.op.clerk = l.op.clerk => n = l
  <2>1. \A n, l \in calls : n.op.clerk = l.op.clerk => n = l
    BY Zenon DEF TypeOK
  <2>2. \A n \in calls' : n = k \/ (n \in calls /\ n # m)
    BY <1>3, Zenon
  <2>3. \A n \in calls : n.op.clerk = k.op.clerk => n = m
    BY <1>2, <2>1, Zenon
  <2> QED
    BY <2>1, <2>2, <2>3, Zenon
<1>5. calls' \subseteq CallRec
  BY <1>1, <1>2, <1>3, Zenon
<1> QED
  BY <1>2, <1>3, <1>4, <1>5, Zenon DEF Becomes

-----------------------------------------------------------------------------
(* One lemma per action. *)

\* A clerk whose part of the state a step leaves alone.
Untouched(d) ==
    /\ phase'[d] = phase[d] /\ op'[d] = op[d] /\ reply'[d] = reply[d]
    /\ \A m : m.op.clerk = d => (m \in calls' <=> m \in calls)
    /\ \A o \in Op : o.clerk = d =>
           /\ o \in DOMAIN status' <=> o \in DOMAIN status
           /\ o \in DOMAIN status => status'[o] = status[o]

\* The invariant, for what concerns clerk d alone.
Sound(d) ==
    /\ \A o \in DOMAIN status : o.clerk = d => phase[d] # "idle" /\ o = Current(d)
    /\ \A m \in calls : m.op.clerk = d =>
          /\ phase[d] # "idle" /\ m.op = Current(d)
          /\ m.confirm <=> phase[d] = "confirm"
          /\ m.step = "act" => ~m.confirm /\ m.op \notin DOMAIN status
          /\ m.step = "answer" /\ m.confirm => m.val = <<>> /\ m.op \notin DOMAIN status
          /\ m.step = "answer" /\ ~m.confirm => m.op \in DOMAIN status /\ m.val = status[m.op]
    /\ phase[d] # "idle" => op[d] # <<>> /\ Current(d) \in Op /\ Current(d).clerk = d
    /\ phase[d] = "request" => reply[d] = <<>>

LEMMA KVInvByClerk == KVInv <=> TypeOK /\ \A d \in Clerk : Sound(d)
<1>1. TypeOK => /\ \A m \in calls : m \in CallRec /\ m.op \in Op /\ m.op.clerk \in Clerk
                /\ \A o \in DOMAIN status : o \in Op /\ o.clerk \in Clerk
  BY Zenon DEF TypeOK, CallRec, Op
<1>2. ASSUME KVInv, NEW d \in Clerk PROVE Sound(d)
  <2>1. \A o \in DOMAIN status : o.clerk = d => phase[d] # "idle" /\ o = Current(d)
    BY <1>2, Zenon DEF KVInv, ServerInv, StatusIsBounded
  <2>2. ASSUME NEW m \in calls, m.op.clerk = d
        PROVE  /\ phase[d] # "idle" /\ m.op = Current(d)
               /\ m.confirm <=> phase[d] = "confirm"
               /\ m.step = "act" => ~m.confirm /\ m.op \notin DOMAIN status
               /\ m.step = "answer" /\ m.confirm => m.val = <<>> /\ m.op \notin DOMAIN status
               /\ m.step = "answer" /\ ~m.confirm =>
                      m.op \in DOMAIN status /\ m.val = status[m.op]
    BY <1>2, <2>2 DEF KVInv, CallInv
  <2> QED
    BY <1>2, <2>1, <2>2, Zenon DEF KVInv, ClerkInv, Sound
<1>3. ASSUME TypeOK, \A d \in Clerk : Sound(d) PROVE KVInv
  <2>1. StatusIsBounded
    BY <1>1, <1>3, Zenon DEF StatusIsBounded, Sound
  <2>2. CallInv
    BY <1>1, <1>3, ZenonT(30) DEF CallInv, Sound
  <2>3. ClerkInv
    BY <1>3, Zenon DEF ClerkInv, Sound
  <2> QED
    BY <1>3, <2>1, <2>2, <2>3, Zenon DEF KVInv, ServerInv
<1> QED
  BY <1>2, <1>3, Zenon DEF KVInv, ServerInv

LEMMA UntouchedSound ==
    ASSUME TypeOK, TypeOK', NEW d \in Clerk, Sound(d), Untouched(d)
    PROVE  Sound(d)'
<1>1. /\ \A m \in calls : m.op \in Op
      /\ \A o \in DOMAIN status : o \in Op
      /\ \A o \in DOMAIN status' : o \in Op
  BY DEF TypeOK, CallRec
<1>2. Current(d)' = Current(d)
  BY Zenon DEF Current, Untouched
<1> QED
  BY <1>1, <1>2, Zenon DEF Sound, Untouched

\* Call m reads the value for Get of clerk d, and has not stored it yet.
Reads(d, m) == m.op = Current(d) /\ m.op.kind = "Get" /\ m.step = "act"

\* Seen, without the choice of a call.
SeenFacts(d) ==
    /\ phase[d] # "request" => Seen(d) = reply[d]
    /\ phase[d] = "request" =>
         /\ Current(d) \in DOMAIN status => Seen(d) = status[Current(d)]
         /\ Current(d) \notin DOMAIN status =>
              /\ (\A m \in calls : ~Reads(d, m)) => Seen(d) = <<>>
              /\ \A m \in calls : Reads(d, m) => Seen(d) = m.val

LEMMA SeenIs == TypeOK => \A d \in Clerk : SeenFacts(d)
<1> SUFFICES ASSUME TypeOK, NEW d \in Clerk PROVE SeenFacts(d)
  BY Zenon
<1> DEFINE gets == {m \in calls : m.op = Current(d) /\ m.op.kind = "Get" /\ m.step = "act"}
           rest == IF gets = {} THEN <<>> ELSE (CHOOSE m \in gets : TRUE).val
<1>1. Seen(d) = IF phase[d] # "request" THEN reply[d]
                ELSE IF Current(d) \in DOMAIN status THEN status[Current(d)] ELSE rest
  BY Zenon DEF Seen
<1>2. (\A m \in calls : ~Reads(d, m)) => rest = <<>>
  BY Zenon DEF Reads
<1>3. ASSUME NEW m \in calls, Reads(d, m) PROVE rest = m.val
  <2>1. m \in gets
    BY <1>3, Zenon DEF Reads
  <2>2. \A k \in gets : k = m
    BY <1>3, Zenon DEF TypeOK, Reads
  <2> HIDE DEF gets
  <2>3. (CHOOSE k \in gets : TRUE) \in gets
    BY <2>1, Zenon
  <2> QED
    BY <2>1, <2>2, <2>3, Zenon
<1> HIDE DEF rest, gets
<1> QED
  BY <1>1, <1>2, <1>3 DEF SeenFacts

LEMMA UntouchedView ==
    ASSUME TypeOK, TypeOK', NEW c \in Clerk, Sound(c), Untouched(c)
    PROVE  (Effective(c)' <=> Effective(c)) /\ Seen(c)' = Seen(c)
<1>1. Current(c)' = Current(c) /\ phase'[c] = phase[c] /\ reply'[c] = reply[c]
  BY Zenon DEF Current, Untouched
<1>2. SeenFacts(c) /\ SeenFacts(c)'
  <2>1. (TypeOK => \A d \in Clerk : SeenFacts(d))'
    BY SeenIs, PTL
  <2> QED
    BY SeenIs, <2>1, Zenon
<1>3. CASE phase[c] # "request"
  <2>1. phase[c] \in {"idle", "confirm"}
    BY <1>3, Zenon DEF TypeOK
  <2> QED
    BY <1>1, <1>2, <1>3, <2>1, Zenon DEF Effective, SeenFacts
<1>4. CASE phase[c] = "request"
  <2>1. Current(c) \in Op /\ Current(c).clerk = c
    BY <1>4, Zenon DEF Sound
  <2>2. /\ Current(c) \in DOMAIN status' <=> Current(c) \in DOMAIN status
        /\ Current(c) \in DOMAIN status => status'[Current(c)] = status[Current(c)]
    BY <2>1, Zenon DEF Untouched
  <2>3. \A m : /\ Reads(c, m)' <=> Reads(c, m)
               /\ Reads(c, m) => (m \in calls' <=> m \in calls)
    BY <1>1, <2>1, Zenon DEF Untouched, Reads
  <2>4. Effective(c)' <=> Effective(c)
    BY <1>1, <2>2, <2>3, Zenon DEF Effective, Reads
  <2>5. Seen(c)' = Seen(c)
    <3>1. CASE Current(c) \in DOMAIN status
      BY <1>1, <1>2, <1>4, <2>2, <3>1 DEF SeenFacts
    <3>2. CASE Current(c) \notin DOMAIN status /\ \E m \in calls : Reads(c, m)
      BY <1>1, <1>2, <1>4, <2>2, <2>3, <3>2 DEF SeenFacts
    <3>3. CASE Current(c) \notin DOMAIN status /\ \A m \in calls : ~Reads(c, m)
      BY <1>1, <1>2, <1>4, <2>2, <2>3, <3>3, Zenon DEF SeenFacts
    <3> QED
      BY <3>1, <3>2, <3>3, Zenon
  <2> QED
    BY <2>4, <2>5, Zenon
<1> QED
  BY <1>3, <1>4, Zenon

\* A step of the server, a clerk or the network for clerk c leaves others alone.
LEMMA OneClerk ==
    ASSUME KVInv, TypeOK', NEW c \in Clerk, Sound(c)',
           \A d \in Clerk \ {c} : Untouched(d)
    PROVE  /\ KVInv'
           /\ \A d \in Clerk \ {c} : (Effective(d)' <=> Effective(d)) /\ Seen(d)' = Seen(d)
<1>1. TypeOK /\ \A d \in Clerk : Sound(d)
  BY KVInvByClerk, Zenon
<1>2. \A d \in Clerk \ {c} : Sound(d)'
  BY <1>1, UntouchedSound, Zenon
<1>3. KVInv'
  <2>1. KVInv' <=> (TypeOK /\ \A d \in Clerk : Sound(d))'
    BY KVInvByClerk, PTL
  <2> QED
    BY <1>2, <2>1, Zenon
<1> QED
  BY <1>1, <1>3, UntouchedView, Zenon

\* What AtomicKV sees of a clerk.
Done(d) == IF Effective(d) THEN Len(op[d]) ELSE Len(op[d]) - 1
Returned(d) == IF phase[d] = "idle" THEN Len(op[d]) ELSE Len(op[d]) - 1

LEMMA ViewOfOthers ==
    ASSUME NEW c \in Clerk, \A d \in Clerk \ {c} : Untouched(d),
           \A d \in Clerk \ {c} : (Effective(d)' <=> Effective(d)) /\ Seen(d)' = Seen(d)
    PROVE  \A d \in Clerk \ {c} :
              Done(d)' = Done(d) /\ Seen(d)' = Seen(d) /\ Returned(d)' = Returned(d)
  BY Zenon DEF Done, Returned, Untouched

LEMMA BeginSound ==
    ASSUME KVInv, NEW c \in Clerk, Begin(c)
    PROVE  KVInv' /\ KV!Call(c)
<1>1. TypeOK /\ \A d \in Clerk : Sound(d)
  BY KVInvByClerk, Zenon
<1>2. /\ op \in [Clerk -> Seq(Op)] /\ phase \in [Clerk -> {"idle", "request", "confirm"}]
      /\ reply \in [Clerk -> Seq(Op)] /\ op[c] \in Seq(Op) /\ Len(op[c]) \in Nat
  BY <1>1 DEF TypeOK
<1>3. PICK k \in Kind :
         op' = [op EXCEPT ![c] = Append(@, [clerk |-> c, n |-> Len(@) + 1, kind |-> k])]
  BY Zenon DEF Begin
<1> DEFINE o == [clerk |-> c, n |-> Len(op[c]) + 1, kind |-> k]
<1>4. o \in Op /\ o.clerk = c
  BY <1>2, <1>3, BoundAssumption DEF Op, Begin
<1> HIDE DEF o
<1>5. /\ op'[c] = Append(op[c], o) /\ \A d \in Clerk \ {c} : op'[d] = op[d]
      /\ op' \in [Clerk -> Seq(Op)]
  BY <1>2, <1>3, <1>4, AppendFacts DEF o
<1>6. /\ phase[c] = "idle" /\ phase'[c] = "request" /\ reply'[c] = <<>>
      /\ \A d \in Clerk \ {c} : phase'[d] = phase[d] /\ reply'[d] = reply[d]
      /\ phase' \in [Clerk -> {"idle", "request", "confirm"}]
      /\ reply' \in [Clerk -> Seq(Op)]
      /\ kvMap' = kvMap /\ status' = status /\ calls' = calls /\ failures' = failures
  BY <1>2, EmptyFacts DEF Begin
<1>7. TypeOK'
  BY <1>1, <1>5, <1>6, Zenon DEF TypeOK
<1>8. Len(op'[c]) = Len(op[c]) + 1 /\ op'[c] # <<>> /\ Current(c)' = o
  BY <1>2, <1>4, <1>5, AppendFacts DEF Current
<1>9. /\ \A x \in DOMAIN status : x.clerk # c
      /\ \A m \in calls : m.op.clerk # c
  BY <1>1, <1>6, Zenon DEF Sound
<1>10. Sound(c)'
  BY <1>4, <1>6, <1>8, <1>9, Zenon DEF Sound
<1>11. \A d \in Clerk \ {c} : Untouched(d)
  BY <1>5, <1>6, Zenon DEF Untouched
<1>12. KVInv' /\ \A d \in Clerk \ {c} : (Effective(d)' <=> Effective(d)) /\ Seen(d)' = Seen(d)
  BY <1>7, <1>10, <1>11, OneClerk, Zenon
<1>13. \A d \in Clerk \ {c} :
           Done(d)' = Done(d) /\ Seen(d)' = Seen(d) /\ Returned(d)' = Returned(d)
  BY <1>11, <1>12, ViewOfOthers, Zenon
<1>14. ~Effective(c)' /\ Effective(c) /\ Seen(c)' = <<>>
  <2>1. Current(c)' \notin DOMAIN status' /\ \A m \in calls' : m.op # Current(c)'
    BY <1>4, <1>6, <1>8, <1>9, Zenon
  <2>2. SeenFacts(c)'
    <3>1. (TypeOK => \A d \in Clerk : SeenFacts(d))'
      BY SeenIs, PTL
    <3> QED
      BY <1>7, <3>1, Zenon
  <2> QED
    BY <1>6, <2>1, <2>2 DEF Effective, SeenFacts, Reads
<1>15. Done(c)' = Done(c) /\ Returned(c)' = Returned(c) /\ Returned(c) = Len(op[c])
  BY <1>2, <1>6, <1>8, <1>14 DEF Done, Returned
<1>16. /\ [d \in Clerk |-> Done(d)]' = [d \in Clerk |-> Done(d)]
       /\ [d \in Clerk |-> Returned(d)]' = [d \in Clerk |-> Returned(d)]
       /\ [d \in Clerk |-> Seen(d)]' = [[d \in Clerk |-> Seen(d)] EXCEPT ![c] = <<>>]
  BY <1>13, <1>14, <1>15, Zenon
<1>17. KV!Call(c)
  BY <1>3, <1>6, <1>15, <1>16, Zenon DEF Begin, Done, Returned, KV!Call, Kind, KV!Kind
<1> QED
  BY <1>12, <1>17

\* A step that AtomicKV does not see.
LEMMA Stutters ==
    ASSUME NEW c \in Clerk, kvMap' = kvMap, op' = op,
           \A d \in Clerk \ {c} :
              Done(d)' = Done(d) /\ Seen(d)' = Seen(d) /\ Returned(d)' = Returned(d),
           Done(c)' = Done(c) /\ Seen(c)' = Seen(c) /\ Returned(c)' = Returned(c)
    PROVE  UNCHANGED KV!vars
<1>1. /\ [d \in Clerk |-> Done(d)]' = [d \in Clerk |-> Done(d)]
      /\ [d \in Clerk |-> Returned(d)]' = [d \in Clerk |-> Returned(d)]
      /\ [d \in Clerk |-> Seen(d)]' = [d \in Clerk |-> Seen(d)]
  BY Zenon
<1> QED
  BY <1>1 DEF KV!vars, Done, Returned

\* A step of clerk c, or for it, that changes its calls and what is remembered of
\* its operations: the others are left alone.
LEMMA OthersUntouched ==
    ASSUME NEW c \in Clerk,
           \A d \in Clerk \ {c} : phase'[d] = phase[d] /\ op'[d] = op[d] /\ reply'[d] = reply[d],
           \A m : m.op.clerk # c => (m \in calls' <=> m \in calls),
           \A o \in Op : o.clerk # c =>
              /\ o \in DOMAIN status' <=> o \in DOMAIN status
              /\ o \in DOMAIN status => status'[o] = status[o]
    PROVE  \A d \in Clerk \ {c} : Untouched(d)
  BY Zenon DEF Untouched

LEMMA SeenAround ==
    ASSUME TypeOK, TypeOK', NEW c \in Clerk
    PROVE  SeenFacts(c) /\ SeenFacts(c)'
<1>1. (TypeOK => \A d \in Clerk : SeenFacts(d))'
  BY SeenIs, PTL
<1> QED
  BY SeenIs, <1>1, Zenon

LEMMA CallSound ==
    ASSUME KVInv, NEW c \in Clerk, Call(c)
    PROVE  KVInv' /\ UNCHANGED KV!vars
<1> DEFINE k == [op |-> Current(c), confirm |-> phase[c] = "confirm",
                 step |-> "check", val |-> <<>>]
<1>1. TypeOK /\ \A d \in Clerk : Sound(d)
  BY KVInvByClerk, Zenon
<1>2. /\ phase[c] # "idle" /\ calls' = calls \cup {k} /\ \A m \in calls : m.op.clerk # c
      /\ kvMap' = kvMap /\ status' = status /\ op' = op /\ phase' = phase /\ reply' = reply
      /\ failures' = failures
  BY Zenon DEF Call
<1>3. Current(c) \in Op /\ Current(c).clerk = c
  BY <1>1, <1>2, Zenon DEF Sound
<1>4. /\ k \in CallRec /\ k.op = Current(c) /\ k.step = "check"
      /\ k.confirm = (phase[c] = "confirm")
  BY <1>3, EmptyFacts DEF CallRec
<1> HIDE DEF k
<1>5. \A m, n \in calls' : m.op.clerk = n.op.clerk => m = n
  <2>1. \A m, n \in calls : m.op.clerk = n.op.clerk => m = n
    BY <1>1, Zenon DEF TypeOK
  <2>2. \A m \in calls' : m = k \/ m \in calls
    BY <1>2, Zenon
  <2>3. \A m \in calls : m.op.clerk # k.op.clerk
    BY <1>2, <1>3, <1>4, Zenon
  <2> QED
    BY <2>1, <2>2, <2>3, Zenon
<1>6. TypeOK'
  <2>1. calls' \subseteq CallRec
    BY <1>1, <1>2, <1>4, Zenon DEF TypeOK
  <2> QED
    BY <1>1, <1>2, <1>5, <2>1, Zenon DEF TypeOK
<1>7. Sound(c)'
  <2>1. Current(c)' = Current(c)
    BY <1>2, Zenon DEF Current
  <2>2. \A m \in calls' : m.op.clerk = c => m = k
    BY <1>2, Zenon
  <2>3. Sound(c)
    BY <1>1, Zenon
  <2> QED
    BY <1>2, <1>4, <2>1, <2>2, <2>3, Zenon DEF Sound
<1>8. \A d \in Clerk \ {c} : Untouched(d)
  <2>1. \A m : m.op.clerk # c => (m \in calls' <=> m \in calls)
    BY <1>2, <1>3, <1>4, Zenon
  <2> QED
    BY <1>2, <2>1, OthersUntouched, Zenon
<1>9. KVInv' /\ \A d \in Clerk \ {c} : (Effective(d)' <=> Effective(d)) /\ Seen(d)' = Seen(d)
  BY <1>6, <1>7, <1>8, OneClerk, Zenon
<1>10. \A d \in Clerk \ {c} :
           Done(d)' = Done(d) /\ Seen(d)' = Seen(d) /\ Returned(d)' = Returned(d)
  BY <1>8, <1>9, ViewOfOthers, Zenon
<1>11. (Effective(c)' <=> Effective(c)) /\ Seen(c)' = Seen(c)
  <2>1. SeenFacts(c) /\ SeenFacts(c)'
    BY <1>1, <1>6, SeenAround, Zenon
  <2>2. Current(c)' = Current(c)
    BY <1>2, Zenon DEF Current
  <2>3. \A m : Reads(c, m)' <=> Reads(c, m)
    BY <2>2, Zenon DEF Reads
  <2>4. /\ \A m \in calls : ~Reads(c, m)
        /\ \A m \in calls' : ~Reads(c, m)
    BY <1>2, <1>3, <1>4 DEF Reads
  <2>5. Effective(c)' <=> Effective(c)
    BY <1>2, <2>2, <2>4, Zenon DEF Effective, Reads
  <2> QED
    BY <1>2, <2>1, <2>2, <2>3, <2>4, <2>5 DEF SeenFacts
<1>12. Done(c)' = Done(c) /\ Seen(c)' = Seen(c) /\ Returned(c)' = Returned(c)
  BY <1>2, <1>11, Zenon DEF Done, Returned
<1> QED
  BY <1>2, <1>9, <1>10, <1>12, Stutters, Zenon

\* What is known of a call and its clerk.
LEMMA CallFacts ==
    ASSUME KVInv, NEW m \in calls, NEW c, c = m.op.clerk
    PROVE  /\ TypeOK /\ \A d \in Clerk : Sound(d)
           /\ c \in Clerk /\ m \in CallRec /\ m.op \in Op /\ m.val \in Seq(Op)
           /\ m.step \in {"check", "act", "answer"} /\ m.confirm \in BOOLEAN
           /\ phase[c] # "idle" /\ m.op = Current(c) /\ (m.confirm <=> phase[c] = "confirm")
           /\ op[c] \in Seq(Op) /\ Len(op[c]) \in Nat
           /\ \A n \in calls : n.op.clerk = c => n = m
<1>1. TypeOK /\ \A d \in Clerk : Sound(d)
  BY KVInvByClerk, Zenon
<1>2. m \in CallRec
  BY <1>1, Zenon DEF TypeOK
<1>3. /\ m.op \in Op /\ m.op.clerk \in Clerk /\ m.val \in Seq(Op)
      /\ m.step \in {"check", "act", "answer"} /\ m.confirm \in BOOLEAN
  BY <1>2 DEF CallRec, Op
<1>4. phase[c] # "idle" /\ m.op = Current(c) /\ (m.confirm <=> phase[c] = "confirm")
  BY <1>1, <1>3, Zenon DEF Sound
<1>5. op[c] \in Seq(Op) /\ Len(op[c]) \in Nat
  BY <1>1, <1>3 DEF TypeOK
<1>6. \A n \in calls : n.op.clerk = c => n = m
  BY <1>1, Zenon DEF TypeOK
<1> QED
  BY <1>1, <1>2, <1>3, <1>4, <1>5, <1>6, Zenon

\* The network loses a call before its handler has started or after it is done.
LEMMA DropSound ==
    ASSUME KVInv, NEW m \in calls, Drop(m)
    PROVE  KVInv' /\ UNCHANGED KV!vars
<1> DEFINE c == m.op.clerk
<1>1. /\ TypeOK /\ \A d \in Clerk : Sound(d)
      /\ c \in Clerk /\ \A n \in calls : n.op.clerk = c => n = m
  BY CallFacts, Zenon
<1>2. /\ m.step # "act" /\ calls' = calls \ {m}
      /\ kvMap' = kvMap /\ status' = status /\ op' = op /\ phase' = phase /\ reply' = reply
  BY DEF Drop
<1>3. TypeOK'
  <2>1. failures' \in Nat
    BY <1>1 DEF Drop, TypeOK
  <2>2. calls' \subseteq CallRec /\ \A n, l \in calls' : n.op.clerk = l.op.clerk => n = l
    BY <1>1, <1>2, Zenon DEF TypeOK
  <2> QED
    BY <1>1, <1>2, <2>1, <2>2, Zenon DEF TypeOK
<1> HIDE DEF c
<1>4. Current(c)' = Current(c)
  BY <1>2, Zenon DEF Current
<1>5. \A n \in calls' : n.op.clerk # c
  BY <1>1, <1>2, Zenon
<1>6. Sound(c)'
  <2>1. Sound(c)
    BY <1>1, Zenon
  <2> QED
    BY <1>2, <1>4, <1>5, <2>1, Zenon DEF Sound
<1>7. \A d \in Clerk \ {c} : Untouched(d)
  <2>1. \A n : n.op.clerk # c => (n \in calls' <=> n \in calls)
    BY <1>2, Zenon DEF c
  <2> QED
    BY <1>1, <1>2, <2>1, OthersUntouched, Zenon
<1>8. KVInv' /\ \A d \in Clerk \ {c} : (Effective(d)' <=> Effective(d)) /\ Seen(d)' = Seen(d)
  BY <1>1, <1>3, <1>6, <1>7, OneClerk, Zenon
<1>9. \A d \in Clerk \ {c} :
          Done(d)' = Done(d) /\ Seen(d)' = Seen(d) /\ Returned(d)' = Returned(d)
  BY <1>1, <1>7, <1>8, ViewOfOthers, Zenon
<1>10. (Effective(c)' <=> Effective(c)) /\ Seen(c)' = Seen(c)
  <2>1. SeenFacts(c) /\ SeenFacts(c)'
    BY <1>1, <1>3, SeenAround, Zenon
  <2>2. \A n : Reads(c, n)' <=> Reads(c, n)
    BY <1>4, Zenon DEF Reads
  <2>3. \A n \in calls : n.op = Current(c) => n.step # "act"
    BY <1>1, <1>2, <1>4, CallFacts, Zenon DEF c
  <2>4. (\A n \in calls : ~Reads(c, n)) /\ \A n \in calls' : ~Reads(c, n)
    BY <1>2, <2>3, Zenon DEF Reads
  <2>5. Effective(c)' <=> Effective(c)
    BY <1>2, <1>4, <2>4, Zenon DEF Effective, Reads
  <2> QED
    BY <1>2, <1>4, <2>1, <2>2, <2>4, <2>5 DEF SeenFacts
<1>11. Done(c)' = Done(c) /\ Seen(c)' = Seen(c) /\ Returned(c)' = Returned(c)
  BY <1>2, <1>10, Zenon DEF Done, Returned
<1> QED
  BY <1>1, <1>2, <1>8, <1>9, <1>11, Stutters, Zenon

\* The reply arrives: the value to a clerk that asked for it, or the answer to a
\* confirmation, which carries none and ends the operation.
LEMMA SucceedSound ==
    ASSUME KVInv, NEW m \in calls, Succeed(m)
    PROVE  KVInv' /\ (UNCHANGED KV!vars \/ KV!Return(m.op.clerk))
<1> DEFINE c == m.op.clerk
<1>1. /\ TypeOK /\ \A d \in Clerk : Sound(d)
      /\ c \in Clerk /\ m.val \in Seq(Op) /\ m.op = Current(c) /\ phase[c] # "idle"
      /\ (m.confirm <=> phase[c] = "confirm") /\ m.confirm \in BOOLEAN
      /\ op[c] \in Seq(Op) /\ Len(op[c]) \in Nat
      /\ \A n \in calls : n.op.clerk = c => n = m
  BY CallFacts, Zenon
<1>2. /\ reply \in [Clerk -> Seq(Op)] /\ phase \in [Clerk -> {"idle", "request", "confirm"}]
      /\ phase[c] \in {"request", "confirm"}
  BY <1>1, Zenon DEF TypeOK
<1>3. /\ m.step = "answer" /\ calls' = calls \ {m}
      /\ kvMap' = kvMap /\ status' = status /\ op' = op /\ failures' = failures
      /\ reply' = [reply EXCEPT ![c] = Decode(@, m.val)]
      /\ phase' = [phase EXCEPT ![c] = IF m.confirm THEN "idle" ELSE "confirm"]
  BY Zenon DEF Succeed
<1> HIDE DEF c
<1>4. /\ phase'[c] = (IF m.confirm THEN "idle" ELSE "confirm")
      /\ reply'[c] = Decode(reply[c], m.val)
      /\ \A d \in Clerk \ {c} : phase'[d] = phase[d] /\ reply'[d] = reply[d]
      /\ phase' \in [Clerk -> {"idle", "request", "confirm"}]
      /\ reply' \in [Clerk -> Seq(Op)]
  BY <1>1, <1>2, <1>3 DEF Decode
<1>5. TypeOK'
  <2>1. calls' \subseteq CallRec /\ \A n, l \in calls' : n.op.clerk = l.op.clerk => n = l
    BY <1>1, <1>3, Zenon DEF TypeOK
  <2> QED
    BY <1>1, <1>3, <1>4, <2>1, Zenon DEF TypeOK
<1>6. Current(c)' = Current(c)
  BY <1>3, Zenon DEF Current
<1>7. \A n \in calls' : n.op.clerk # c
  BY <1>1, <1>3, Zenon
<1>8. /\ Sound(c)
      /\ m.confirm => m.val = <<>> /\ m.op \notin DOMAIN status
      /\ ~m.confirm => m.op \in DOMAIN status /\ m.val = status[m.op] /\ reply[c] = <<>>
  BY <1>1, <1>2, <1>3, ZenonT(30) DEF Sound, c
<1>9. Sound(c)'
  <2>1. \A o \in DOMAIN status : o.clerk = c => o = Current(c)
    BY <1>8, Zenon DEF Sound
  <2>2. \A o \in DOMAIN status' : o.clerk = c => phase'[c] # "idle" /\ o = Current(c)'
    BY <1>1, <1>3, <1>4, <1>6, <1>8, <2>1
  <2>3. phase'[c] # "request"
    BY <1>4
  <2>4. op'[c] # <<>> /\ Current(c)' \in Op /\ Current(c)'.clerk = c
    BY <1>1, <1>3, <1>6, <1>8, Zenon DEF Sound
  <2> QED
    BY <1>7, <2>2, <2>3, <2>4, Zenon DEF Sound
<1>10. \A d \in Clerk \ {c} : Untouched(d)
  <2>1. \A n : n.op.clerk # c => (n \in calls' <=> n \in calls)
    BY <1>3, Zenon DEF c
  <2> QED
    BY <1>1, <1>3, <1>4, <2>1, OthersUntouched, Zenon
<1>11. KVInv' /\ \A d \in Clerk \ {c} : (Effective(d)' <=> Effective(d)) /\ Seen(d)' = Seen(d)
  BY <1>1, <1>5, <1>9, <1>10, OneClerk, Zenon
<1>12. \A d \in Clerk \ {c} :
           Done(d)' = Done(d) /\ Seen(d)' = Seen(d) /\ Returned(d)' = Returned(d)
  BY <1>1, <1>10, <1>11, ViewOfOthers, Zenon
<1>13. Effective(c) /\ Effective(c)' /\ Done(c) = Len(op[c]) /\ Done(c)' = Len(op[c])
  <2>1. Effective(c)
    BY <1>1, <1>2, <1>8, Zenon DEF Effective
  <2>2. Effective(c)'
    BY <1>4 DEF Effective
  <2> QED
    BY <1>3, <2>1, <2>2, Zenon DEF Done
<1>14. Seen(c)' = Seen(c)
  <2>1. SeenFacts(c) /\ SeenFacts(c)'
    BY <1>1, <1>5, SeenAround, Zenon
  <2>2. Seen(c)' = Decode(reply[c], m.val)
    BY <1>4, <2>1 DEF SeenFacts
  <2>3. CASE m.confirm
    BY <1>1, <1>8, <2>1, <2>2, <2>3 DEF SeenFacts, Decode
  <2>4. CASE ~m.confirm
    <3>1. Seen(c) = m.val
      BY <1>1, <1>2, <1>8, <2>1, <2>4, Zenon DEF SeenFacts
    <3> QED
      BY <1>8, <2>2, <2>4, <3>1, Zenon DEF Decode
  <2> QED
    BY <2>3, <2>4, Zenon
<1>15. CASE ~m.confirm
  <2>1. Returned(c)' = Returned(c)
    BY <1>1, <1>3, <1>4, <1>15 DEF Returned
  <2> QED
    BY <1>1, <1>3, <1>11, <1>12, <1>13, <1>14, <2>1, Stutters, Zenon
<1>16. CASE m.confirm
  <2>1. Returned(c) = Len(op[c]) - 1 /\ Returned(c)' = Len(op[c])
    BY <1>1, <1>3, <1>4, <1>16 DEF Returned
  <2>2. /\ [d \in Clerk |-> Done(d)]' = [d \in Clerk |-> Done(d)]
        /\ [d \in Clerk |-> Seen(d)]' = [d \in Clerk |-> Seen(d)]
    BY <1>12, <1>13, <1>14, Zenon
  <2>3. [d \in Clerk |-> Returned(d)]'
           = [[d \in Clerk |-> Returned(d)] EXCEPT ![c] = @ + 1]
    <3>1. Returned(c)' = Returned(c) + 1
      BY <1>1, <2>1
    <3> QED
      BY <1>1, <1>12, <3>1, Zenon
  <2>4. Returned(c) < Done(c)
    BY <1>1, <1>13, <2>1
  <2>5. KV!Return(c)
    BY <1>1, <1>3, <2>2, <2>3, <2>4 DEF KV!Return, Done, Returned
  <2> QED
    BY <1>11, <2>5 DEF c
<1> QED
  BY <1>1, <1>15, <1>16, Zenon

\* The handler of m takes one step: to step, with val as the value to return.
ServeStep(m, step, val) ==
    /\ Goes(m, step, val)
    /\ op' = op /\ phase' = phase /\ reply' = reply /\ failures' = failures
    /\ kvMap' \in Seq(Op)
    /\ \A o \in DOMAIN status' : o \in DOMAIN status \/ o = m.op
    /\ \A o \in DOMAIN status' : o # m.op => status'[o] = status[o]
    /\ \A o \in DOMAIN status : o # m.op => o \in DOMAIN status'
    /\ m.op \in DOMAIN status' => status'[m.op] \in Seq(Op)
    /\ step = "act" => ~m.confirm /\ m.op \notin DOMAIN status'
    /\ step = "answer" /\ m.confirm => val = <<>> /\ m.op \notin DOMAIN status'
    /\ step = "answer" /\ ~m.confirm => m.op \in DOMAIN status' /\ val = status'[m.op]

LEMMA ServeStepSound ==
    ASSUME KVInv, NEW m \in calls, NEW c, c = m.op.clerk,
           NEW step \in {"act", "answer"}, NEW val \in Seq(Op), ServeStep(m, step, val)
    PROVE  /\ KVInv'
           /\ \A d \in Clerk \ {c} :
                 Done(d)' = Done(d) /\ Seen(d)' = Seen(d) /\ Returned(d)' = Returned(d)
           /\ Returned(c)' = Returned(c)
           /\ phase[c] = "request" =>
                 /\ Effective(c) <=>
                       m.op \in DOMAIN status \/ (m.op.kind = "Get" /\ m.step = "act")
                 /\ Effective(c)' <=>
                       m.op \in DOMAIN status' \/ (m.op.kind = "Get" /\ step = "act")
                 /\ m.op \in DOMAIN status => Seen(c) = status[m.op]
                 /\ m.op \in DOMAIN status' => Seen(c)' = status'[m.op]
                 /\ m.op \notin DOMAIN status =>
                       Seen(c) = IF m.op.kind = "Get" /\ m.step = "act" THEN m.val ELSE <<>>
                 /\ m.op \notin DOMAIN status' =>
                       Seen(c)' = IF m.op.kind = "Get" /\ step = "act" THEN val ELSE <<>>
           /\ phase[c] = "confirm" => Effective(c) /\ Effective(c)' /\ Seen(c)' = Seen(c)
<1>1. /\ TypeOK /\ \A d \in Clerk : Sound(d)
      /\ c \in Clerk /\ m.op \in Op /\ m.op = Current(c) /\ phase[c] # "idle"
      /\ m.confirm <=> phase[c] = "confirm"
      /\ \A n \in calls : n.op.clerk = c => n = m
  BY CallFacts, Zenon
<1>2. /\ op' = op /\ phase' = phase /\ reply' = reply /\ failures' = failures
      /\ Goes(m, step, val)
  BY Zenon DEF ServeStep
<1>3. PICK k \in CallRec : Becomes(m, k, step, val)
  <2>1. step \in {"check", "act", "answer"}
    BY Zenon
  <2> QED
    BY <1>1, <1>2, <2>1, GoesFacts, Zenon
<1>4. TypeOK'
  <2>1. DOMAIN status' \subseteq Op /\ \A o \in DOMAIN status' : status'[o] \in Seq(Op)
    BY <1>1, Zenon DEF ServeStep, TypeOK
  <2>2. kvMap' \in Seq(Op)
    BY Zenon DEF ServeStep
  <2> QED
    BY <1>1, <1>2, <1>3, <2>1, <2>2, Zenon DEF TypeOK, Becomes
<1>5. Current(c)' = Current(c)
  BY <1>2, Zenon DEF Current
<1>6. k \in calls' /\ \A n \in calls' : n.op.clerk = c => n = k
  BY <1>3, Zenon DEF Becomes
<1>7. Sound(c) /\ Sound(c)'
  <2>1. Sound(c)
    BY <1>1, Zenon
  <2>2. \A o \in DOMAIN status' : o.clerk = c => phase'[c] # "idle" /\ o = Current(c)'
    BY <1>1, <1>2, <1>5, <2>1, ZenonT(30) DEF Sound, ServeStep
  <2>3. /\ phase'[c] # "idle" /\ k.op = Current(c)'
        /\ k.confirm <=> phase'[c] = "confirm"
        /\ k.step = "act" => ~k.confirm /\ k.op \notin DOMAIN status'
        /\ k.step = "answer" /\ k.confirm => k.val = <<>> /\ k.op \notin DOMAIN status'
        /\ k.step = "answer" /\ ~k.confirm => k.op \in DOMAIN status' /\ k.val = status'[k.op]
    BY <1>1, <1>2, <1>3, <1>5, Zenon DEF ServeStep, Becomes
  <2>4. /\ op'[c] # <<>> /\ Current(c)' \in Op /\ Current(c)'.clerk = c
        /\ phase'[c] = "request" => reply'[c] = <<>>
    BY <1>1, <1>2, <1>5, <2>1, Zenon DEF Sound
  <2> QED
    BY <1>6, <2>1, <2>2, <2>3, <2>4, Zenon DEF Sound
<1>8. \A d \in Clerk \ {c} : Untouched(d)
  <2>1. \A n : n.op.clerk # c => (n \in calls' <=> n \in calls)
    BY <1>3, Zenon DEF Becomes
  <2>2. \A o \in Op : o.clerk # c =>
              /\ o \in DOMAIN status' <=> o \in DOMAIN status
              /\ o \in DOMAIN status => status'[o] = status[o]
    BY Zenon DEF ServeStep
  <2> QED
    BY <1>1, <1>2, <2>1, <2>2, OthersUntouched, Zenon
<1>9. KVInv' /\ \A d \in Clerk \ {c} : (Effective(d)' <=> Effective(d)) /\ Seen(d)' = Seen(d)
  BY <1>1, <1>4, <1>7, <1>8, OneClerk, Zenon
<1>10. \A d \in Clerk \ {c} :
           Done(d)' = Done(d) /\ Seen(d)' = Seen(d) /\ Returned(d)' = Returned(d)
  BY <1>1, <1>8, <1>9, ViewOfOthers, Zenon
<1>11. Returned(c)' = Returned(c)
  BY <1>2, Zenon DEF Returned
<1>12. SeenFacts(c) /\ SeenFacts(c)'
  BY <1>1, <1>4, SeenAround, Zenon
<1>13. ASSUME phase[c] = "confirm"
       PROVE  Effective(c) /\ Effective(c)' /\ Seen(c)' = Seen(c)
  <2>1. Seen(c) = reply[c] /\ Seen(c)' = reply[c]
    BY <1>2, <1>12, <1>13 DEF SeenFacts
  <2> QED
    BY <1>2, <1>13, <2>1, Zenon DEF Effective
<1>14. /\ \A n \in calls : Reads(c, n) <=> n = m /\ m.op.kind = "Get" /\ m.step = "act"
       /\ \A n \in calls' : Reads(c, n)' <=> n = k /\ m.op.kind = "Get" /\ step = "act"
  <2>1. \A n \in calls : n.op = m.op => n = m
    BY <1>1, Zenon
  <2>2. \A n \in calls' : n.op = m.op => n = k
    BY <1>6, Zenon
  <2>3. \A n \in calls : Reads(c, n) <=> n = m /\ m.op.kind = "Get" /\ m.step = "act"
    BY <1>1, <2>1, Zenon DEF Reads
  <2>4. \A n \in calls' : Reads(c, n)' <=> n = k /\ m.op.kind = "Get" /\ step = "act"
    <3>1. \A n : Reads(c, n)' <=> n.op = m.op /\ n.op.kind = "Get" /\ n.step = "act"
      BY <1>1, <1>5, Zenon DEF Reads
    <3> QED
      BY <1>3, <2>2, <3>1, Zenon DEF Becomes
  <2> QED
    BY <2>3, <2>4, Zenon
<1>15. ASSUME phase[c] = "request"
       PROVE  /\ Effective(c) <=>
                       m.op \in DOMAIN status \/ (m.op.kind = "Get" /\ m.step = "act")
              /\ Effective(c)' <=>
                       m.op \in DOMAIN status' \/ (m.op.kind = "Get" /\ step = "act")
  <2>1. Effective(c) <=> m.op \in DOMAIN status \/ \E n \in calls : Reads(c, n)
    BY <1>1, <1>15 DEF Effective, Reads
  <2>2. Effective(c)' <=> m.op \in DOMAIN status' \/ \E n \in calls' : Reads(c, n)'
    BY <1>1, <1>2, <1>5, <1>15 DEF Effective, Reads
  <2> QED
    BY <1>6, <1>14, <2>1, <2>2, Zenon
<1>16. ASSUME phase[c] = "request"
       PROVE  /\ m.op \in DOMAIN status => Seen(c) = status[m.op]
              /\ m.op \notin DOMAIN status =>
                    Seen(c) = IF m.op.kind = "Get" /\ m.step = "act" THEN m.val ELSE <<>>
  BY <1>1, <1>12, <1>14, <1>16, Zenon DEF SeenFacts
<1>17. ASSUME phase[c] = "request"
       PROVE  /\ m.op \in DOMAIN status' => Seen(c)' = status'[m.op]
              /\ m.op \notin DOMAIN status' =>
                    Seen(c)' = IF m.op.kind = "Get" /\ step = "act" THEN val ELSE <<>>
  BY <1>1, <1>2, <1>3, <1>5, <1>6, <1>12, <1>14, <1>17 DEF SeenFacts, Becomes
<1> QED
  BY <1>9, <1>10, <1>11, <1>13, <1>15, <1>16, <1>17, Zenon

\* What AtomicKV sees when the operation of clerk c takes effect.
LEMMA TakesEffect ==
    ASSUME NEW c \in Clerk, op' = op, op[c] \in Seq(Op), Len(op[c]) \in Nat,
           \A d \in Clerk \ {c} :
              Done(d)' = Done(d) /\ Seen(d)' = Seen(d) /\ Returned(d)' = Returned(d),
           Returned(c)' = Returned(c), ~Effective(c), Effective(c)', Seen(c)' = kvMap,
           kvMap' = KV!Effect(kvMap, Current(c))
    PROVE  KV!Act(c)
<1>1. Done(c) = Len(op[c]) - 1 /\ Done(c)' = Len(op[c])
  BY Zenon DEF Done
<1>2. Done(c) < Len(op[c]) /\ Done(c)' = Done(c) + 1
  BY <1>1
<1>3. /\ [d \in Clerk |-> Returned(d)]' = [d \in Clerk |-> Returned(d)]
      /\ [d \in Clerk |-> Seen(d)]' = [[d \in Clerk |-> Seen(d)] EXCEPT ![c] = kvMap]
      /\ [d \in Clerk |-> Done(d)]' = [[d \in Clerk |-> Done(d)] EXCEPT ![c] = @ + 1]
  BY <1>2, Zenon
<1> QED
  BY <1>2, <1>3 DEF KV!Act, Done, Returned, Current

\* The first critical section of a handler.
LEMMA CheckSound ==
    ASSUME KVInv, NEW m \in calls, Check(m)
    PROVE  KVInv' /\ (UNCHANGED KV!vars \/ KV!Act(m.op.clerk))
<1> DEFINE c == m.op.clerk
<1>1. /\ TypeOK /\ c \in Clerk /\ m.op \in Op /\ m.op = Current(c) /\ phase[c] # "idle"
      /\ (m.confirm <=> phase[c] = "confirm") /\ m.confirm \in BOOLEAN
      /\ op[c] \in Seq(Op) /\ Len(op[c]) \in Nat
  BY CallFacts, Zenon
<1>2. /\ m.step = "check" /\ kvMap' = kvMap /\ op' = op /\ phase' = phase /\ reply' = reply
      /\ failures' = failures
  BY Zenon DEF Check
<1>3. /\ kvMap \in Seq(Op) /\ <<>> \in Seq(Op) /\ phase[c] \in {"request", "confirm"}
      /\ \A o \in DOMAIN status : status[o] \in Seq(Op)
  BY <1>1, EmptyFacts, Zenon DEF TypeOK
<1> HIDE DEF c
<1>4. CASE m.confirm /\ status' = Without(status, m.op) /\ Goes(m, "answer", <<>>)
  <2>1. ServeStep(m, "answer", <<>>)
    <3>1. DOMAIN status' = DOMAIN status \ {m.op} /\ \A o \in DOMAIN status' : status'[o] = status[o]
      BY <1>4, Zenon DEF Without
    <3> QED
      BY <1>2, <1>3, <1>4, <3>1, Zenon DEF ServeStep
  <2>2. /\ KVInv'
        /\ \A d \in Clerk \ {c} :
              Done(d)' = Done(d) /\ Seen(d)' = Seen(d) /\ Returned(d)' = Returned(d)
        /\ Returned(c)' = Returned(c)
        /\ phase[c] = "confirm" => Effective(c) /\ Effective(c)' /\ Seen(c)' = Seen(c)
    BY <1>3, <2>1, ServeStepSound, Zenon DEF c
  <2>3. Done(c)' = Done(c) /\ Seen(c)' = Seen(c)
    BY <1>1, <1>2, <1>4, <2>2, Zenon DEF Done
  <2> QED
    BY <1>1, <1>2, <2>2, <2>3, Stutters, Zenon
<1>5. CASE /\ ~m.confirm /\ m.op \in DOMAIN status
           /\ Goes(m, "answer", status[m.op]) /\ UNCHANGED status
  <2> DEFINE v == status[m.op]
  <2>1. v \in Seq(Op) /\ ServeStep(m, "answer", v)
    BY <1>2, <1>3, <1>5, Zenon DEF ServeStep
  <2> HIDE DEF v
  <2>2. phase[c] = "request"
    BY <1>1, <1>3, <1>5, Zenon
  <2>3. /\ KVInv'
        /\ \A d \in Clerk \ {c} :
              Done(d)' = Done(d) /\ Seen(d)' = Seen(d) /\ Returned(d)' = Returned(d)
        /\ Returned(c)' = Returned(c)
        /\ m.op \in DOMAIN status => Effective(c) /\ Seen(c) = status[m.op]
        /\ m.op \in DOMAIN status' => Effective(c)' /\ Seen(c)' = status'[m.op]
    BY <2>1, <2>2, ServeStepSound, Zenon DEF c
  <2>4. Done(c)' = Done(c) /\ Seen(c)' = Seen(c)
    BY <1>2, <1>5, <2>3, Zenon DEF Done
  <2> QED
    BY <1>1, <1>2, <2>3, <2>4, Stutters, Zenon
<1>6. CASE /\ ~m.confirm /\ m.op \notin DOMAIN status /\ UNCHANGED status
           /\ Goes(m, "act", IF m.op.kind = "Get" THEN kvMap ELSE <<>>)
  <2> DEFINE v == IF m.op.kind = "Get" THEN kvMap ELSE <<>>
  <2>1. v \in Seq(Op) /\ ServeStep(m, "act", v)
    BY <1>2, <1>3, <1>6, Zenon DEF ServeStep
  <2> HIDE DEF v
  <2>2. phase[c] = "request"
    BY <1>1, <1>3, <1>6, Zenon
  <2>3. /\ KVInv'
        /\ \A d \in Clerk \ {c} :
              Done(d)' = Done(d) /\ Seen(d)' = Seen(d) /\ Returned(d)' = Returned(d)
        /\ Returned(c)' = Returned(c)
        /\ Effective(c) <=> m.op \in DOMAIN status \/ (m.op.kind = "Get" /\ m.step = "act")
        /\ Effective(c)' <=> m.op \in DOMAIN status' \/ (m.op.kind = "Get" /\ "act" = "act")
        /\ m.op \notin DOMAIN status =>
               Seen(c) = IF m.op.kind = "Get" /\ m.step = "act" THEN m.val ELSE <<>>
        /\ m.op \notin DOMAIN status' =>
               Seen(c)' = IF m.op.kind = "Get" /\ "act" = "act" THEN v ELSE <<>>
    BY <2>1, <2>2, ServeStepSound, Zenon DEF c
  <2>4. ~Effective(c) /\ (Effective(c)' <=> m.op.kind = "Get") /\ Seen(c) = <<>>
    BY <1>2, <1>6, <2>3
  <2>5. CASE m.op.kind = "Get"
    <3>1. Seen(c)' = kvMap /\ kvMap' = KV!Effect(kvMap, Current(c))
      BY <1>1, <1>2, <1>6, <2>3, <2>5 DEF v, KV!Effect
    <3> QED
      BY <1>1, <1>2, <2>3, <2>4, <2>5, <3>1, TakesEffect, Zenon DEF c
  <2>6. CASE m.op.kind # "Get"
    <3>1. Seen(c)' = Seen(c) /\ Done(c)' = Done(c)
      BY <1>2, <1>6, <2>3, <2>4, <2>6, Zenon DEF Done
    <3> QED
      BY <1>1, <1>2, <2>3, <3>1, Stutters, Zenon
  <2> QED
    BY <2>5, <2>6, Zenon
<1> QED
  BY <1>4, <1>5, <1>6, Zenon DEF Check

\* The second critical section: no result was there before it, for no other call
\* of the clerk can have stored one since the first.
LEMMA ActSound ==
    ASSUME KVInv, NEW m \in calls, Act(m)
    PROVE  KVInv' /\ (UNCHANGED KV!vars \/ KV!Act(m.op.clerk))
<1> DEFINE c == m.op.clerk
           old == IF m.op.kind = "Get" THEN m.val ELSE kvMap
<1>1. /\ TypeOK /\ Sound(c) /\ c \in Clerk /\ m.op \in Op /\ m.val \in Seq(Op)
      /\ m.op = Current(c) /\ phase[c] # "idle" /\ (m.confirm <=> phase[c] = "confirm")
      /\ op[c] \in Seq(Op) /\ Len(op[c]) \in Nat
  BY CallFacts, Zenon
<1>2. /\ m.step = "act" /\ op' = op /\ phase' = phase /\ reply' = reply /\ failures' = failures
      /\ kvMap' = KV!Effect(kvMap, m.op) /\ status' = With(status, m.op, old)
      /\ Goes(m, "answer", old)
  BY Zenon DEF Act, KV!Effect
<1>3. ~m.confirm /\ m.op \notin DOMAIN status /\ phase[c] = "request"
  BY <1>1, <1>2, Zenon DEF Sound, TypeOK
<1>4. /\ kvMap \in Seq(Op) /\ old \in Seq(Op)
      /\ \A o \in DOMAIN status : status[o] \in Seq(Op)
  BY <1>1, Zenon DEF TypeOK
<1>5. m.op.kind \in Kind
  BY <1>1 DEF Op
<1>6. kvMap' \in Seq(Op)
  BY <1>1, <1>2, <1>4, <1>5 DEF Kind, KV!Effect
<1>7. /\ DOMAIN status' = DOMAIN status \cup {m.op} /\ status'[m.op] = old
      /\ \A o \in DOMAIN status : o # m.op => status'[o] = status[o]
  <2> HIDE DEF old
  <2> QED
    BY <1>2, Zenon DEF With
<1> HIDE DEF c, old
<1>8. ServeStep(m, "answer", old)
  BY <1>2, <1>3, <1>4, <1>6, <1>7, Zenon DEF ServeStep
<1>9. /\ KVInv'
      /\ \A d \in Clerk \ {c} :
            Done(d)' = Done(d) /\ Seen(d)' = Seen(d) /\ Returned(d)' = Returned(d)
      /\ Returned(c)' = Returned(c)
      /\ Effective(c) <=> m.op \in DOMAIN status \/ (m.op.kind = "Get" /\ m.step = "act")
      /\ m.op \in DOMAIN status' => Effective(c)' /\ Seen(c)' = status'[m.op]
      /\ m.op \notin DOMAIN status =>
             Seen(c) = IF m.op.kind = "Get" /\ m.step = "act" THEN m.val ELSE <<>>
  BY <1>3, <1>4, <1>8, ServeStepSound, Zenon DEF c
<1>10. Effective(c)' /\ Seen(c)' = old
  BY <1>7, <1>9, Zenon
<1>11. CASE m.op.kind = "Get"
  <2>1. Effective(c) /\ Seen(c) = m.val /\ old = m.val
    BY <1>2, <1>3, <1>9, <1>11, Zenon DEF old
  <2>2. kvMap' = kvMap
    BY <1>2, <1>11 DEF KV!Effect
  <2>3. Done(c)' = Done(c)
    BY <1>2, <1>10, <2>1, Zenon DEF Done
  <2> QED
    BY <1>1, <1>2, <1>9, <1>10, <2>1, <2>2, <2>3, Stutters, Zenon
<1>12. CASE m.op.kind # "Get"
  <2>1. ~Effective(c) /\ old = kvMap
    BY <1>3, <1>9, <1>12, Zenon DEF old
  <2>2. kvMap' = KV!Effect(kvMap, Current(c)) /\ Seen(c)' = kvMap
    BY <1>1, <1>2, <1>10, <2>1, Zenon
  <2> QED
    BY <1>1, <1>2, <1>9, <1>10, <2>1, <2>2, TakesEffect, Zenon DEF c
<1> QED
  BY <1>11, <1>12, Zenon

LEMMA InitKV == Init => KVInv /\ KV!Init
<1> SUFFICES ASSUME Init PROVE KVInv /\ KV!Init
  BY Zenon
<1>1. /\ kvMap = <<>> /\ status = <<>> /\ calls = {} /\ op = [c \in Clerk |-> <<>>]
      /\ phase = [c \in Clerk |-> "idle"] /\ reply = [c \in Clerk |-> <<>>] /\ failures = 0
  BY Zenon DEF Init
<1>2. TypeOK
  BY <1>1, EmptyFacts DEF TypeOK
<1>3. \A d \in Clerk : Sound(d)
  BY <1>1, EmptyFacts DEF Sound
<1>4. \A d \in Clerk : Done(d) = 0 /\ Returned(d) = 0 /\ Seen(d) = <<>>
  BY <1>1, EmptyFacts DEF Done, Returned, Seen, Effective
<1>5. KV!Init
  <2>1. /\ [d \in Clerk |-> Done(d)] = [c \in Clerk |-> 0]
        /\ [d \in Clerk |-> Returned(d)] = [c \in Clerk |-> 0]
        /\ [d \in Clerk |-> Seen(d)] = [c \in Clerk |-> <<>>]
    BY <1>4, Zenon
  <2> QED
    BY <1>1, <2>1 DEF KV!Init, Done, Returned
<1> QED
  BY <1>2, <1>3, <1>5, KVInvByClerk, Zenon

LEMMA NextKV == KVInv /\ [Next]_vars => KVInv' /\ [KV!Next]_(KV!vars)
<1> SUFFICES ASSUME KVInv, [Next]_vars PROVE KVInv' /\ (KV!Next \/ UNCHANGED KV!vars)
  BY Zenon
<1>1. ASSUME NEW c \in Clerk, Begin(c) PROVE KVInv' /\ KV!Next
  BY <1>1, BeginSound, Zenon DEF KV!Next
<1>2. ASSUME NEW c \in Clerk, Call(c) PROVE KVInv' /\ UNCHANGED KV!vars
  BY <1>2, CallSound, Zenon
<1>3. ASSUME NEW m \in calls, Check(m) PROVE KVInv' /\ (KV!Next \/ UNCHANGED KV!vars)
  BY <1>3, CheckSound, CallFacts, ZenonT(30) DEF KV!Next
<1>4. ASSUME NEW m \in calls, Act(m) PROVE KVInv' /\ (KV!Next \/ UNCHANGED KV!vars)
  BY <1>4, ActSound, CallFacts, ZenonT(30) DEF KV!Next
<1>5. ASSUME NEW m \in calls, Succeed(m) PROVE KVInv' /\ (KV!Next \/ UNCHANGED KV!vars)
  BY <1>5, SucceedSound, CallFacts, ZenonT(30) DEF KV!Next
<1>6. ASSUME NEW m \in calls, Drop(m) PROVE KVInv' /\ UNCHANGED KV!vars
  BY <1>6, DropSound, Zenon
<1>7. CASE UNCHANGED vars
  <2>1. KVInv'
    BY <1>7 DEF vars, KVInv, ServerInv, TypeOK, StatusIsBounded, CallInv, ClerkInv, Current
  <2>2. UNCHANGED KV!vars
    BY <1>7 DEF vars, KV!vars, Effective, Seen, Current
  <2> QED
    BY <2>1, <2>2
<1> QED
  BY <1>1, <1>2, <1>3, <1>4, <1>5, <1>6, <1>7, Zenon DEF Next, Serve

-----------------------------------------------------------------------------
(* The theorems. *)

\* The server remembers at most one result per clerk, that of the operation the
\* clerk is at: no handler of Get, Put or Append stores one that a confirmation
\* has deleted.
THEOREM ServerStaysBounded == Spec => []ServerInv
<1>1. KVInv => ServerInv
  BY Zenon DEF KVInv
<1> QED
  BY <1>1, InitKV, NextKV, PTL DEF Spec

\* However often clerks repeat a call, Get, Put and Append take effect exactly
\* once, between call and return, and return what they saw then.
THEOREM RetriesAreInvisible == Spec => KV!Init /\ [][KV!Next]_(KV!vars)
  BY InitKV, NextKV, PTL DEF Spec
=============================================================================
