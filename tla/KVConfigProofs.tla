--------------------------- MODULE KVConfigProofs ---------------------------
(***************************************************************************)
(* Proofs about the test harness and its network, for any number of        *)
(* servers, clerks, calls and restarts: what is reported as done is in the *)
(* persister of the next instance, a superseded instance is heard by       *)
(* nobody, the sides of a partition are apart, and make_partition leaves   *)
(* the leader on the smaller one.                                          *)
(***************************************************************************)
EXTENDS KVConfig, FiniteSetTheorems, TLAPS

\* How far the shutdown of a server is says which instance is registered and
\* which one writes to cfg.saved.
PhaseInv ==
    /\ instances \in [All -> Nat \ {0}] /\ owner \in [All -> Nat] /\ servers \in [All -> Nat]
    /\ phase \in [All -> {"up", "isolated", "deleted", "down", "starting"}]
    /\ \A j \in All :
        /\ owner[j] = IF phase[j] = "down" THEN 0 ELSE instances[j]
        /\ servers[j] = IF phase[j] \in {"up", "isolated"} THEN instances[j] ELSE 0

\* The ends made are those of clerks and of the instances so far; those of
\* superseded instances are disabled, and those that lead to the other side.
EndInv ==
    /\ enabled \subseteq ends /\ \A j \in All : Endnames(j) \subseteq ends
    /\ \A ck \in clerks : ClerkEnds(ck) \subseteq ends
    /\ \A e \in ends :
        /\ e = [of |-> e.of, instance |-> e.instance, to |-> e.to]
        /\ e.of \in All \cup Clerk /\ e.instance \in Nat /\ e.to \in All
        /\ e.of \in All => e.instance =< instances[e.of]
    /\ \A e \in enabled : ~Superseded(e)
    /\ \A e \in enabled : e.of \in All => (e.of \in side <=> e.to \in side)

\* Where call i is, which instance it was looked up for, and what became of it.
CallInv(i) ==
    /\ step[i] \in {"new", "sent"} => instance[i] = 0
    /\ step[i] # "new" => end[i] \in ends /\ instance[i] =< instances[end[i].to]
    /\ step[i] \in {"read", "executing", "received"} => instance[i] # 0
    /\ step[i] = "received" => handler[i] = "returned"
    /\ handler[i] # "none" => step[i] \notin {"new", "sent", "read"} /\ instance[i] # 0
    /\ handler[i] = "returned" /\ instance[i] = owner[end[i].to] => i \in durable
    /\ answer[i] => i \in durable
    /\ i \in late => /\ step[i] \in {"sent", "answered", "returned"} /\ handler[i] = "none"
                     /\ Superseded(end[i])

CallTypes ==
    /\ step \in [CallId -> {"new", "sent", "read", "executing", "received", "answered", "returned"}]
    /\ end \in [CallId -> ends \cup {NoEnd}] /\ instance \in [CallId -> Nat]
    /\ handler \in [CallId -> {"none", "running", "returned"}]
    /\ answer \in [CallId -> BOOLEAN] /\ late \subseteq CallId

Inv == PhaseInv /\ EndInv /\ CallTypes /\ \A i \in CallId : CallInv(i)

-----------------------------------------------------------------------------
\* make_config establishes the invariant.
LEMMA InitInv == Init => Inv
<1> SUFFICES ASSUME Init PROVE Inv
  OBVIOUS
<1>1. PhaseInv
  BY DEF Init, PhaseInv
<1>2. EndInv
  BY DEF Init, EndInv, Superseded, Endnames, ClerkEnds
<1>3. CallTypes
  BY DEF Init, MakeNetwork, CallTypes
<1>4. ASSUME NEW i \in CallId PROVE CallInv(i)
  BY DEF Init, MakeNetwork, CallInv
<1> QED
  BY <1>1, <1>2, <1>3, <1>4 DEF Inv

\* What the harness does to servers and ends leaves what is known of calls: the
\* instance that writes to cfg.saved only gives way to none or to a new one, and
\* an instance that is superseded stays so.
LEMMA CallsKept ==
    ASSUME Inv, UNCHANGED <<calls, durable, late>>, ends \subseteq ends',
           \A j \in All : /\ instances'[j] \in Nat /\ instances[j] =< instances'[j]
                          /\ (owner'[j] \in {0, owner[j]} \/ owner'[j] > instances[j]),
           \A e \in ends : Superseded(e) => Superseded(e)'
    PROVE  CallTypes' /\ \A i \in CallId : CallInv(i)'
<1>1. CallTypes'
  BY DEF Inv, CallTypes, calls
<1>2. ASSUME NEW i \in CallId PROVE CallInv(i)'
  <2>1. CallInv(i) /\ CallTypes /\ EndInv /\ PhaseInv
    BY DEF Inv
  <2>2. step[i] # "new" => end[i].to \in All
    BY <2>1 DEF CallInv, EndInv
  <2>3. (step[i] # "new" => end[i] \in ends /\ instance[i] =< instances[end[i].to])'
    BY <2>1, <2>2 DEF CallInv, CallTypes, PhaseInv, calls
  <2>4. (handler[i] = "returned" /\ instance[i] = owner[end[i].to] => i \in durable)'
    BY <2>1, <2>2 DEF CallInv, CallTypes, PhaseInv, calls
  <2>5. (i \in late => /\ step[i] \in {"sent", "answered", "returned"} /\ handler[i] = "none"
                       /\ Superseded(end[i]))'
    <3>1. UNCHANGED <<late, step, handler, end>>
      BY DEF calls
    <3>2. ASSUME i \in late PROVE Superseded(end[i])'
      <4>1. PICK e \in ends : e = end[i] /\ Superseded(e)
        BY <2>1, <3>2 DEF CallInv
      <4>2. Superseded(e)'
        BY <4>1
      <4> QED
        BY <3>1, <4>1, <4>2 DEF Superseded
    <3> QED
      BY <2>1, <3>1, <3>2 DEF CallInv
  <2> QED
    BY <2>1, <2>3, <2>4, <2>5 DEF CallInv, calls
<1> QED
  BY <1>1, <1>2

\* Nothing changes about a call that is not the one that takes the step.
LEMMA OtherCall ==
    ASSUME Inv, NEW i \in CallId,
           UNCHANGED <<Network, config>>, durable \subseteq durable', i \in late' <=> i \in late,
           step'[i] = step[i], end'[i] = end[i], instance'[i] = instance[i],
           handler'[i] = handler[i], answer'[i] = answer[i],
           i \in durable' => i \in durable
    PROVE  CallInv(i)'
<1>1. UNCHANGED <<ends, instances, owner, phase>>
  BY DEF Network, config
<1>2. Superseded(end[i])' <=> Superseded(end[i])
  BY <1>1 DEF Superseded
<1> QED
  BY <1>1, <1>2 DEF Inv, CallInv

\* A step of call k: what is made, looked up, dispatched, executed, received,
\* given up, answered and returned.
LEMMA CallStep ==
    ASSUME Inv, NEW k \in CallId, MakeCall(k) \/ Process(k) \/ Execute(k)
    PROVE  Inv'
<1> USE DEF Goes, Answers
<1>1. UNCHANGED <<Network, config>>
  BY Zenon DEF MakeCall, Process, Execute
<1>2. PhaseInv' /\ EndInv'
  <2>1. UNCHANGED <<ends, enabled, servers, instances, owner, phase, clerks, side>>
    BY <1>1 DEF Network, config
  <2> QED
    BY <2>1 DEF Inv, PhaseInv, EndInv, Superseded, Endnames, ClerkEnds
<1>3. CallInv(k) /\ CallTypes /\ EndInv /\ PhaseInv
  BY DEF Inv
<1>4. UNCHANGED <<ends, enabled, servers, instances, owner, phase>>
  BY <1>1 DEF Network, config
<1>5. CASE MakeCall(k)
  <2>1. PICK e \in ends : Call(k, e) /\ late' = IF Superseded(e) THEN late \cup {k} ELSE late
    BY <1>5 DEF MakeCall
  <2>2. UNCHANGED durable
    BY <1>5 DEF MakeCall
  <2>3. CallTypes'
    BY <1>3, <1>4, <2>1 DEF CallTypes, Call
  <2>4. CallInv(k)'
    <3>1. step[k] = "new" /\ k \notin late /\ handler[k] = "none"
      BY <1>3, <2>1 DEF Call, CallInv
    <3>2. step'[k] \in {"sent", "returned"} /\ end'[k] = e /\ instance'[k] = 0
          /\ handler'[k] = "none" /\ answer'[k] = answer[k]
      BY <1>3, <2>1, <3>1 DEF CallTypes, CallInv, Call
    <3>3. k \in late' => Superseded(e)
      BY <2>1, <3>1
    <3>4. Superseded(e) => Superseded(end[k])'
      BY <1>4, <3>2 DEF Superseded
    <3>5. e \in ends' /\ 0 =< instances'[e.to]
      BY <1>3, <1>4 DEF EndInv, PhaseInv
    <3> QED
      BY <1>3, <2>2, <3>2, <3>3, <3>4, <3>5 DEF CallInv
  <2>5. ASSUME NEW i \in CallId, i # k PROVE CallInv(i)'
    BY <1>1, <1>3, <2>1, <2>2, <2>5, OtherCall DEF CallTypes, Call
  <2> QED
    BY <1>2, <2>3, <2>4, <2>5 DEF Inv
<1>6. CASE Process(k)
  <2>1. UNCHANGED <<durable, late>> /\ ProcessReq(k)
    BY <1>6 DEF Process
  <2>2. CallTypes'
    <3> USE <1>3, <1>4, <2>1 DEF CallTypes
    <3>1. CASE ReadEndnameInfo(k)
      <4>1. step[k] = "sent"
        BY <3>1 DEF ReadEndnameInfo
      <4>2. servers[end[k].to] \in Nat
        BY <4>1 DEF CallInv, EndInv, PhaseInv
      <4> QED
        BY <3>1, <4>2, Zenon DEF ReadEndnameInfo
    <3>2. CASE Dispatch(k) \/ Receive(k) \/ GiveUp(k) \/ Reply(k) \/ Return(k)
      BY <3>2, Zenon DEF Dispatch, Receive, GiveUp, Reply, Return
    <3> QED
      BY <3>1, <3>2 DEF ProcessReq
  <2>3. ASSUME NEW i \in CallId, i # k PROVE CallInv(i)'
    <3>1. /\ step'[i] = step[i] /\ end'[i] = end[i] /\ instance'[i] = instance[i]
          /\ handler'[i] = handler[i] /\ answer'[i] = answer[i]
      BY <1>3, <2>1, <2>3 DEF CallTypes, ProcessReq, ReadEndnameInfo, Dispatch, Receive, GiveUp, Reply, Return
    <3> QED
      BY <1>1, <2>1, <3>1, OtherCall
  <2>4. end' = end
    BY <2>1 DEF ProcessReq, ReadEndnameInfo, Dispatch, Receive, GiveUp, Reply, Return
  <2>5. Superseded(end[k])' <=> Superseded(end[k])
    BY <1>4, <2>4 DEF Superseded
  <2> DEFINE to == end[k].to
  <2>6. step[k] # "new" /\ end[k] \in ends /\ to \in All
    BY <1>3, <2>1 DEF CallInv, EndInv, ProcessReq, ReadEndnameInfo, Dispatch, Receive, GiveUp, Reply, Return
  <2>7. servers[to] \in Nat /\ servers[to] =< instances[to]
    BY <1>3, <2>6 DEF PhaseInv
  <2>8. CallInv(k)'
    <3> USE <1>3, <1>4, <2>1, <2>4, <2>5, <2>6
    <3>1. CASE ReadEndnameInfo(k) /\ Reachable(end[k])
      <4>1. k \notin late
        BY <3>1 DEF CallInv, EndInv, Reachable
      <4>2. /\ step[k] = "sent" /\ step'[k] = "read" /\ instance'[k] = servers[to]
            /\ handler' = handler /\ answer' = answer
        BY <3>1 DEF CallTypes, ReadEndnameInfo
      <4>3. servers[to] # 0 /\ servers[to] =< instances[to]
        BY <2>7, <3>1 DEF Reachable
      <4> QED
        BY <4>1, <4>2, <4>3 DEF CallInv
    <3>2. CASE ReadEndnameInfo(k) /\ ~Reachable(end[k])
      BY <3>2 DEF CallTypes, CallInv, ReadEndnameInfo
    <3>3. CASE Dispatch(k)
      BY <3>3 DEF CallTypes, CallInv, Dispatch
    <3>4. CASE Receive(k)
      BY <3>4 DEF CallTypes, CallInv, Receive
    <3>5. CASE GiveUp(k)
      BY <3>5 DEF CallTypes, CallInv, GiveUp
    <3>6. CASE Reply(k)
      <4>1. PICK ok \in BOOLEAN : Answers(k, "received", ok) /\ (ok => ~IsServerDead(k))
        BY <3>6, Zenon DEF Reply
      <4>2. ok => servers[to] = instance[k] /\ instance[k] # 0
        BY <4>1 DEF IsServerDead, CallInv
      <4>3. ok => k \in durable
        BY <4>1, <4>2 DEF PhaseInv, CallInv
      <4> QED
        BY <3>6, <4>1, <4>3 DEF CallTypes, CallInv, Reply
    <3>7. CASE Return(k)
      BY <3>7 DEF CallTypes, CallInv, Return
    <3> QED
      BY <3>1, <3>2, <3>3, <3>4, <3>5, <3>6, <3>7 DEF ProcessReq
  <2> QED
    BY <1>2, <2>2, <2>3, <2>8 DEF Inv
<1>7. CASE Execute(k)
  <2>1. /\ Handle(k) /\ UNCHANGED late
        /\ durable' = IF instance[k] = owner[end[k].to] THEN durable \cup {k} ELSE durable
    BY <1>7 DEF Execute
  <2>2. CallTypes'
    BY <1>3, <1>4, <2>1 DEF CallTypes, Handle
  <2>3. ASSUME NEW i \in CallId, i # k PROVE CallInv(i)'
    BY <1>1, <1>3, <2>1, <2>3, OtherCall DEF CallTypes, Handle
  <2>4. CallInv(k)'
    <3>1. k \notin late
      BY <1>3, <2>1 DEF Handle, CallInv
    <3> QED
      BY <1>3, <1>4, <2>1, <3>1 DEF CallTypes, CallInv, Handle
  <2> QED
    BY <1>2, <2>2, <2>3, <2>4 DEF Inv
<1> QED
  BY <1>5, <1>6, <1>7
\* Connecting operations preserve the invariant if they preserve EndInv.
LEMMA SwitchStep ==
    ASSUME Inv, NEW E, Switch(E), ends \subseteq ends', EndInv'
    PROVE  Inv'
<1>1. UNCHANGED <<servers, down, calls, instances, owner, phase, durable, late>>
  BY DEF Switch
<1>2. PhaseInv'
  BY <1>1 DEF Inv, PhaseInv
<1>3. CallTypes' /\ \A i \in CallId : CallInv(i)'
  <2>1. \A j \in All : /\ instances'[j] \in Nat /\ instances[j] =< instances'[j]
                       /\ (owner'[j] \in {0, owner[j]} \/ owner'[j] > instances[j])
    BY <1>1 DEF Inv, PhaseInv
  <2>2. \A e \in ends : Superseded(e) => Superseded(e)'
    BY <1>1 DEF Superseded
  <2> QED
    BY <1>1, <2>1, <2>2, CallsKept
<1> QED
  BY <1>2, <1>3 DEF Inv

\* With every server up, the current ends of the servers are not superseded.
LEMMA BetweenIsCurrent ==
    ASSUME Inv, AllUp, NEW p \in SUBSET All, NEW q \in SUBSET All, NEW e \in Between(p, q)
    PROVE  /\ e = [of |-> e.of, instance |-> e.instance, to |-> e.to]
           /\ e.of \in All /\ e.to \in All /\ e.instance = instances[e.of]
           /\ ~Superseded(e)
           /\ (e.of \in p /\ e.to \in q) \/ (e.of \in q /\ e.to \in p)
           /\ e \in ends
<1>1. PICK j \in All : e \in Endnames(j)
  BY DEF Between
<1>2. e.of = j /\ e.instance = instances[j] /\ e.to \in All
      /\ e = [of |-> e.of, instance |-> e.instance, to |-> e.to]
  BY <1>1 DEF Endnames
<1>3. ~Superseded(e)
  BY <1>2 DEF Superseded, AllUp
<1>4. (e.of \in p /\ e.to \in q) \/ (e.of \in q /\ e.to \in p)
  BY DEF Between
<1>5. e \in ends
  BY <1>1 DEF Inv, EndInv
<1> QED
  BY <1>2, <1>3, <1>4, <1>5

\* partition with any two sides that make up all servers.
LEMMA PartitionStep ==
    ASSUME Inv, NEW p \in SUBSET All, Partition(p, All \ p)
    PROVE  Inv'
<1> DEFINE q == All \ p
           E == Separate(Separate(enabled, p, q), q, p)
<1>1. Switch(E) /\ AllUp /\ side' = p /\ ends' = ends /\ clerks' = clerks /\ enabled' = E
  BY DEF Partition, Switch
<1>2. UNCHANGED <<instances, phase>>
  BY <1>1 DEF Switch
<1>3. ASSUME NEW e \in enabled'
      PROVE  ~Superseded(e) /\ (e.of \in All => (e.of \in p <=> e.to \in p))
  <2>1. CASE e \in Between(p, p)
    BY <1>1, <2>1, BetweenIsCurrent
  <2>2. CASE e \in Between(q, q)
    BY <1>1, <2>2, BetweenIsCurrent
  <2>3. CASE e \in enabled \ Between(p, q)
    <3>1. ~Superseded(e) /\ e.to \in All /\ e = [of |-> e.of, instance |-> e.instance, to |-> e.to]
      BY <2>3 DEF Inv, EndInv
    <3>2. e.of \in All => e \in Endnames(e.of)
      BY <3>1 DEF Superseded, Endnames
    <3> QED
      BY <2>3, <3>1, <3>2 DEF Between
  <2> QED
    BY <1>1, <1>3, <2>1, <2>2, <2>3 DEF Separate, Connected, Disconnected
<1>4. EndInv'
  <2>1. enabled' \subseteq ends
    <3>1. Between(p, p) \subseteq ends /\ Between(q, q) \subseteq ends
      BY <1>1, BetweenIsCurrent
    <3> QED
      BY <1>1, <3>1, Zenon DEF Inv, EndInv, Separate, Connected, Disconnected
  <2>2. \A e \in enabled' : Superseded(e)' <=> Superseded(e)
    BY <1>2 DEF Superseded
  <2> QED
    BY <1>1, <1>2, <1>3, <2>1, <2>2, Zenon DEF Inv, EndInv, Endnames, ClerkEnds
<1> QED
  BY <1>1, <1>4, SwitchStep
\* ConnectAll.
LEMMA ConnectAllStep ==
    ASSUME Inv, ConnectAll
    PROVE  Inv'
<1> DEFINE E == Connected(enabled, All, All)
<1>1. Switch(E) /\ AllUp /\ side' = All /\ ends' = ends /\ clerks' = clerks /\ enabled' = E
  BY DEF ConnectAll, Switch
<1>2. UNCHANGED <<instances, phase>>
  BY <1>1 DEF Switch
<1>3. ASSUME NEW e \in enabled'
      PROVE  e \in ends /\ ~Superseded(e)
  BY <1>1, BetweenIsCurrent DEF Inv, EndInv, Connected
<1>4. \A e \in enabled' : Superseded(e)' <=> Superseded(e)
  BY <1>2 DEF Superseded
<1>5. EndInv'
  BY <1>1, <1>2, <1>3, <1>4 DEF Inv, EndInv, Endnames, ClerkEnds
<1> QED
  BY <1>1, <1>5, SwitchStep

\* The clerks' operations touch ends of clerks only.
LEMMA ClerkStep ==
    ASSUME Inv, NEW ck \in Clerk, NEW to,
           MakeClient(ck, to) \/ ConnectClient(ck, to) \/ DisconnectClient(ck, to) \/ DeleteClient(ck)
    PROVE  Inv'
<1> USE DEF MakeEnds
<1>1. PICK E : Switch(E)
  BY DEF MakeClient, ConnectClient, DisconnectClient, DeleteClient
<1>2. UNCHANGED <<instances, phase, side>>
  BY <1>1 DEF Switch, MakeClient, ConnectClient, DisconnectClient, DeleteClient
<1>3. \A e \in ClerkEnds(ck) :
        /\ e = [of |-> e.of, instance |-> e.instance, to |-> e.to]
        /\ e.of = ck /\ e.of \notin All /\ e.instance \in Nat /\ e.to \in All
  BY NameAssumption DEF ClerkEnds
<1>4. ends \subseteq ends' /\ ends' \subseteq ends \cup ClerkEnds(ck)
      /\ enabled' \subseteq enabled \cup (ClerkEnds(ck) \cap ends')
  <2>1. ck \in clerks => ClerkEnds(ck) \subseteq ends
    BY DEF Inv, EndInv
  <2>2. CASE MakeClient(ck, to)
    BY <2>2 DEF Switch, MakeClient
  <2>3. CASE ConnectClient(ck, to)
    BY <2>1, <2>3 DEF Switch, ConnectClient
  <2>4. CASE DisconnectClient(ck, to) \/ DeleteClient(ck)
    BY <2>4 DEF Switch, DisconnectClient, DeleteClient
  <2> QED
    BY <2>2, <2>3, <2>4
<1>5. ASSUME NEW e PROVE Superseded(e)' <=> Superseded(e)
  BY <1>2 DEF Superseded
<1>6. ASSUME NEW e \in ClerkEnds(ck) PROVE ~Superseded(e)
  BY <1>3 DEF Superseded
<1>7. clerks' \subseteq clerks \/ (clerks' \subseteq clerks \cup {ck} /\ ClerkEnds(ck) \subseteq ends')
  BY DEF MakeClient, ConnectClient, DisconnectClient, DeleteClient
<1>8. \A c \in clerks' : ClerkEnds(c) \subseteq ends'
  BY <1>4, <1>7 DEF Inv, EndInv
<1>9. EndInv'
  BY <1>2, <1>3, <1>4, <1>5, <1>6, <1>8 DEF Inv, EndInv, Endnames, ClerkEnds
<1> QED
  BY <1>1, <1>4, <1>9, SwitchStep

\* ShutdownServer and StartServer.
LEMMA ServerStep ==
    ASSUME Inv, NEW k \in All,
           Isolate(k) \/ Unregister(k) \/ CopyPersister(k) \/ StartServer(k) \/ Register(k)
    PROVE  Inv'
<1> USE DEF Proceeds, MakeEnds, AddServer, DeleteServer
<1>1. PhaseInv /\ EndInv
  BY DEF Inv
<1>2. UNCHANGED <<calls, clerks, durable, side, late>>
  BY DEF Isolate, Unregister, CopyPersister, StartServer, Register
<1>3. PhaseInv'
  BY <1>1 DEF PhaseInv, Isolate, Unregister, CopyPersister, StartServer, Register
<1>4. \A j \in All : /\ instances'[j] \in Nat /\ instances[j] =< instances'[j]
                     /\ (owner'[j] \in {0, owner[j]} \/ owner'[j] > instances[j])
  BY <1>1 DEF PhaseInv, Isolate, Unregister, CopyPersister, StartServer, Register
<1>5. \A e \in ends : Superseded(e) => Superseded(e)'
  <2> SUFFICES ASSUME NEW e \in ends, Superseded(e) PROVE Superseded(e)'
    OBVIOUS
  <2>1. e.of \in All /\ e.instance \in Nat /\ e.instance =< instances[e.of]
    BY <1>1 DEF EndInv, Superseded
  <2> QED
    BY <1>1, <2>1 DEF PhaseInv, Superseded, Isolate, Unregister, CopyPersister, StartServer, Register
<1>6. ends \subseteq ends'
  BY DEF Isolate, Unregister, CopyPersister, StartServer, Register
<1>7. EndInv'
  <2>1. enabled' \subseteq enabled
    BY DEF Isolate, Unregister, CopyPersister, StartServer, Register, Disconnected
  <2>2. ASSUME NEW e \in enabled' PROVE ~Superseded(e)'
    <3>1. e \in enabled /\ e \in ends /\ ~Superseded(e)
      BY <1>1, <2>1 DEF EndInv
    <3>2. e = [of |-> e.of, instance |-> e.instance, to |-> e.to] /\ e.to \in All
      BY <1>1, <3>1 DEF EndInv
    <3>3. CASE Isolate(k)
      <4>1. e.of = k /\ e.instance = instances[k] => e \in Between({k}, All)
        BY <3>2 DEF Between, Endnames
      <4> QED
        BY <1>1, <2>2, <3>1, <3>3, <4>1 DEF Isolate, Disconnected, PhaseInv, Superseded
    <3>4. CASE Unregister(k) \/ CopyPersister(k) \/ Register(k)
      BY <1>1, <3>1, <3>4 DEF Unregister, CopyPersister, Register, PhaseInv, Superseded
    <3>5. CASE StartServer(k)
      BY <1>1, <3>1, <3>5 DEF StartServer, PhaseInv, Superseded
    <3> QED
      BY <3>3, <3>4, <3>5
  <2>3. ASSUME NEW j \in All PROVE Endnames(j)' \subseteq ends'
    <3>1. CASE StartServer(k)
      <4>1. j # k => Endnames(j)' = Endnames(j)
        BY <1>1, <3>1, Zenon DEF StartServer, Endnames, PhaseInv
      <4> QED
        BY <1>1, <3>1, <4>1 DEF StartServer, EndInv
    <3>2. CASE Isolate(k) \/ Unregister(k) \/ CopyPersister(k) \/ Register(k)
      BY <1>1, <3>2 DEF Isolate, Unregister, CopyPersister, Register, Endnames, EndInv
    <3> QED
      BY <3>1, <3>2
  <2>4. ASSUME NEW e \in ends'
        PROVE  /\ e = [of |-> e.of, instance |-> e.instance, to |-> e.to]
               /\ e.of \in All \cup Clerk /\ e.instance \in Nat /\ e.to \in All
               /\ e.of \in All => e.instance =< instances'[e.of]
    <3>1. CASE e \in ends
      BY <1>1, <1>4, <3>1 DEF EndInv, PhaseInv
    <3>2. CASE e \notin ends
      <4>1. StartServer(k) /\ e \in Endnames(k)'
        BY <2>4, <3>2 DEF Isolate, Unregister, CopyPersister, StartServer, Register
      <4>2. PICK t \in All : e = [of |-> k, instance |-> instances'[k], to |-> t]
        BY <4>1 DEF Endnames
      <4>3. instances'[k] \in Nat
        BY <1>4, Zenon
      <4> QED
        BY <4>2, <4>3
    <3> QED
      BY <3>1, <3>2
  <2>5. \A ck \in clerks' : ClerkEnds(ck) \subseteq ends'
    BY <1>1, <1>2, <1>6 DEF EndInv
  <2> QED
    BY <1>1, <1>2, <1>6, <2>1, <2>2, <2>3, <2>4, <2>5 DEF EndInv, ClerkEnds
<1>8. CallTypes' /\ \A i \in CallId : CallInv(i)'
  BY <1>2, <1>4, <1>5, <1>6, CallsKept, Zenon
<1> QED
  BY <1>3, <1>7, <1>8 DEF Inv
\* Every step preserves the invariant.
LEMMA NextInv == Inv /\ [Next]_vars => Inv'
<1> SUFFICES ASSUME Inv, [Next]_vars PROVE Inv'
  OBVIOUS
<1>1. CASE \E i \in CallId : MakeCall(i) \/ Process(i) \/ Execute(i)
  BY <1>1, CallStep
<1>2. CASE ConnectAll
  BY <1>2, ConnectAllStep
<1>3. CASE Repartition
  BY <1>3, PartitionStep DEF Repartition
<1>4. CASE PartitionLeader
  <2>1. PICK l \in All : Partition(MakePartition(l), All \ MakePartition(l))
    BY <1>4 DEF PartitionLeader
  <2>2. MakePartition(l) \in SUBSET All
    BY DEF MakePartition
  <2> QED
    BY <2>1, <2>2, PartitionStep
<1>5. CASE \E ck \in Clerk, to \in Lists :
               MakeClient(ck, to) \/ ConnectClient(ck, to) \/ DisconnectClient(ck, to)
  BY <1>5, ClerkStep
<1>6. CASE \E ck \in Clerk : DeleteClient(ck)
  BY <1>6, ClerkStep
<1>7. CASE \E i \in Victims :
               Isolate(i) \/ Unregister(i) \/ CopyPersister(i) \/ StartServer(i) \/ Register(i)
  BY <1>7, ServerStep, NameAssumption
<1>8. CASE Cleanup \/ UNCHANGED vars
  <2>1. UNCHANGED <<ends, enabled, servers, calls, instances, owner, phase, clerks, side, durable, late>>
    BY <1>8 DEF Cleanup, vars, Network, config
  <2>2. PhaseInv' /\ EndInv'
    BY <2>1, Zenon DEF Inv, PhaseInv, EndInv, Superseded, Endnames, ClerkEnds
  <2>3. CallTypes' /\ \A i \in CallId : CallInv(i)'
    BY <2>1, Zenon DEF Inv, CallTypes, CallInv, Superseded, calls
  <2> QED
    BY <2>2, <2>3 DEF Inv
<1> QED
  BY <1>1, <1>2, <1>3, <1>4, <1>5, <1>6, <1>7, <1>8 DEF Next

-----------------------------------------------------------------------------
(* The minority of make_partition. *)

\* Every server but the leader has as many before it as its number says, less
\* one after the leader.
LEMMA ServersBefore ==
    ASSUME NEW l \in All, NEW i \in All \ {l}
    PROVE  Cardinality({j \in All \ {l} : j < i}) = IF l < i THEN i - 1 ELSE i
<1>1. i \in Nat /\ l \in Nat /\ l # i /\ {j \in All \ {l} : j < i} = (0 .. (i - 1)) \ {l}
  BY BoundAssumption DEF All
<1>2. IsFiniteSet(0 .. (i - 1)) /\ Cardinality(0 .. (i - 1)) = i
  <2>1. i - 1 \in Int /\ 0 \in Int
    BY <1>1
  <2>2. /\ IsFiniteSet(0 .. (i - 1))
        /\ Cardinality(0 .. (i - 1)) = IF 0 > i - 1 THEN 0 ELSE (i - 1) - 0 + 1
    BY <2>1, FS_Interval, Zenon
  <2> QED
    BY <1>1, <2>2
<1>3. Cardinality((0 .. (i - 1)) \ {l}) = IF l \in 0 .. (i - 1) THEN i - 1 ELSE i
  BY <1>2, FS_RemoveElement, Zenon
<1>4. l \in 0 .. (i - 1) <=> l < i
  BY <1>1
<1> QED
  BY <1>1, <1>3, <1>4, Zenon

\* The first side of make_partition is a majority without the leader.
LEMMA LeaderInMinority ==
    ASSUME NEW l \in All
    PROVE  /\ l \notin MakePartition(l) /\ MakePartition(l) \subseteq All
           /\ IsFiniteSet(All \ MakePartition(l))
           /\ 2 * Cardinality(All \ MakePartition(l)) < N
<1> DEFINE p == MakePartition(l)
           half == N \div 2
           last == IF l =< half THEN half + 1 ELSE half
<1>1. half \in Nat /\ N = 2 * half + 1 /\ half > 0 /\ l \in Nat /\ l < N
  BY BoundAssumption DEF All
<1> HIDE DEF half
<1>2. l \notin p /\ p \subseteq All
  BY DEF MakePartition
<1>3. All \ p = ((last + 1) .. (N - 1)) \cup {l}
  <2>1. ASSUME NEW i \in All \ {l} PROVE i \in p <=> i =< last
    <3>1. i \in p <=> (IF l < i THEN i - 1 ELSE i) =< half
      BY ServersBefore, Zenon DEF MakePartition, half
    <3>2. i \in Nat /\ i # l
      BY BoundAssumption DEF All
    <3> QED
      BY <1>1, <3>1, <3>2
  <2>2. \A i : i \in All <=> i \in Nat /\ i =< N - 1
    BY <1>1 DEF All
  <2> HIDE DEF p
  <2>3. \A i : i \in (last + 1) .. (N - 1) <=> i \in All /\ ~(i =< last)
    BY <1>1, <2>2
  <2> QED
    BY <1>1, <1>2, <2>1, <2>2, <2>3
<1> HIDE DEF p
<1> DEFINE rest == (last + 1) .. (N - 1)
<1>4. last \in Nat /\ last + 1 \in Int /\ N - 1 \in Int /\ last =< half + 1 /\ last >= half
  BY <1>1
<1>5. IsFiniteSet(rest) /\ Cardinality(rest) = (N - 1) - last
  <2>1. /\ IsFiniteSet(rest)
        /\ Cardinality(rest) = IF last + 1 > N - 1 THEN 0 ELSE (N - 1) - (last + 1) + 1
    BY <1>4, FS_Interval, Zenon
  <2> QED
    BY <1>1, <1>4, <2>1
<1>6. IsFiniteSet(rest \cup {l}) /\ Cardinality(rest \cup {l}) =
          IF l \in rest THEN Cardinality(rest) ELSE Cardinality(rest) + 1
  BY <1>5, FS_AddElement, Zenon
<1>7. 2 * Cardinality(rest \cup {l}) < N
  <2>1. CASE l =< half
    BY <1>1, <1>4, <1>5, <1>6, <2>1
  <2>2. CASE ~(l =< half)
    <3>1. l \in rest /\ last = half
      BY <1>1, <2>2
    <3> QED
      BY <1>1, <1>5, <1>6, <3>1
  <2> QED
    BY <2>1, <2>2, Zenon
<1> QED
  BY <1>2, <1>3, <1>6, <1>7, Zenon DEF p

\* The leader that make_partition was made for is on the side of the minority.
CutInv ==
    cut # NoServer => /\ cut \in All /\ cut \notin side
                      /\ IsFiniteSet(All \ side) /\ 2 * Cardinality(All \ side) < N

LEMMA InitCut == Init => CutInv
BY Zenon DEF Init, CutInv

\* Only connecting all the servers and partitioning them move the sides.
LEMMA NextCut == CutInv /\ [Next]_vars => CutInv'
<1> SUFFICES ASSUME CutInv, [Next]_vars PROVE CutInv'
  BY Zenon
<1>1. CASE UNCHANGED <<side, cut>>
  BY <1>1, Zenon DEF CutInv
<1>2. CASE cut' = NoServer
  BY <1>2, Zenon DEF CutInv
<1>3. ASSUME PartitionLeader PROVE CutInv'
  <2>1. PICK l \in All : Partition(MakePartition(l), All \ MakePartition(l)) /\ cut' = l
    BY <1>3, Zenon DEF PartitionLeader
  <2>2. side' = MakePartition(l)
    BY <2>1, Zenon DEF Partition
  <2> QED
    BY <2>1, <2>2, LeaderInMinority, Zenon DEF CutInv
<1>4. ASSUME Next PROVE UNCHANGED <<side, cut>> \/ cut' = NoServer \/ PartitionLeader
  BY <1>4, Zenon DEF Next, MakeCall, Process, Execute, ConnectAll, Repartition, MakeClient,
       ConnectClient, DisconnectClient, DeleteClient, Isolate, Unregister, CopyPersister,
       StartServer, Register, Proceeds, Cleanup, config
<1>5. CASE UNCHANGED vars
  BY <1>1, <1>5, Zenon DEF vars, config
<1> QED
  BY <1>1, <1>2, <1>3, <1>4, <1>5, Zenon

\* The ends of the leader that are enabled lead to its side.
LEMMA CutIsApart == Inv /\ CutInv => LeaderIsCutOff
<1> SUFFICES ASSUME Inv, CutInv, cut # NoServer
             PROVE  2 * Cardinality(Endnames(cut) \cap enabled) < N
  BY Zenon DEF LeaderIsCutOff
<1> DEFINE E == Endnames(cut) \cap enabled
           f == [e \in E |-> e.to]
<1>1. /\ cut \in All /\ cut \notin side
      /\ IsFiniteSet(All \ side) /\ 2 * Cardinality(All \ side) < N
  BY Zenon DEF CutInv
<1>2. \A e \in E : e = [of |-> cut, instance |-> instances[cut], to |-> e.to] /\ e.to \in All
  BY DEF Endnames
<1>3. \A e \in E : e.to \in All \ side
  BY <1>1, <1>2, Zenon DEF Inv, EndInv
<1>4. f \in Injection(E, All \ side)
  BY <1>2, <1>3 DEF Injection, IsInjective
<1>5. IsFiniteSet(E) /\ Cardinality(E) =< Cardinality(All \ side)
  BY <1>1, <1>4, FS_Injection, Zenon
<1>6. Cardinality(E) \in Nat /\ Cardinality(All \ side) \in Nat /\ N \in Nat
  BY <1>1, <1>5, FS_CardinalityType, BoundAssumption, Zenon
<1> QED
  BY <1>1, <1>5, <1>6

-----------------------------------------------------------------------------
(* The theorems. *)

\* "to avoid situation in which a client gets a positive reply to an Append, but
\* the server persisted the update into the old Persister": a call that
\* processReq reports as done has reached the persister that the next instance
\* is started from, in whatever order ShutdownServer and the network proceed.
THEOREM PositiveReplyIsDurable == Spec => []PositiveIsDurable
<1>1. Inv => PositiveIsDurable
  BY DEF Inv, CallInv, PositiveIsDurable
<1> QED
  BY <1>1, InitInv, NextInv, PTL DEF Spec

\* A call that an instance makes after ShutdownServer isolated it is handled by
\* no server, however often servers are started and connected after that.
THEOREM SupersededInstanceIsSilent == Spec => []SupersededIsSilent
<1>1. Inv => SupersededIsSilent
  BY Zenon DEF Inv, CallInv, CallTypes, SupersededIsSilent
<1> QED
  BY <1>1, InitInv, NextInv, PTL DEF Spec

\* A request of a server on one side of a partition is not taken to a server of
\* the other side, for all ways to make two sides of the servers.
THEOREM PartitionSeparates == Spec => SidesAreApart
<1> DEFINE Apart == \A i \in CallId :
              /\ step[i] = "sent" /\ step'[i] = "read"
              /\ end[i].of \in All
              => (end[i].of \in side <=> end[i].to \in side)
<1>1. Inv /\ [Next]_vars => [Apart]_vars
  <2> SUFFICES ASSUME Inv, Next, NEW i \in CallId,
                      step[i] = "sent", step'[i] = "read", end[i].of \in All
               PROVE  end[i].of \in side <=> end[i].to \in side
    OBVIOUS
  <2>1. step' # step
    BY DEF Inv, CallTypes
  <2>2. PICK k \in CallId : MakeCall(k) \/ Process(k) \/ Execute(k)
    BY <2>1, Zenon DEF Next, ConnectAll, Repartition, PartitionLeader, Partition, Switch, MakeClient,
                ConnectClient, DisconnectClient, DeleteClient, Isolate, Unregister, CopyPersister,
                StartServer, Register, Proceeds, Cleanup, calls
  <2>3. ReadEndnameInfo(k) /\ k = i
    BY <2>2, Zenon DEF Inv, CallTypes, MakeCall, Call, Process, ProcessReq, ReadEndnameInfo, Dispatch,
                Receive, GiveUp, Reply, Return, Execute, Handle, Goes, Answers
  <2>4. end[i] \in enabled
    BY <2>3 DEF Inv, CallTypes, ReadEndnameInfo, Reachable, Goes, Answers
  <2> QED
    BY <2>4 DEF Inv, EndInv
<1> QED
  BY <1>1, InitInv, NextInv, PTL DEF Spec, SidesAreApart

\* "put current leader in minority": in each partition that make_partition was
\* made for, the leader it found has enabled ends to less than a majority of the
\* servers, for any odd number of them, also when it is restarted.
THEOREM LeaderStaysCutOff == Spec => []LeaderIsCutOff
BY InitInv, NextInv, InitCut, NextCut, CutIsApart, PTL DEF Spec
=============================================================================
