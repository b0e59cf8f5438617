------------------------------- MODULE LabRPC -------------------------------
(***************************************************************************)
(* The simulated network of src/src/labrpc: what becomes of a call, from   *)
(* ClientEnd.Call through processReq and the handler to the reply.  The    *)
(* network is unreliable and delays replies for as long as it likes.  Who  *)
(* makes ends and servers, and enables, disables and removes them while    *)
(* calls are on their way, is the matter of KVConfig.                      *)
(***************************************************************************)
EXTENDS Integers

CONSTANTS
    CallId,    \* calls
    NoEnd      \* stands for the end of a call that has not been made

VARIABLES
    ends,        \* rn.ends: the ends made, each connected to the server .to
    enabled,     \* rn.enabled: the ends that are enabled
    servers,     \* rn.servers: the instance that is registered, 0 if none
    down,        \* Cleanup has been called
    step,        \* step[i]: where call i is
    end,         \* end[i]: the end it was made at
    instance,    \* instance[i]: the server that processReq has looked up
    handler,     \* handler[i]: "none", "running" or "returned"
    answer       \* answer[i]: what Call returns

Network == <<ends, enabled, servers, down>>
calls == <<step, end, instance, handler, answer>>

MakeNetwork ==
    /\ down = FALSE
    /\ step = [i \in CallId |-> "new"] /\ end = [i \in CallId |-> NoEnd]
    /\ instance = [i \in CallId |-> 0] /\ handler = [i \in CallId |-> "none"]
    /\ answer = [i \in CallId |-> FALSE]

-----------------------------------------------------------------------------
(* What is asked of the network. *)

\* MakeEnd and Connect of a set of ends: they are new, and not enabled.
MakeEnds(E) == E \cap ends = {} /\ ends' = ends \cup E

AddServer(s, g) == servers' = [servers EXCEPT ![s] = g]

DeleteServer(s) == servers' = [servers EXCEPT ![s] = 0]

-----------------------------------------------------------------------------
(* A call. *)

Goes(i, from, to) == step[i] = from /\ step' = [step EXCEPT ![i] = to]

Answers(i, from, ok) ==
    Goes(i, from, "answered") /\ answer' = [answer EXCEPT ![i] = ok]

\* Call: the request is taken by the network's goroutine, or that has ended.
Call(i, e) ==
    /\ \/ Goes(i, "new", "sent")
       \/ down /\ Goes(i, "new", "returned")
    /\ end' = [end EXCEPT ![i] = e]
    /\ UNCHANGED <<instance, handler, answer>>

\* Mutant: whether the end is enabled is not looked at.
ReachableDisabled(e) == servers[e.to] # 0

Reachable(e) == e \in enabled /\ servers[e.to] # 0

\* readEndnameInfo.  Without a connection there is no reply, after a while.
ReadEndnameInfo(i) ==
    \/ /\ Goes(i, "sent", "read") /\ Reachable(end[i])
       /\ instance' = [instance EXCEPT ![i] = servers[end[i].to]]
       /\ UNCHANGED <<end, handler, answer>>
    \/ /\ Answers(i, "sent", FALSE) /\ ~Reachable(end[i])
       /\ UNCHANGED <<end, instance, handler>>

\* The short delay is over: the request is dropped, or a goroutine dispatches it.
Dispatch(i) ==
    \/ /\ Answers(i, "read", FALSE)
       /\ UNCHANGED <<end, instance, handler>>
    \/ /\ Goes(i, "read", "executing")
       /\ handler' = [handler EXCEPT ![i] = "running"]
       /\ UNCHANGED <<end, instance, answer>>

\* The handler is called and returns.
Handle(i) ==
    /\ handler[i] = "running"
    /\ handler' = [handler EXCEPT ![i] = "returned"]
    /\ UNCHANGED <<step, end, instance, answer>>

IsServerDead(i) == end[i] \notin enabled \/ servers[end[i].to] # instance[i]

Receive(i) ==
    /\ Goes(i, "executing", "received") /\ handler[i] = "returned"
    /\ UNCHANGED <<end, instance, handler, answer>>

\* Mutant: the caller waits for the handler, however long that takes.
NeverGivesUp(i) == FALSE /\ UNCHANGED calls

\* Every 100 ms: stop waiting for a handler of a server that is gone.
GiveUp(i) ==
    /\ Answers(i, "executing", FALSE) /\ IsServerDead(i)
    /\ UNCHANGED <<end, instance, handler>>

\* Mutant: whether the server is dead is not looked at again.
ReplyUnchecked(i) ==
    /\ \E ok \in BOOLEAN : Answers(i, "received", ok)
    /\ UNCHANGED <<end, instance, handler>>

\* The handler's reply is sent on, unless the server is dead or it is dropped.
Reply(i) ==
    /\ \E ok \in BOOLEAN : Answers(i, "received", ok) /\ (ok => ~IsServerDead(i))
    /\ UNCHANGED <<end, instance, handler>>

\* Replies are delayed, perhaps for long.
Return(i) ==
    /\ Goes(i, "answered", "returned")
    /\ UNCHANGED <<end, instance, handler, answer>>

\* What the network's own goroutines do for call i.
ProcessReq(i) ==
    ReadEndnameInfo(i) \/ Dispatch(i) \/ Receive(i) \/ GiveUp(i) \/ Reply(i) \/ Return(i)
=============================================================================
