------------------------------ MODULE Porcupine ------------------------------
(***************************************************************************)
(* The linearizability checker of src/src/porcupine, which decides the     *)
(* tests of the key/value services.  checkSingle looks for an order of the *)
(* operations of one partition: a depth-first search over a doubly linked  *)
(* list of call and return entries from which linearized operations are    *)
(* lifted, with a bitset and a cache of what was tried before.             *)
(* checkParallel runs one checkSingle per partition, collects the verdicts *)
(* from a channel, and stops them early by a flag, on the first failure or *)
(* at a timeout.                                                           *)
(***************************************************************************)
EXTENDS KvModel, SequencesExt

CONSTANTS
    Keys,
    Histories,      \* what CheckOperations may be called with
    EventLists,     \* what CheckEvents may be called with
    WordSize        \* bits in a word of a bitset; 64 in the code

VARIABLES
    verbose, limited,   \* the computeInfo and (timeout > 0) of checkParallel
    history,    \* the operations, with the times the checker is to respect
    ops,        \* ops[p]: the operations of partition p, by id
    entries,    \* entries[p]: their call and return entries
    search,     \* search[p]: the local variables of checkSingle
    status,     \* status[p]: "searching", "returned" or "ended"
    verdict,    \* verdict[p]: what checkSingle returns
    results,    \* the channel
    kill, count, ok, timedOut,
    phase,      \* where checkParallel is
    result,     \* what it returns, and ...
    partials,   \* ... partials[p]: its partialLinearizations
    drawing     \* drawing[p]: what Visualize shows of them

input == <<verbose, limited, history, ops, entries>>
output == <<result, partials, drawing>>
vars == <<input, search, status, verdict, results, kill, count, ok, timedOut, phase, output>>

Part == DOMAIN ops

-----------------------------------------------------------------------------
(* Entries. *)

Nil == -1
CallEntry(id) == [kind |-> "call", id |-> id]
ReturnEntry(id) == [kind |-> "return", id |-> id]

Time(h, e) == IF e.kind = "call" THEN h[e.id + 1].call ELSE h[e.id + 1].return

Less(h, a, b) ==
    \/ Time(h, a) < Time(h, b)
    \/ Time(h, a) = Time(h, b) /\ a.kind = "call" /\ b.kind = "return"

\* sort.Sort leaves entries that are not Less than each other in any order.
MakeEntries(h) ==
    LET Entries == UNION {{CallEntry(i - 1), ReturnEntry(i - 1)} : i \in DOMAIN h}
        sorted[E \in SUBSET Entries] ==
            IF E = {} THEN {<<>>}
            ELSE UNION {{Append(es, e) : es \in sorted[E \ {e}]} :
                           e \in {e \in E : \A x \in E : ~Less(h, e, x)}}
    IN  sorted[Entries]

\* Event ids become 0, 1, ... in the order in which they first occur.
Renumber(events) ==
    LET First(id) == Min({i \in DOMAIN events : events[i].id = id})
        Ids == {events[i].id : i \in DOMAIN events}
    IN  [id \in Ids |-> Cardinality({x \in Ids : First(x) < First(id)})]

\* The entries of a list of events; the index of an event is its time.
ConvertEntries(events) ==
    [i \in DOMAIN events |->
        [kind |-> events[i].kind, id |-> Renumber(events)[events[i].id]]]

\* The operations of a list of events, by the new ids.
OperationsOf(events) ==
    LET e == ConvertEntries(events)
        At(x) == CHOOSE i \in DOMAIN e : e[i] = x
    IN  [k \in 1 .. Len(events) \div 2 |->
            [events[At(CallEntry(k - 1))].o EXCEPT !.call = At(CallEntry(k - 1)),
                                                  !.return = At(ReturnEntry(k - 1))]]

-----------------------------------------------------------------------------
(* Bitsets: bit pos is in word pos \div WordSize. *)

NewBitset(n) ==
    [w \in 0 .. n \div WordSize + (IF n % WordSize # 0 THEN 1 ELSE 0) - 1 |-> {}]

SetBit(b, pos) == [b EXCEPT ![pos \div WordSize] = @ \cup {pos % WordSize}]
ClearBit(b, pos) == [b EXCEPT ![pos \div WordSize] = @ \ {pos % WordSize}]
GetBit(b, pos) ==
    pos \div WordSize \in DOMAIN b /\ pos % WordSize \in b[pos \div WordSize]

-----------------------------------------------------------------------------
(* checkSingle. *)

\* Node 0 is headEntry; node k > 0 is the k-th entry.
MakeLinkedEntries(m) ==
    [next |-> [k \in 0 .. m |-> IF k = m THEN Nil ELSE k + 1],
     prev |-> [k \in 0 .. m |-> IF k = 0 THEN Nil ELSE k - 1]]

NewSearch(es) ==
    LET m == Len(es)
        l == MakeLinkedEntries(m)
    IN  [entry |-> l.next[0], next |-> l.next, prev |-> l.prev,
         calls |-> <<>>, state |-> KvInit, linearized |-> NewBitset(m \div 2), cache |-> {},
         longest |-> [id \in 0 .. m \div 2 - 1 |-> <<>>]]

Match(es, k) == CHOOSE j \in DOMAIN es : es[j] = ReturnEntry(es[k].id)

\* l.next and l.prev without node e and its match m.
Lift(l, e, m) ==
    LET next1 == [l.next EXCEPT ![l.prev[e]] = l.next[e]]
        prev1 == [l.prev EXCEPT ![l.next[e]] = l.prev[e]]
    IN  [l EXCEPT !.next = [next1 EXCEPT ![prev1[m]] = next1[m]],
                  !.prev = IF next1[m] = Nil THEN prev1
                           ELSE [prev1 EXCEPT ![next1[m]] = prev1[m]]]

\* Mutant: the entry after the return still points past it.
UnliftHalf(l, e, m) ==
    LET next1 == [l.next EXCEPT ![l.prev[m]] = m]
    IN  [l EXCEPT !.next = [next1 EXCEPT ![l.prev[e]] = e],
                  !.prev = [l.prev EXCEPT ![next1[e]] = e]]

Unlift(l, e, m) ==
    LET next1 == [l.next EXCEPT ![l.prev[m]] = m]
        prev1 == IF l.next[m] = Nil THEN l.prev ELSE [l.prev EXCEPT ![l.next[m]] = m]
    IN  [l EXCEPT !.next = [next1 EXCEPT ![prev1[e]] = e],
                  !.prev = [prev1 EXCEPT ![next1[e]] = e]]

\* The ids on the calls stack, bottom first.
Ids(p) == [i \in DOMAIN search[p].calls |-> entries[p][search[p].calls[i].entry].id]

CurrentId(p) == entries[p][search[p].entry].id
Taken(p) == Step(search[p].state, ops[p][CurrentId(p) + 1])
Reached(p) == [linearized |-> SetBit(search[p].linearized, CurrentId(p)), state |-> Taken(p).state]

Searches(p) == status[p] = "searching" /\ search[p].next[0] # Nil /\ ~kill
AtCall(p) == Searches(p) /\ entries[p][search[p].entry].kind = "call"
AtReturn(p) == Searches(p) /\ entries[p][search[p].entry].kind = "return"

CacheContains(p) == Reached(p) \in search[p].cache

main == <<results, kill, count, ok, timedOut, phase, output>>

\* Linearize the operation next.
Extend(p) ==
    /\ AtCall(p) /\ Taken(p).ok /\ ~CacheContains(p)
    /\ LET s == search[p]
           l == Lift(s, s.entry, Match(entries[p], s.entry))
       IN  search' = [search EXCEPT ![p] =
               [l EXCEPT !.cache = @ \cup {Reached(p)},
                         !.calls = Append(@, [entry |-> s.entry, state |-> s.state]),
                         !.state = Taken(p).state,
                         !.linearized = Reached(p).linearized,
                         !.entry = l.next[0]]]
    /\ UNCHANGED <<input, status, verdict, main>>

\* It cannot be next, or that has been tried.
Skip(p) ==
    /\ AtCall(p) /\ (Taken(p).ok => CacheContains(p))
    /\ search' = [search EXCEPT ![p].entry = search[p].next[@]]
    /\ UNCHANGED <<input, status, verdict, main>>

\* Mutant: the stack is recorded after its top is popped.
LongestAfterPop(p) ==
    LET ids == Front(Ids(p)) IN
    [id \in DOMAIN search[p].longest |->
        IF id \in Range(ids) /\ Len(ids) > Len(search[p].longest[id])
        THEN ids ELSE search[p].longest[id]]

\* The calls stack is the longest prefix yet for some of its operations.
Longest(p) ==
    LET ids == Ids(p) IN
    [id \in DOMAIN search[p].longest |->
        IF id \in Range(ids) /\ Len(ids) > Len(search[p].longest[id])
        THEN ids ELSE search[p].longest[id]]

\* A return entry: its operation should have been linearized before.
Backtrack(p) ==
    /\ AtReturn(p) /\ search[p].calls # <<>>
    /\ LET s == search[p]
           top == Last(s.calls)
           l == Unlift(s, top.entry, Match(entries[p], top.entry))
       IN  search' = [search EXCEPT ![p] =
               [l EXCEPT !.calls = Front(@), !.state = top.state,
                         !.linearized = ClearBit(@, entries[p][top.entry].id),
                         !.entry = l.next[top.entry],
                         !.longest = IF verbose THEN Longest(p) ELSE @]]
    /\ UNCHANGED <<input, status, verdict, main>>

Returns(p, v) ==
    /\ status' = [status EXCEPT ![p] = "returned"]
    /\ verdict' = [verdict EXCEPT ![p] = v]
    /\ UNCHANGED <<input, main>>

Exhaust(p) ==
    AtReturn(p) /\ search[p].calls = <<>> /\ Returns(p, FALSE) /\ UNCHANGED search

Succeed(p) ==
    /\ status[p] = "searching" /\ search[p].next[0] = Nil
    /\ search' = [search EXCEPT ![p].longest = [id \in DOMAIN @ |-> Ids(p)]]
    /\ Returns(p, TRUE)

StopKilled(p) ==
    /\ status[p] = "searching" /\ search[p].next[0] # Nil /\ kill
    /\ Returns(p, FALSE) /\ UNCHANGED search

\* Mutant: a channel with room for one verdict.
RoomForOne == 1

\* The channel has room for every verdict.
Room == Cardinality(Part)

SendVerdict(p) ==
    /\ status[p] = "returned" /\ Len(results) < Room
    /\ results' = Append(results, verdict[p])
    /\ status' = [status EXCEPT ![p] = "ended"]
    /\ UNCHANGED <<input, search, verdict, kill, count, ok, timedOut, phase, output>>

Goroutine(p) ==
    \/ Extend(p) \/ Skip(p) \/ Backtrack(p) \/ Exhaust(p) \/ Succeed(p) \/ StopKilled(p)
    \/ SendVerdict(p)

-----------------------------------------------------------------------------
(* checkParallel. *)

goroutines == <<search, status, verdict>>

\* Receive a verdict in the select loop.
Receive ==
    /\ phase = "collecting" /\ results # <<>>
    /\ results' = Tail(results)
    /\ count' = count + 1
    /\ ok' = (ok /\ Head(results))
    /\ kill' = (~ok' /\ ~verbose)
    /\ phase' = IF kill' \/ count' >= Cardinality(Part) THEN "draining" ELSE phase
    /\ UNCHANGED <<input, goroutines, timedOut, output>>

Timeout ==
    /\ phase = "collecting" /\ limited
    /\ timedOut' = TRUE /\ kill' = TRUE
    /\ phase' = "draining"
    /\ UNCHANGED <<input, goroutines, results, count, ok, output>>

\* Mutant: the verdicts of searches that were stopped count.
DrainCounting ==
    /\ phase = "draining" /\ verbose /\ count < Cardinality(Part) /\ results # <<>>
    /\ results' = Tail(results)
    /\ count' = count + 1
    /\ ok' = (ok /\ Head(results))
    /\ UNCHANGED <<input, goroutines, kill, timedOut, phase, output>>

\* Wait for the searches that are still running; their verdicts do not count.
Drain ==
    /\ phase = "draining" /\ verbose /\ count < Cardinality(Part) /\ results # <<>>
    /\ results' = Tail(results)
    /\ count' = count + 1
    /\ UNCHANGED <<input, goroutines, kill, ok, timedOut, phase, output>>

Finish ==
    /\ phase = "draining" /\ (verbose => count >= Cardinality(Part))
    /\ result' = IF ~ok THEN "Illegal" ELSE IF timedOut THEN "Unknown" ELSE "Ok"
    /\ partials' = IF verbose
                   THEN [p \in Part |-> Range(search[p].longest) \ {<<>>}]
                   ELSE <<>>
    /\ phase' = "done"
    /\ UNCHANGED <<input, goroutines, results, kill, count, ok, timedOut, drawing>>

-----------------------------------------------------------------------------
(* computeVisualizationData. *)

\* The states after each operation of a partial linearization: a step that is
\* not ok makes the code panic.
StepsOf(p, ids) ==
    LET after[j \in 0 .. Len(ids)] ==
            IF j = 0 THEN [ok |-> TRUE, state |-> KvInit]
            ELSE LET s == Step(after[j - 1].state, ops[p][ids[j] + 1])
                 IN  [ok |-> after[j - 1].ok /\ s.ok, state |-> s.state]
    IN  after

\* Mutant: largestSize is never written.
LargestOfLast(ps) ==
    [id \in UNION {Range(ps[i]) : i \in DOMAIN ps} |->
        Max({i \in DOMAIN ps : id \in Range(ps[i])})]

\* largestIndex: going through the partial linearizations in order, the index
\* of one is kept for an operation when it is longer than the one kept so far.
Largest(ps) ==
    LET best[i \in 0 .. Len(ps)] ==
            [id \in UNION {Range(ps[j]) : j \in DOMAIN ps} |->
                IF i = 0 THEN [index |-> 0, size |-> 0]
                ELSE IF id \in Range(ps[i]) /\ best[i - 1][id].size < Len(ps[i])
                THEN [index |-> i, size |-> Len(ps[i])]
                ELSE best[i - 1][id]]
    IN  [id \in DOMAIN best[Len(ps)] |-> best[Len(ps)][id].index]

\* The sequences sort.Slice may leave of a set of partial linearizations.
ByLength(S) ==
    {ps \in SetToSeqs(S) : \A i, j \in DOMAIN ps : i < j => Len(ps[i]) >= Len(ps[j])}

\* The tests draw the history when it is illegal.
Visualize ==
    /\ phase = "done" /\ verbose /\ result = "Illegal"
    /\ phase' = "drawn"
    /\ \E ps \in [Part -> UNION {ByLength(partials[p]) : p \in Part}] :
        /\ \A p \in Part : ps[p] \in ByLength(partials[p])
        /\ drawing' = [p \in Part |-> [shown |-> ps[p], largest |-> Largest(ps[p])]]
    /\ UNCHANGED <<input, goroutines, results, kill, count, ok, timedOut, result, partials>>

-----------------------------------------------------------------------------
\* checkOperations: one partition per key, its entries sorted by time.
CheckOperations(h) ==
    /\ history = h
    /\ ops = Partition(h)
    /\ entries \in {es \in [Part -> UNION {MakeEntries(ops[p]) : p \in Part}] :
                        \A p \in Part : es[p] \in MakeEntries(ops[p])}

\* checkEvents: KvModel has no PartitionEvent, all events are one partition.
CheckEvents(events) ==
    /\ history = OperationsOf(events)
    /\ ops = [p \in {"all"} |-> history]
    /\ entries = [p \in {"all"} |-> ConvertEntries(events)]

Init ==
    /\ verbose \in BOOLEAN /\ limited \in BOOLEAN
    /\ \/ \E h \in Histories : CheckOperations(h)
       \/ \E events \in EventLists : CheckEvents(events)
    /\ search = [p \in Part |-> NewSearch(entries[p])]
    /\ status = [p \in Part |-> "searching"] /\ verdict = [p \in Part |-> FALSE]
    /\ results = <<>> /\ kill = FALSE /\ count = 0 /\ ok = TRUE /\ timedOut = FALSE
    /\ phase = "collecting"
    /\ result = "none" /\ partials = <<>> /\ drawing = <<>>

Main == Receive \/ Drain \/ Finish \/ Visualize

Next == (\E p \in Part : Goroutine(p)) \/ Main \/ Timeout

\* Go runs every goroutine that can run, and the timer of a call with a timeout
\* goes off at last.
Spec ==
    /\ Init /\ [][Next]_vars
    /\ WF_vars(Main) /\ WF_vars(Timeout)
    /\ \A p \in Keys \cup {"all"} : WF_vars(p \in Part /\ Goroutine(p))

-----------------------------------------------------------------------------
(* Properties. *)

Finished == phase \in {"done", "drawn"}

\* The variables of checkSingle and checkParallel have their types: the list
\* links nodes of the list, the channel never holds more than it has room for.
TypeOK ==
    /\ \A p \in Part :
        LET m == Len(entries[p]) IN
        /\ search[p].entry \in {Nil} \cup 1 .. m
        /\ search[p].next \in [0 .. m -> {Nil} \cup 1 .. m]
        /\ search[p].prev \in [0 .. m -> {Nil} \cup 0 .. m]
        /\ status[p] \in {"searching", "returned", "ended"} /\ verdict[p] \in BOOLEAN
        /\ search[p].next[0] # Nil => search[p].entry # Nil
    /\ Len(results) <= Cardinality(Part) /\ count \in 0 .. Cardinality(Part)
    /\ <<kill, ok, timedOut>> \in BOOLEAN \X BOOLEAN \X BOOLEAN
    /\ phase \in {"collecting", "draining", "done", "drawn"}
    /\ result \in {"none", "Ok", "Illegal", "Unknown"}

\* lift and unlift: at every step of the search the doubly linked list holds,
\* in their order, exactly the entries of the operations that are not on the
\* calls stack, however many were lifted and put back.
ListIsIntact ==
    \A p \in Part :
        LET Left == {k \in DOMAIN entries[p] : entries[p][k].id \notin Range(Ids(p))} IN
        \A k \in Left \cup {0} :
            LET After == {j \in Left : j > k} IN
            IF After = {} THEN search[p].next[k] = Nil
            ELSE search[p].next[k] = Min(After) /\ search[p].prev[Min(After)] = k

\* checkSingle: the bitset names the operations on the calls stack, whatever
\* word they fall in, the model accepts them in the order of the stack, and
\* state is where they lead.
StackIsTrue ==
    \A p \in Part :
        /\ {id \in 0 .. Len(ops[p]) - 1 : GetBit(search[p].linearized, id)} = Range(Ids(p))
        /\ StepsOf(p, Ids(p))[Len(Ids(p))] = [ok |-> TRUE, state |-> search[p].state]

\* The search of checkSingle at every step: its list, its stack and its bitset
\* tell the same story, through any sequence of lift and unlift.
SearchInv == TypeOK /\ ListIsIntact /\ StackIsTrue

\* checkParallel: Ok and Illegal are right about the whole store, although each
\* key is searched by itself, on cached results, and searches are cut short by
\* a failure elsewhere or by the timeout; Unknown is the answer only after a
\* timeout.
VerdictIsRight ==
    Finished => /\ result = "Ok" => Linearizable(history)
                /\ result = "Illegal" => ~Linearizable(history)
                /\ result = "Unknown" => timedOut

\* ids can be the first operations of a linearization of partition p.
LegalPrefix(p, ids) ==
    /\ StepsOf(p, ids)[Len(ids)].ok
    /\ \A i \in DOMAIN ids, id \in 0 .. Len(ops[p]) - 1 :
        Precedes(ops[p][id + 1], ops[p][ids[i] + 1]) => \E j \in 1 .. i - 1 : ids[j] = id

\* "longest linearizable prefix that includes the given entry": when the search
\* of every key ran to its end, the partial linearizations that are returned
\* hold, for every operation, a longest legal prefix with it.
PartialsAreLongest ==
    Finished /\ verbose =>
        \A p \in Part :
            LET Ops == 0 .. Len(ops[p]) - 1
                Legal == {ids \in UNION {Injection(1 .. n, Ops) : n \in DOMAIN ops[p]} :
                                LegalPrefix(p, ids)}
            IN  /\ \A ids \in partials[p] : ids \in Legal
                /\ ~timedOut => \A ids \in Legal : \A id \in Range(ids) :
                        \E longest \in partials[p] :
                            id \in Range(longest) /\ Len(longest) >= Len(ids)

\* computeVisualizationData: no step of a drawn linearization makes it panic,
\* and Largest sends every operation to a longest one that it is part of.
DrawingIsSound ==
    phase = "drawn" =>
        \A p \in Part :
            LET d == drawing[p] IN
            /\ \A i \in DOMAIN d.shown : StepsOf(p, d.shown[i])[Len(d.shown[i])].ok
            /\ \A i \in DOMAIN d.shown : \A id \in Range(d.shown[i]) :
                /\ id \in Range(d.shown[d.largest[id]])
                /\ Len(d.shown[d.largest[id]]) >= Len(d.shown[i])

\* checkParallel returns and leaves no goroutine behind, blocked on the channel
\* or searching on, even when it stopped receiving early; a history without
\* operations needs a timeout for that, since no verdict ever comes.
ChecksEnd ==
    (Part # {} \/ limited) => <>(Finished /\ \A p \in Part : status[p] = "ended")
=============================================================================
