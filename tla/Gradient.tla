------------------------------ MODULE Gradient ------------------------------
(***************************************************************************)
(* The gradient manager of src/src/raft/gradient.go and the applier that   *)
(* drives it: before an entry is written to applyCh, handleGradientLog     *)
(* puts a gradient into the buffer of its batch, and a full buffer is      *)
(* averaged into the model.  The manager has a lock of its own and keeps   *)
(* nothing across a restart.  A model is the sequence of the groups of log *)
(* indices that went into it: the parameters are a function of that.       *)
(* It is assumed that the application registers GradientLog with labgob,   *)
(* without which no gradient is replicated or saved.                       *)
(***************************************************************************)
EXTENDS Applier, SequencesExt

CONSTANTS
    Batches,       \* BatchIDs
    bufferSize     \* gradients that are aggregated at a time: 10 in the code

ASSUME BufferAssumption == bufferSize \in Nat \ {0}

VARIABLES
    BatchID,          \* BatchID[i]: of the gradient that is committed at index i
    gradientBuffer,   \* gradientBuffer[b]: log indices of the gradients of batch b
    currentModel,     \* groups of log indices
    step,             \* where handleGradientLog is, for the entry at next
    aggregated,       \* AggregateGradients' result
    replayed          \* history: since Make, no entry was covered by a snapshot

manager == <<gradientBuffer, currentModel, step, aggregated>>
gvars == <<vars, BatchID, manager, replayed>>

Index == 1 .. MaxIndex
NoGradients == [b \in Batches |-> << >>]

GTypeOK ==
    /\ TypeOK
    /\ BatchID \in [Index -> Batches]
    /\ gradientBuffer \in [Batches -> Seq(Index)] /\ currentModel \in Seq(Seq(Index))
    /\ step \in {"add", "aggregate", "apply", "send"} /\ aggregated \in Seq(Index)
    /\ replayed \in BOOLEAN

GInit ==
    /\ Init
    /\ BatchID \in [Index -> Batches]
    /\ gradientBuffer = NoGradients /\ currentModel = << >>
    /\ step = "add" /\ aggregated = << >> /\ replayed = TRUE

-----------------------------------------------------------------------------
(* handleGradientLog, for the entry at next. *)

Handles(from) == applier = "sending" /\ next <= end /\ step = from

AddGradient ==
    /\ Handles("add")
    /\ LET buffer == Append(gradientBuffer[BatchID[next]], next)
       IN  /\ gradientBuffer' = [gradientBuffer EXCEPT ![BatchID[next]] = buffer]
           /\ step' = IF Len(buffer) >= bufferSize THEN "aggregate" ELSE "send"
    /\ UNCHANGED <<vars, BatchID, currentModel, aggregated, replayed>>

\* Mutant: the buffer is not cleared.
AggregateAndKeep ==
    /\ Handles("aggregate")
    /\ aggregated' = gradientBuffer[BatchID[next]]
    /\ step' = "apply"
    /\ UNCHANGED <<vars, BatchID, gradientBuffer, currentModel, replayed>>

AggregateGradients ==
    /\ Handles("aggregate")
    /\ aggregated' = gradientBuffer[BatchID[next]]
    /\ gradientBuffer' = [gradientBuffer EXCEPT ![BatchID[next]] = << >>]
    /\ step' = "apply"
    /\ UNCHANGED <<vars, BatchID, currentModel, replayed>>

ApplyGradientToModel ==
    /\ Handles("apply")
    /\ currentModel' = Append(currentModel, aggregated)
    /\ aggregated' = << >>
    /\ step' = "send"
    /\ UNCHANGED <<vars, BatchID, gradientBuffer, replayed>>

\* The entry is written to applyCh once it is handled.
Send ==
    /\ step = "send" /\ DeliverCommand
    /\ step' = "add"
    /\ UNCHANGED <<BatchID, gradientBuffer, currentModel, aggregated, replayed>>

-----------------------------------------------------------------------------
(* The rest of the peer. *)

\* CondInstallSnapshot: the manager is not told of the entries that it covers.
Install ==
    /\ CondInstallSnapshot
    /\ replayed' = (replayed /\ lastApplied' = lastApplied)
    /\ UNCHANGED <<BatchID, manager>>

\* Mutant: the buffers outlive a restart, and the log is replayed into them.
BuffersKept == UNCHANGED gradientBuffer /\ currentModel' = << >>

NewGradientManager == gradientBuffer' = NoGradients /\ currentModel' = << >>

\* A crash, and Make: a new manager, which sees the log from the snapshot on.
Recover ==
    /\ Restart
    /\ NewGradientManager
    /\ step' = "add" /\ aggregated' = << >>
    /\ replayed' = (first = 0)
    /\ UNCHANGED BatchID

Unhandled ==
    /\ Replicate \/ InstallSnapshot \/ Snapshot \/ Wait \/ TakeBatch \/ FinishBatch
    /\ UNCHANGED <<BatchID, manager, replayed>>

Handling == AddGradient \/ AggregateGradients \/ ApplyGradientToModel \/ Send

GNext == Handling \/ Unhandled \/ Install \/ Recover

\* As in Applier: the applier is scheduled, and the service keeps reading.
GSpec ==
    /\ GInit /\ [][GNext]_gvars
    /\ WF_gvars(Handling \/ (Unhandled /\ (Wait \/ TakeBatch \/ FinishBatch)))

-----------------------------------------------------------------------------
(* Properties. *)

\* Since Make, no gradient counts twice, whatever was installed, sent again or
\* cut short meanwhile: each is in one buffer or in one group of the model, and
\* a group is bufferSize gradients of a batch, in the order of the log.
CountedOnce ==
    LET ids == SetToSeq(Batches)
        buffers == [n \in DOMAIN ids |-> gradientBuffer[ids[n]]]
        counted == FlattenSeq(currentModel \o buffers \o <<aggregated>>)
    IN  /\ IsInjective(counted)
        /\ \A n \in DOMAIN counted : counted[n] < Upcoming + (IF step = "add" THEN 0 ELSE 1)
        /\ \A g \in DOMAIN currentModel :
             /\ Len(currentModel[g]) = bufferSize
             /\ \A m, n \in 1 .. bufferSize : m < n =>
                    /\ currentModel[g][m] < currentModel[g][n]
                    /\ BatchID[currentModel[g][m]] = BatchID[currentModel[g][n]]

\* A manager's buffers and model hold indices of the log, each of them once.
ManagerInv == GTypeOK /\ CountedOnce

\* The gradients of batch b below index i, in the order of the log.
Submitted(b, i) == SelectSeq([k \in 1 .. i - 1 |-> k], LAMBDA k : BatchID[k] = b)

\* "验证模型状态一致性": a peer that has replayed the log from its beginning has the
\* model and the buffers that the log determines, and so the same ones as every
\* other such peer, whenever it crashed and however its commits were cut into
\* batches: full groups of each batch are in the model in the order in which
\* they were completed, the rest waits.
ModelFollowsLog ==
    replayed /\ step = "add" =>
        LET of(b) == Submitted(b, Upcoming)
            full(b) == Len(of(b)) \div bufferSize
            group(b, g) == SubSeq(of(b), (g - 1) * bufferSize + 1, g * bufferSize)
        IN  /\ Range(currentModel) = UNION {{group(b, g) : g \in 1 .. full(b)} : b \in Batches}
            /\ \A g, h \in DOMAIN currentModel :
                   g < h => Last(currentModel[g]) < Last(currentModel[h])
            /\ \A b \in Batches :
                   gradientBuffer[b] = SubSeq(of(b), full(b) * bufferSize + 1, Len(of(b)))
=============================================================================
