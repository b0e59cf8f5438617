----------------------------- MODULE MapReduce ------------------------------
(***************************************************************************)
(* The MapReduce coordinator and workers of src/src/mr.  toNextPhase goes  *)
(* from the map phase to AllDone (the call of makeReduceTasks is commented *)
(* out), so the reduce phase is unreachable and left out.  makeMapTasks is *)
(* read as giving each task the slice of its one file.                     *)
(***************************************************************************)
EXTENDS Integers, Sequences

CONSTANTS
    MaxFiles,     \* bound: number of input files
    Workers,      \* worker processes
    MaxCrashes    \* bound: workers that die

ASSUME JobAssumption == MaxFiles \in Nat \ {0} /\ MaxCrashes \in Nat

VARIABLES
    NFiles,          \* len(files): one map task for each file
    DistPhase,
    TaskChannelMap,  \* ids of the tasks that wait to be handed out
    state,           \* state[t]: the state in MetaMap[t]
    pc,              \* pc[w]: where worker w is in its loop
    task,            \* task[w]: the map task that w has, or had last; -1 at first
    written,         \* tasks whose mr-tmp files are complete
    exited,          \* mrcoordinator's main has returned
    crashes

coordinator == <<NFiles, DistPhase, TaskChannelMap, state>>
vars == <<coordinator, pc, task, written, exited, crashes>>

Task == 0 .. NFiles - 1

TypeOK ==
    /\ NFiles \in 1 .. MaxFiles /\ DistPhase \in {"MapPhase", "AllDone"}
    /\ TaskChannelMap \in Seq(Task) /\ Len(TaskChannelMap) <= NFiles
    /\ state \in [Task -> {"Waiting", "Working", "Done"}]
    /\ pc \in [Workers -> {"poll", "map", "report", "gone"}]
    /\ task \in [Workers -> Task \cup {-1}]
    /\ written \subseteq Task /\ exited \in BOOLEAN /\ crashes \in 0 .. MaxCrashes

\* MakeCoordinator, with generateTaskId and acceptMeta, and the workers' start.
Init ==
    /\ NFiles \in 1 .. MaxFiles
    /\ DistPhase = "MapPhase"
    /\ TaskChannelMap = [k \in 1 .. NFiles |-> k - 1]
    /\ state = [t \in Task |-> "Waiting"]
    /\ pc = [w \in Workers |-> "poll"] /\ task = [w \in Workers |-> -1]
    /\ written = {} /\ exited = FALSE /\ crashes = 0

-----------------------------------------------------------------------------

Goes(w, from, to) == pc[w] = from /\ pc' = [pc EXCEPT ![w] = to]

\* All tasks are map tasks, and there is at least one.
CheckTaskDone == \A t \in Task : state[t] = "Done"

\* Mutant: the task stays in the channel.
HandOutAgain(w) ==
    /\ DistPhase = "MapPhase" /\ TaskChannelMap # << >>
    /\ Goes(w, "poll", "map")
    /\ task' = [task EXCEPT ![w] = Head(TaskChannelMap)]
    /\ state' = [state EXCEPT ![Head(TaskChannelMap)] = "Working"]
    /\ UNCHANGED <<NFiles, DistPhase, TaskChannelMap, written, exited, crashes>>

\* PollTask when there is a task to hand out; judgeState marks it.
HandOut(w) ==
    /\ DistPhase = "MapPhase" /\ TaskChannelMap # << >>
    /\ Goes(w, "poll", "map")
    /\ TaskChannelMap' = Tail(TaskChannelMap)
    /\ LET t == Head(TaskChannelMap)
       IN  /\ task' = [task EXCEPT ![w] = t]
           /\ state' = [state EXCEPT ![t] = IF @ = "Waiting" THEN "Working" ELSE @]
    /\ UNCHANGED <<NFiles, DistPhase, written, exited, crashes>>

\* PollTask when all are handed out: the worker asks again after a second.
PollWaiting(w) ==
    /\ DistPhase = "MapPhase" /\ TaskChannelMap = << >>
    /\ pc[w] = "poll"
    /\ DistPhase' = IF CheckTaskDone THEN "AllDone" ELSE DistPhase
    /\ UNCHANGED <<NFiles, TaskChannelMap, state, pc, task, written, exited, crashes>>

\* PollTask after the end; or the coordinator is gone and call ends the worker.
PollExit(w) ==
    /\ DistPhase = "AllDone"
    /\ Goes(w, "poll", "gone")
    /\ UNCHANGED <<coordinator, task, written, exited, crashes>>

DoMapTask(w) ==
    /\ Goes(w, "map", "report")
    /\ written' = written \cup {task[w]}
    /\ UNCHANGED <<coordinator, task, exited, crashes>>

\* callDone sends an empty Task: a MapTask with id 0.
ReportedTask(w) == 0

\* Mutant: a task can be finished only while it waits.
MarkWaiting(w) ==
    /\ Goes(w, "report", "poll")
    /\ state' = [state EXCEPT ![ReportedTask(w)] = IF @ = "Waiting" THEN "Done" ELSE @]
    /\ UNCHANGED <<NFiles, DistPhase, TaskChannelMap, task, written, exited, crashes>>

\* callDone and MarkFinished.  The coordinator is still there: it exits only
\* when every task is marked.
MarkFinished(w) ==
    /\ Goes(w, "report", "poll")
    /\ state' = [state EXCEPT ![ReportedTask(w)] = IF @ = "Working" THEN "Done" ELSE @]
    /\ UNCHANGED <<NFiles, DistPhase, TaskChannelMap, task, written, exited, crashes>>

\* main of mrcoordinator.go: Done is true, and a second later it returns.
Exit ==
    /\ ~exited /\ DistPhase = "AllDone" /\ exited' = TRUE
    /\ UNCHANGED <<coordinator, pc, task, written, crashes>>

Crash(w) ==
    /\ crashes < MaxCrashes /\ crashes' = crashes + 1
    /\ pc[w] # "gone" /\ pc' = [pc EXCEPT ![w] = "gone"]
    /\ UNCHANGED <<coordinator, task, written, exited>>

Work(w) ==
    \/ HandOut(w) \/ PollWaiting(w) \/ PollExit(w)
    \/ DoMapTask(w) \/ MarkFinished(w)

Next == (\E w \in Workers : Work(w) \/ Crash(w)) \/ Exit

\* Each worker that is alive goes on with its loop, and so does main.
Spec == Init /\ [][Next]_vars /\ WF_vars(Exit) /\ \A w \in Workers : WF_vars(Work(w))

-----------------------------------------------------------------------------
(* Properties. *)

\* PollTask gives no task to two workers, nor to one worker twice, and
\* the channel and MetaMap agree on what waits to be handed out.
HandedOutOnce ==
    /\ \A v, w \in Workers : task[v] = task[w] /\ task[v] # -1 => v = w
    /\ \A k \in 1 .. Len(TaskChannelMap) :
           TaskChannelMap[k] \notin written /\ state[TaskChannelMap[k]] = "Waiting"

\* The coordinator never tells workers to exit while a file is unmapped.
AllDoneIsWritten == DistPhase = "AllDone" => written = Task

\* What the coordinator keeps of tasks and workers is true.
TaskInv == TypeOK /\ HandedOutOnce /\ AllDoneIsWritten

\* "如果所有tas k完成mr会通过此方法退出" (when all tasks are complete, mr exits through
\* this method): the coordinator of a job with one file exits when the file is
\* mapped, unless a worker died, whose report is never made up for.  With more
\* files it does not: every report is for task 0, the others stay Working.
JobEnds == NFiles = 1 /\ written = Task ~> exited \/ crashes > 0
=============================================================================
