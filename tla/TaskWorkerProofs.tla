-------------------------- MODULE TaskWorkerProofs --------------------------
(***************************************************************************)
(* Proofs about TaskWorker, for every set of tasks and every behaviour of  *)
(* the callers.                                                            *)
(***************************************************************************)
EXTENDS TaskWorker, TLAPS

\* The initial state is of the right type.
LEMMA InitTypeOK == Init => TypeOK
  BY TasksAssumption DEF Init, TypeOK, WorkerStates, Outcomes, WorkerLocations,
     RpcLocations

\* Every step preserves the types: the channel never holds two messages because
\* both puts look at its length first.
LEMMA NextTypeOK == TypeOK /\ [Next]_vars => TypeOK'
<1> SUFFICES ASSUME TypeOK, [Next]_vars PROVE TypeOK'
  OBVIOUS
<1> USE TasksAssumption DEF TypeOK, WorkerStates, Outcomes, WorkerLocations,
        RpcLocations, recordVars, taskVars, rpcVars, engineVars
<1>1. CASE Record
  <2>1. ASSUME NEW t \in Tasks, SubmitTask(t) PROVE TypeOK'
    BY <1>1, <2>1 DEF Record, SubmitTask
  <2>2. ASSUME NEW t \in Tasks, ClearTask(t) PROVE TypeOK'
    BY <1>1, <2>2 DEF Record, ClearTask
  <2> QED
    BY <1>1, <2>1, <2>2 DEF Record
<1>2. CASE Request
  <2>1. ASSUME NEW t \in Tasks, BeginTask(t) PROVE TypeOK'
    BY <1>2, <2>1 DEF Request, rpcFrame, BeginTask, Accepts
  <2>2. CASE Start
    BY <1>2, <2>2 DEF Request, rpcFrame, Start
  <2>3. CASE Stop
    BY <1>2, <2>3 DEF Request, rpcFrame, Stop
  <2> QED
    BY <1>2, <2>1, <2>2, <2>3 DEF Request
<1>3. CASE Control
  <2>1. CASE Pause
    BY <1>3, <2>1 DEF Control, Pause, OnStateChange, ReportStatus, MarkTaskAsStarted
  <2>2. CASE Resume
    BY <1>3, <2>2 DEF Control, Resume, OnStateChange, ReportStatus,
       MarkTaskAsStarted
  <2>3. CASE CancelActiveTask("ABORTING")
    BY <1>3, <2>3 DEF Control, CancelActiveTask, OnStateChange, ReportStatus,
       MarkTaskAsStarted
  <2>4. CASE CancelActiveTask("STOPPING")
    BY <1>3, <2>4 DEF Control, CancelActiveTask, OnStateChange, ReportStatus,
       MarkTaskAsStarted
  <2> QED
    BY <1>3, <2>1, <2>2, <2>3, <2>4 DEF Control
<1>4. CASE Call
  <2>1. CASE PutTask
    BY <1>4, <2>1 DEF Call, rpcFrame, PutTask, Room
  <2>2. CASE PutFull
    BY <1>4, <2>2 DEF Call, rpcFrame, PutFull
  <2>3. CASE BeginReturns
    BY <1>4, <2>3 DEF Call, rpcFrame, BeginReturns
  <2>4. CASE RunWorkerInOwnThread
    BY <1>4, <2>4 DEF Call, rpcFrame, RunWorkerInOwnThread
  <2>5. CASE PutKillSignal
    BY <1>4, <2>5 DEF Call, rpcFrame, PutKillSignal, Room
  <2>6. CASE WaitUntilStopped
    BY <1>4, <2>6 DEF Call, rpcFrame, WaitUntilStopped
  <2> QED
    BY <1>4, <2>1, <2>2, <2>3, <2>4, <2>5, <2>6 DEF Call
<1>5. CASE Loop
  <2>1. CASE Run
    BY <1>5, <2>1 DEF Loop, Run
  <2>2. ASSUME NEW t \in Tasks, GetTask(t) PROVE TypeOK'
    BY <1>5, <2>2 DEF Loop, GetTask, ChannelAfter
  <2>3. CASE GetKillSignal
    BY <1>5, <2>3 DEF Loop, GetKillSignal, ChannelAfter
  <2>4. CASE LeaveLoop
    BY <1>5, <2>4 DEF Loop, LeaveLoop
  <2>5. CASE Stopped
    BY <1>5, <2>5 DEF Loop, Stopped
  <2> QED
    BY <1>5, <2>1, <2>2, <2>3, <2>4, <2>5 DEF Loop
<1>6. CASE ProcessTask
  <2>1. CASE DoTaskFails
    BY <1>6, <2>1 DEF ProcessTask, DoTaskFails, TaskRaised, ReportError
  <2>2. CASE DoTask
    BY <1>6, <2>2 DEF ProcessTask, DoTask, OnStateChange, ReportStatus,
       MarkTaskAsStarted
  <2>3. CASE TaskReturns
    BY <1>6, <2>3 DEF ProcessTask, TaskReturns, TaskRaised, ReportError
  <2> QED
    BY <1>6, <2>1, <2>2, <2>3 DEF ProcessTask
<1>7. CASE CycleEnd
  <2>1. CASE MarkComplete
    BY <1>7, <2>1 DEF CycleEnd, MarkComplete
  <2>2. CASE PopPending
    BY <1>7, <2>2 DEF CycleEnd, PopPending, PendingPopped
  <2>3. CASE PopRaises
    BY <1>7, <2>3 DEF CycleEnd, PopRaises, ReportError
  <2>4. CASE StoreCompleted
    BY <1>7, <2>4 DEF CycleEnd, StoreCompleted
  <2>5. CASE ReportCompletion
    BY <1>7, <2>5 DEF CycleEnd, ReportCompletion, ReportStatus, MarkTaskAsStarted
  <2>6. CASE ClearErrors
    BY <1>7, <2>6 DEF CycleEnd, ClearErrors
  <2> QED
    BY <1>7, <2>1, <2>2, <2>3, <2>4, <2>5, <2>6 DEF CycleEnd
<1>8. CASE Engine
  <2>1. CASE EnginePause
    BY <1>8, <2>1 DEF Engine, engineFrame, EnginePause, OnStateChange, ReportStatus,
       MarkTaskAsStarted
  <2>2. CASE EnginePauseFails
    BY <1>8, <2>2 DEF Engine, engineFrame, EnginePauseFails, OnStateChange,
       ReportStatus, MarkTaskAsStarted
  <2>3. CASE OnDocument
    BY <1>8, <2>3 DEF Engine, engineFrame, OnDocument
  <2>4. CASE EnginePaused
    BY <1>8, <2>4 DEF Engine, engineFrame, EnginePaused, EngineActive,
       ReturnToCaller, OnStateChange, ReportStatus, MarkTaskAsStarted
  <2>5. CASE EngineFinish
    BY <1>8, <2>5 DEF Engine, engineFrame, EngineFinish, EngineActive,
       ReturnToCaller, OnStateChange, ReportStatus, MarkTaskAsStarted
  <2> QED
    BY <1>8, <2>1, <2>2, <2>3, <2>4, <2>5 DEF Engine, Plan, PlanEnds
<1>9. CASE UNCHANGED vars
  BY <1>9 DEF vars
<1>10. CASE Listing
  BY <1>10 DEF Listing, listFrame, GetTasks, GetTasksReturns, ReadOrder
<1> QED
  BY <1>1, <1>2, <1>3, <1>4, <1>5, <1>6, <1>7, <1>8, <1>9, <1>10 DEF Next, Worker

\* The state of the worker is always of the right type.
THEOREM TypeCorrect == Spec => []TypeOK
<1>1. Init => TypeOK
  BY InitTypeOK
<1>2. TypeOK /\ [Next]_vars => TypeOK'
  BY NextTypeOK
<1> QED
  BY <1>1, <1>2, PTL DEF Spec

-----------------------------------------------------------------------------
(***************************************************************************)
(* The inductive invariant behind the properties that hold whatever the     *)
(* callers do.  It follows a task's record through the dictionaries: which  *)
(* tasks the worker keeps, where the record is while _cycle moves it, and   *)
(* how is_pending, is_complete, errors and outcome go together.             *)
(***************************************************************************)

\* Submitted tasks are kept in exactly one place, or were cleared.
Kept ==
  /\ submitted \subseteq pending_tasks \cup completed_tasks \cup cleared
                          \cup (IF wpc = "store" THEN {current} ELSE {})
  /\ pending_tasks \cup completed_tasks \cup cleared \cup begun \subseteq submitted
  /\ pending_tasks \cap completed_tasks = {}
  /\ cleared \cap (pending_tasks \cup completed_tasks) = {}
  /\ wpc = "store" => current \notin pending_tasks \cup completed_tasks \cup cleared

\* What is in the channel was begun, and belongs to the begin_task in progress.
Begun ==
  /\ rpc \in {"put", "wait"} => rpcTask \in submitted
  /\ channel \cap Tasks \subseteq begun
  /\ rpc = "put" => task_started = {}
  /\ rpc = "wait" => channel \cap Tasks \subseteq {rpcTask}
  /\ rpc = "wait" /\ task_started # {} => current = rpcTask

\* There is one worker thread.
OneThread ==
  /\ "stopped" \in flags => wpc \in {"off", "boot"}
  /\ wpc = "boot" => rpc = "boot"

\* Tasks are taken one at a time, and marked complete before the next is taken.
Taken ==
  /\ taken \subseteq begun
  /\ complete \cup errored \subseteq taken
  /\ current # NoTask => current \in taken
  /\ taken \subseteq complete \cup {current}
  /\ wpc \notin {"taken", "engine", "returned", "mark"} => taken \subseteq complete

\* A complete task is not pending, except between the two statements.
NotBoth ==
  /\ pending_tasks \cap complete \subseteq {current}
  /\ wpc # "pop" => pending_tasks \cap complete = {}
  /\ completed_tasks \subseteq complete

\* Outcome and errors of the tasks that have been executed.
Verdicts ==
  /\ \A t \in complete : outcome[t] # "none"
  /\ wpc = "mark" /\ current # NoTask => outcome[current] # "none"
  /\ wpc \in {"taken", "engine", "returned"} /\ current \in pending_tasks =>
       current \notin errored
  /\ \/ wpc \in {"mark", "pop"} /\ current \in pending_tasks
     \/ wpc \in {"store", "report"} /\ current # NoTask
     => (current \in errored <=> outcome[current] = "error")

RecordInv == TypeOK /\ Kept /\ Begun /\ OneThread /\ Taken /\ NotBoth /\ Verdicts

\* The initial state satisfies the invariant.
LEMMA InitRecordInv == Init => RecordInv
  BY InitTypeOK, TasksAssumption DEF Init, RecordInv, Kept, Begun, OneThread, Taken,
     NotBoth, Verdicts

\* Every step of every thread preserves the invariant.
LEMMA NextRecordInv == RecordInv /\ [Next]_vars => RecordInv'
<1> SUFFICES ASSUME RecordInv, [Next]_vars, TypeOK' PROVE RecordInv'
  BY NextTypeOK DEF RecordInv
<1> USE TasksAssumption DEF RecordInv, TypeOK, Kept, Begun, OneThread, Taken, NotBoth,
        Verdicts, recordVars, taskVars, rpcVars, engineVars
<1>1. CASE Record
  <2>1. ASSUME NEW t \in Tasks, SubmitTask(t) PROVE RecordInv'
    BY <1>1, <2>1 DEF Record, SubmitTask
  <2>2. ASSUME NEW t \in Tasks, ClearTask(t) PROVE RecordInv'
    BY <1>1, <2>2 DEF Record, ClearTask
  <2> QED
    BY <1>1, <2>1, <2>2 DEF Record
<1>2. CASE Request
  <2>1. ASSUME NEW t \in Tasks, BeginTask(t) PROVE RecordInv'
    BY <1>2, <2>1 DEF Request, rpcFrame, BeginTask, Accepts
  <2>2. CASE Start
    BY <1>2, <2>2 DEF Request, rpcFrame, Start
  <2>3. CASE Stop
    BY <1>2, <2>3 DEF Request, rpcFrame, Stop
  <2> QED
    BY <1>2, <2>1, <2>2, <2>3 DEF Request
<1>3. CASE Control
  <2>1. CASE Pause
    BY <1>3, <2>1 DEF Control, Pause, OnStateChange, ReportStatus, MarkTaskAsStarted
  <2>2. CASE Resume
    BY <1>3, <2>2 DEF Control, Resume, OnStateChange, ReportStatus,
       MarkTaskAsStarted
  <2>3. CASE CancelActiveTask("ABORTING")
    BY <1>3, <2>3 DEF Control, CancelActiveTask, OnStateChange, ReportStatus,
       MarkTaskAsStarted
  <2>4. CASE CancelActiveTask("STOPPING")
    BY <1>3, <2>4 DEF Control, CancelActiveTask, OnStateChange, ReportStatus,
       MarkTaskAsStarted
  <2> QED
    BY <1>3, <2>1, <2>2, <2>3, <2>4 DEF Control
<1>4. CASE Call
  <2>1. CASE PutTask
    BY <1>4, <2>1 DEF Call, rpcFrame, PutTask, Room
  <2>2. CASE PutFull
    BY <1>4, <2>2 DEF Call, rpcFrame, PutFull
  <2>3. CASE BeginReturns
    BY <1>4, <2>3 DEF Call, rpcFrame, BeginReturns
  <2>4. CASE RunWorkerInOwnThread
    BY <1>4, <2>4 DEF Call, rpcFrame, RunWorkerInOwnThread
  <2>5. CASE PutKillSignal
    BY <1>4, <2>5 DEF Call, rpcFrame, PutKillSignal, Room
  <2>6. CASE WaitUntilStopped
    BY <1>4, <2>6 DEF Call, rpcFrame, WaitUntilStopped
  <2> QED
    BY <1>4, <2>1, <2>2, <2>3, <2>4, <2>5, <2>6 DEF Call
<1>5. CASE Loop
  <2>1. CASE Run
    BY <1>5, <2>1 DEF Loop, Run
  <2>2. ASSUME NEW t \in Tasks, GetTask(t) PROVE RecordInv'
    BY <1>5, <2>2 DEF Loop, GetTask, ChannelAfter
  <2>3. CASE GetKillSignal
    BY <1>5, <2>3 DEF Loop, GetKillSignal, ChannelAfter
  <2>4. CASE LeaveLoop
    BY <1>5, <2>4 DEF Loop, LeaveLoop
  <2>5. CASE Stopped
    BY <1>5, <2>5 DEF Loop, Stopped
  <2> QED
    BY <1>5, <2>1, <2>2, <2>3, <2>4, <2>5 DEF Loop
<1>6. CASE ProcessTask
  <2>1. CASE DoTaskFails
    BY <1>6, <2>1 DEF ProcessTask, DoTaskFails, TaskRaised, ReportError
  <2>2. CASE DoTask
    BY <1>6, <2>2 DEF ProcessTask, DoTask, OnStateChange, ReportStatus,
       MarkTaskAsStarted
  <2>3. CASE TaskReturns
    BY <1>6, <2>3 DEF ProcessTask, TaskReturns, TaskRaised, ReportError
  <2> QED
    BY <1>6, <2>1, <2>2, <2>3 DEF ProcessTask
<1>7. CASE CycleEnd
  <2>1. CASE MarkComplete
    BY <1>7, <2>1 DEF CycleEnd, MarkComplete
  <2>2. CASE PopPending
    BY <1>7, <2>2 DEF CycleEnd, PopPending, PendingPopped
  <2>3. CASE PopRaises
    BY <1>7, <2>3 DEF CycleEnd, PopRaises, ReportError
  <2>4. CASE StoreCompleted
    BY <1>7, <2>4 DEF CycleEnd, StoreCompleted
  <2>5. CASE ReportCompletion
    BY <1>7, <2>5 DEF CycleEnd, ReportCompletion, ReportStatus, MarkTaskAsStarted
  <2>6. CASE ClearErrors
    BY <1>7, <2>6 DEF CycleEnd, ClearErrors
  <2> QED
    BY <1>7, <2>1, <2>2, <2>3, <2>4, <2>5, <2>6 DEF CycleEnd
<1>8. CASE Engine
  <2>1. CASE EnginePause
    BY <1>8, <2>1 DEF Engine, engineFrame, EnginePause, OnStateChange, ReportStatus,
       MarkTaskAsStarted
  <2>2. CASE EnginePauseFails
    BY <1>8, <2>2 DEF Engine, engineFrame, EnginePauseFails, OnStateChange,
       ReportStatus, MarkTaskAsStarted
  <2>3. CASE OnDocument
    BY <1>8, <2>3 DEF Engine, engineFrame, OnDocument
  <2>4. CASE EnginePaused
    BY <1>8, <2>4 DEF Engine, engineFrame, EnginePaused, EngineActive,
       ReturnToCaller, OnStateChange, ReportStatus, MarkTaskAsStarted
  <2>5. CASE EngineFinish
    BY <1>8, <2>5 DEF Engine, engineFrame, EngineFinish, EngineActive,
       ReturnToCaller, OnStateChange, ReportStatus, MarkTaskAsStarted
  <2> QED
    BY <1>8, <2>1, <2>2, <2>3, <2>4, <2>5 DEF Engine, Plan, PlanEnds
<1>9. CASE UNCHANGED vars
  BY <1>9 DEF vars
<1>10. CASE Listing
  BY <1>10 DEF Listing, listFrame, GetTasks, GetTasksReturns, ReadOrder
<1> QED
  BY <1>1, <1>2, <1>3, <1>4, <1>5, <1>6, <1>7, <1>8, <1>9, <1>10 DEF Next, Worker

\* The invariant holds in every reachable state.
LEMMA RecordInvariant == Spec => []RecordInv
  BY InitRecordInv, NextRecordInv, PTL DEF Spec

\* Pending and completed tasks are kept apart and completed tasks have an outcome,
\* whatever the interleaving of clear_task and begin_task with the end of _cycle.
THEOREM RecordsAreSettled == Spec => []RecordsSettled
<1>1. RecordInv => RecordsSettled
  BY DEF RecordInv, Kept, Taken, NotBoth, Verdicts, RecordsSettled
<1> QED
  BY <1>1, RecordInvariant, PTL

\* What a listing in progress has read, and will read, covers every task that was not
\* cleared: a record only moves from the dictionary read first to the one read second.
\* The calls that add or remove records wait until the listing has returned.
ListedInv ==
  /\ RecordInv
  /\ rpc = "list" =>
       submitted \ cleared \subseteq
         listed \cup completed_tasks \cup (IF wpc = "store" THEN {current} ELSE {})

\* Every step preserves it.
LEMMA NextListed == ListedInv /\ [Next]_vars => ListedInv'
<1> SUFFICES ASSUME ListedInv, [Next]_vars, RecordInv' PROVE ListedInv'
  BY NextRecordInv DEF ListedInv
<1> USE DEF ListedInv, RecordInv, Kept, recordVars, taskVars, rpcVars, engineVars
<1>1. CASE Record
  BY <1>1 DEF Record, SubmitTask, ClearTask
<1>2. CASE Listing
  <2>1. CASE GetTasks
    BY <1>2, <2>1 DEF Listing, listFrame, GetTasks, ReadOrder
  <2>2. CASE GetTasksReturns
    BY <1>2, <2>2 DEF Listing, GetTasksReturns
  <2> QED
    BY <1>2, <2>1, <2>2 DEF Listing
<1>3. CASE Request
  BY <1>3 DEF Request, rpcFrame, BeginTask, Start, Stop
<1>4. CASE Control
  BY <1>4 DEF Control, Pause, Resume, CancelActiveTask
<1>5. CASE Call
  BY <1>5 DEF Call, rpcFrame, PutTask, PutFull, BeginReturns, RunWorkerInOwnThread,
     PutKillSignal, WaitUntilStopped
<1>6. CASE Loop
  BY <1>6 DEF Loop, Run, GetTask, GetKillSignal, LeaveLoop, Stopped
<1>7. CASE ProcessTask
  BY <1>7 DEF ProcessTask, DoTaskFails, DoTask, TaskReturns
<1>8. CASE CycleEnd
  BY <1>8 DEF CycleEnd, MarkComplete, PopPending, PopRaises, StoreCompleted,
     ReportCompletion, ClearErrors
<1>9. CASE Engine
  BY <1>9 DEF Engine, engineFrame, Plan, PlanEnds, EnginePause, EnginePauseFails,
     OnDocument, EnginePaused, EngineFinish, ReturnToCaller
<1>10. CASE UNCHANGED vars
  BY <1>10 DEF vars
<1> QED
  BY <1>1, <1>2, <1>3, <1>4, <1>5, <1>6, <1>7, <1>8, <1>9, <1>10 DEF Next, Worker

\* get_tasks, which reads the two dictionaries one after the other while _cycle moves
\* records between them, misses at most the task whose record is in neither just then.
THEOREM NoTaskIsLost == Spec => []EveryTaskListed
<1>1. Init => ListedInv
  BY InitRecordInv DEF Init, ListedInv
<1>2. ListedInv => EveryTaskListed
  BY DEF ListedInv, EveryTaskListed, ReadOrder
<1> QED
  BY <1>1, <1>2, NextListed, PTL DEF Spec

\* The completion event of a task agrees with the task's record.
THEOREM VerdictIsHonest == Spec => []VerdictHonest
<1>1. RecordInv => VerdictHonest
  BY DEF RecordInv, Taken, Verdicts, VerdictHonest
<1> QED
  BY <1>1, RecordInvariant, PTL

\* begin_task returns without an error only when its task is the active task.
THEOREM BegunBecomesCurrent == Spec => []BegunIsCurrent
<1>1. RecordInv => BegunIsCurrent
  BY DEF RecordInv, Begun, BegunIsCurrent
<1> QED
  BY <1>1, RecordInvariant, PTL

-----------------------------------------------------------------------------
(* The worker implements the life cycle: the steps that touch the fields    *)
(* phase is made of are submit_task, clear_task, the get of a task and its  *)
(* completion; the steps that publish announce a task that is complete.     *)

\* The initial state is one of TaskLifecycle.
LEMMA InitLifecycle == Init => Lifecycle!Init
  BY DEF Init, Lifecycle!Init, phase

\* An event published while nothing else changes announces at most the current
\* task, which has ended when the event says so.
LEMMA ReportIsAnnounce ==
  ASSUME RecordInv, ReportStatus, UNCHANGED <<submitted, cleared, complete, taken>>
  PROVE  [Lifecycle!Next]_(Lifecycle!lifecycleVars)
<1>1. phase' = phase
  BY DEF phase
<1>2. CASE current \in complete
  <2>1. current \in Tasks /\ phase[current] \in {"complete", "dropped"}
    BY <1>2 DEF phase, RecordInv, TypeOK, Kept, Taken
  <2>2. Lifecycle!Announce(current)
    BY <1>1, <1>2, <2>1 DEF Lifecycle!Announce, ReportStatus
  <2> QED
    BY <2>1, <2>2 DEF Lifecycle!Next
<1>3. CASE current \notin complete
  BY <1>1, <1>3 DEF ReportStatus, Lifecycle!lifecycleVars
<1> QED
  BY <1>2, <1>3

\* A step that changes none of the fields a client can see.
LEMMA SilentStep ==
  ASSUME UNCHANGED <<submitted, cleared, complete, taken, announced>>
  PROVE  [Lifecycle!Next]_(Lifecycle!lifecycleVars)
  BY DEF phase, Lifecycle!lifecycleVars

\* submit_task submits.
LEMMA SubmitIsSubmit ==
  ASSUME RecordInv, NEW t \in Tasks, SubmitTask(t), Record
  PROVE  [Lifecycle!Next]_(Lifecycle!lifecycleVars)
<1> USE DEF RecordInv, TypeOK, Kept, Taken, SubmitTask, Record, taskVars
<1>1. phase[t] = "absent"
  BY DEF phase
<1>2. phase' = [phase EXCEPT ![t] = "pending"]
  BY ZenonT(30) DEF phase
<1> QED
  BY <1>1, <1>2 DEF Lifecycle!Submit, Lifecycle!Next

\* clear_task drops a task that the worker keeps.
LEMMA ClearIsDrop ==
  ASSUME RecordInv, NEW t \in Tasks, ClearTask(t), Record
  PROVE  [Lifecycle!Next]_(Lifecycle!lifecycleVars)
<1> USE DEF RecordInv, TypeOK, Kept, Taken, ClearTask, Record, taskVars
<1>1. phase[t] \in {"pending", "running", "complete"}
  BY DEF phase
<1>2. phase' = [phase EXCEPT ![t] = "dropped"]
  BY ZenonT(30) DEF phase
<1> QED
  BY <1>1, <1>2 DEF Lifecycle!Drop, Lifecycle!Next

\* Taking a task begins it, unless it was cleared or is executed again.
LEMMA GetIsBegin ==
  ASSUME RecordInv, NEW t \in Tasks, GetTask(t), Loop
  PROVE  [Lifecycle!Next]_(Lifecycle!lifecycleVars)
<1> USE DEF RecordInv, TypeOK, Kept, Begun, Taken, GetTask, Loop, recordVars
<1>1. CASE t \in cleared \cup complete
  <2>1. phase' = phase
    <3>1. \A u \in Tasks : phase[u]' = phase[u]
      BY <1>1 DEF phase
    <3> QED
      BY <3>1 DEF phase
  <2> QED
    BY <2>1 DEF Lifecycle!lifecycleVars
<1>2. CASE t \notin cleared \cup complete
  <2>1. phase[t] = "pending" /\ \A u \in Tasks : phase[u] # "running"
    BY <1>2 DEF phase
  <2>2. t \in submitted /\ submitted' = submitted /\ cleared' = cleared
        /\ complete' = complete /\ taken' = taken \cup {t}
    BY <1>2
  <2>3. phase' = [phase EXCEPT ![t] = "running"]
    BY ONLY <1>2, <2>2 DEF phase
  <2> QED
    BY <2>1, <2>3 DEF Lifecycle!Begin, Lifecycle!Next
<1> QED
  BY <1>1, <1>2

\* Marking the current task complete ends it, if it was running.
LEMMA MarkIsEnd ==
  ASSUME RecordInv, MarkComplete, CycleEnd
  PROVE  [Lifecycle!Next]_(Lifecycle!lifecycleVars)
<1> USE DEF RecordInv, TypeOK, Kept, Taken, MarkComplete, CycleEnd
<1>1. CASE current \in {NoTask} \cup cleared \cup complete
  <2>1. submitted' = submitted /\ cleared' = cleared /\ taken' = taken
        /\ \A u \in Tasks \ cleared : u \in complete' <=> u \in complete
    BY <1>1, TasksAssumption
  <2>2. phase' = phase
    BY ONLY <2>1 DEF phase
  <2> QED
    BY <2>2 DEF Lifecycle!lifecycleVars
<1>2. CASE current \notin {NoTask} \cup cleared \cup complete
  <2>1. current \in Tasks /\ phase[current] = "running"
    BY <1>2 DEF phase
  <2>2. submitted' = submitted /\ cleared' = cleared /\ taken' = taken
        /\ complete' = complete \cup {current} /\ current \in submitted
    BY <1>2
  <2>3. phase' = [phase EXCEPT ![current] = "complete"]
    BY ONLY <1>2, <2>2 DEF phase
  <2>4. Lifecycle!End(current)
    BY <2>1, <2>3 DEF Lifecycle!End
  <2> QED
    BY <2>1, <2>4 DEF Lifecycle!Next
<1> QED
  BY <1>1, <1>2

\* Every step of the worker is a step of the life cycle or invisible to it.
LEMMA NextLifecycle ==
  RecordInv /\ [Next]_vars => [Lifecycle!Next]_(Lifecycle!lifecycleVars)
<1> SUFFICES ASSUME RecordInv, [Next]_vars
             PROVE  [Lifecycle!Next]_(Lifecycle!lifecycleVars)
  OBVIOUS
<1> USE DEF recordVars, taskVars
<1>1. CASE Record
  BY <1>1, SubmitIsSubmit, ClearIsDrop DEF Record
<1>2. CASE Request \/ Call
  BY <1>2, SilentStep DEF Request, Call, rpcFrame
<1>3. CASE Control
  BY <1>3, ReportIsAnnounce DEF Control, Pause, Resume, CancelActiveTask, OnStateChange
<1>4. CASE Loop
  BY <1>4, GetIsBegin, SilentStep DEF Loop, Run, GetKillSignal, LeaveLoop, Stopped
<1>5. CASE ProcessTask
  BY <1>5, ReportIsAnnounce, SilentStep DEF ProcessTask, DoTaskFails, DoTask,
     TaskReturns, OnStateChange
<1>6. CASE CycleEnd
  BY <1>6, MarkIsEnd, ReportIsAnnounce, SilentStep DEF CycleEnd, PopPending, PopRaises,
     StoreCompleted, ReportCompletion, ClearErrors
<1>7. CASE Engine
  BY <1>7, ReportIsAnnounce, SilentStep DEF Engine, engineFrame, Plan, PlanEnds,
     EnginePause, EnginePauseFails, OnDocument, EnginePaused, EngineFinish, OnStateChange
<1>8. CASE Listing
  BY <1>8, SilentStep DEF Listing, listFrame
<1>9. CASE UNCHANGED vars
  BY <1>9, SilentStep DEF vars
<1> QED
  BY <1>1, <1>2, <1>3, <1>4, <1>5, <1>6, <1>7, <1>8, <1>9 DEF Next, Worker

\* What the worker's records and events show of a task is a behaviour of
\* TaskLifecycle, for every number of tasks and every behaviour of the callers.
THEOREM WorkerImplementsLifecycle == Spec => ImplementsLifecycle
<1>1. Init => Lifecycle!Init
  BY InitLifecycle
<1>2. RecordInv /\ [Next]_vars => [Lifecycle!Next]_(Lifecycle!lifecycleVars)
  BY NextLifecycle
<1> QED
  BY <1>1, <1>2, RecordInvariant, PTL DEF Spec, ImplementsLifecycle, Lifecycle!Spec

-----------------------------------------------------------------------------
(* How often a plan is executed.                                           *)

\* An execution that may still come: of the task the worker thread has taken, of one
\* in the channel, and of one whose begin_task is past its checks.
Held(t) == IF wpc = "taken" /\ current = t THEN 1 ELSE 0
Queued(t) == IF t \in channel THEN 1 ELSE 0
Asked(t) == IF rpc = "put" /\ rpcTask = t THEN 1 ELSE 0

Few(t) ==
  /\ t \notin taken => runs[t] = 0
  /\ t \notin complete => runs[t] + Held(t) <= 1
  /\ runs[t] + Held(t) + Queued(t) + Asked(t) <= 3

FewInv == RecordInv /\ \A t \in Tasks : Few(t)

\* A step that moves no task preserves it.
LEMMA StaysFew ==
  ASSUME FewInv, TypeOK', UNCHANGED <<runs, taken>>, complete \subseteq complete',
         \A t \in Tasks : t \in channel' => t \in channel,
         wpc' = "taken" => wpc = "taken" /\ current' = current,
         rpc' = "put" => rpc = "put" /\ rpcTask' = rpcTask
  PROVE  \A t \in Tasks : Few(t)'
<1> TAKE t \in Tasks
<1>1. /\ Held(t) \in {0, 1} /\ Queued(t) \in {0, 1} /\ Asked(t) \in {0, 1}
      /\ Held(t)' \in {0, 1} /\ Queued(t)' \in {0, 1} /\ Asked(t)' \in {0, 1}
      /\ Held(t)' <= Held(t) /\ Queued(t)' <= Queued(t) /\ Asked(t)' <= Asked(t)
  BY DEF Held, Queued, Asked
<1>2. runs[t] \in Nat /\ runs'[t] = runs[t]
  BY DEF FewInv, RecordInv, TypeOK
<1> QED
  BY <1>1, <1>2 DEF FewInv, Few

\* A caller may begin a task whose first execution has not been completed, and then
\* that one and what is in the channel are all there is beside.
LEMMA BeginKeepsFew ==
  ASSUME FewInv, NEW u \in Tasks, BeginTask(u), UNCHANGED rpcFrame
  PROVE  \A t \in Tasks : Few(t)'
<1> TAKE t \in Tasks
<1>1. /\ Held(t) \in {0, 1} /\ Queued(t) \in {0, 1} /\ Asked(t) = 0
      /\ Held(t)' = Held(t) /\ Queued(t)' = Queued(t)
      /\ Asked(t)' = (IF t = u THEN 1 ELSE 0)
  BY DEF BeginTask, rpcFrame, Held, Queued, Asked
<1>2. runs[t] \in Nat /\ runs'[t] = runs[t]
  BY DEF FewInv, RecordInv, TypeOK, rpcFrame, engineVars
<1>3. u \notin complete /\ UNCHANGED <<taken, complete>>
  BY DEF BeginTask, Accepts, rpcFrame, taskVars
<1> QED
  BY <1>1, <1>2, <1>3 DEF FewInv, Few

\* put_nowait moves an execution from the begin_task to the channel.
LEMMA PutKeepsFew ==
  ASSUME FewInv, PutTask, UNCHANGED rpcFrame
  PROVE  \A t \in Tasks : Few(t)'
<1> TAKE t \in Tasks
<1>1. /\ Held(t) \in {0, 1} /\ Queued(t) = 0 /\ Asked(t) \in {0, 1}
      /\ Held(t)' = Held(t) /\ Queued(t)' = Asked(t) /\ Asked(t)' = 0
  BY DEF PutTask, Room, rpcFrame, Held, Queued, Asked
<1>2. runs[t] \in Nat /\ runs'[t] = runs[t]
  BY DEF FewInv, RecordInv, TypeOK, rpcFrame, engineVars
<1> QED
  BY <1>1, <1>2 DEF FewInv, Few, PutTask, rpcFrame, taskVars

\* The worker thread takes it: a task that is not complete was never taken before.
LEMMA GetKeepsFew ==
  ASSUME FewInv, NEW u \in Tasks, GetTask(u), UNCHANGED <<runs, complete, rpcTask>>
  PROVE  \A t \in Tasks : Few(t)'
<1> TAKE t \in Tasks
<1>1. /\ Held(t) = 0 /\ Queued(t) \in {0, 1} /\ Asked(t) \in {0, 1} /\ Asked(t)' = Asked(t)
      /\ Held(t)' = (IF t = u THEN 1 ELSE 0) /\ (t = u => Queued(t) = 1)
      /\ Queued(t)' = (IF t = u THEN 0 ELSE Queued(t))
  BY DEF GetTask, ChannelAfter, Held, Queued, Asked
<1>2. runs[t] \in Nat /\ runs'[t] = runs[t] /\ taken \subseteq complete
  BY DEF FewInv, RecordInv, TypeOK, Taken, GetTask
<1> QED
  BY <1>1, <1>2 DEF FewInv, Few, GetTask

\* The RunEngine starts the plan.
LEMMA DoKeepsFew ==
  ASSUME FewInv, DoTask, UNCHANGED <<taken, complete, rpc, rpcTask, channel, current>>
  PROVE  \A t \in Tasks : Few(t)'
<1> TAKE t \in Tasks
<1>1. /\ Held(t) = (IF t = current THEN 1 ELSE 0) /\ Held(t)' = 0
      /\ Queued(t) \in {0, 1} /\ Asked(t) \in {0, 1}
      /\ Queued(t)' = Queued(t) /\ Asked(t)' = Asked(t)
  BY DEF DoTask, Held, Queued, Asked
<1>2. /\ runs[t] \in Nat /\ current \in taken
      /\ runs'[t] = (IF t = current THEN runs[t] + 1 ELSE runs[t])
  BY TasksAssumption DEF FewInv, RecordInv, TypeOK, Taken, DoTask
<1> QED
  BY <1>1, <1>2 DEF FewInv, Few, DoTask

\* Every step preserves the bound.
LEMMA NextFew == FewInv /\ [Next]_vars => FewInv'
<1> SUFFICES ASSUME FewInv, [Next]_vars PROVE \A t \in Tasks : Few(t)'
  BY NextRecordInv DEF FewInv
<1>0. TypeOK'
  BY NextTypeOK DEF FewInv, RecordInv
<1> USE DEF recordVars, taskVars, rpcVars, engineVars
<1>1. CASE Record
  BY <1>0, <1>1, StaysFew DEF Record
<1>2. CASE Request
  BY <1>0, <1>2, StaysFew, BeginKeepsFew DEF Request, rpcFrame, Start, Stop
<1>3. CASE Control
  BY <1>0, <1>3, StaysFew DEF Control, Pause, Resume, CancelActiveTask, OnStateChange
<1>4. CASE Call
  <2>1. CASE PutTask
    BY <1>4, <2>1, PutKeepsFew DEF Call
  <2>2. CASE PutKillSignal
    <3>1. \A t \in Tasks : t # KillSignal
      BY TasksAssumption
    <3> QED
      BY <1>0, <1>4, <2>2, <3>1, StaysFew DEF Call, rpcFrame, PutKillSignal
  <2>3. CASE PutFull \/ BeginReturns \/ RunWorkerInOwnThread \/ WaitUntilStopped
    BY <1>0, <1>4, <2>3, StaysFew
    DEF Call, rpcFrame, PutFull, BeginReturns, RunWorkerInOwnThread, WaitUntilStopped
  <2> QED
    BY <1>4, <2>1, <2>2, <2>3 DEF Call
<1>5. CASE Loop
  <2>1. ASSUME NEW u \in Tasks, GetTask(u) PROVE \A t \in Tasks : Few(t)'
    BY <1>5, <2>1, GetKeepsFew DEF Loop
  <2>2. CASE Run \/ GetKillSignal \/ LeaveLoop \/ Stopped
    BY <1>0, <1>5, <2>2, StaysFew
    DEF Loop, Run, GetKillSignal, LeaveLoop, Stopped, ChannelAfter
  <2> QED
    BY <1>5, <2>1, <2>2 DEF Loop
<1>6. CASE ProcessTask
  <2>1. CASE DoTask
    BY <1>6, <2>1, DoKeepsFew DEF ProcessTask
  <2>2. CASE DoTaskFails \/ TaskReturns
    BY <1>0, <1>6, <2>2, StaysFew DEF ProcessTask, DoTaskFails, TaskReturns
  <2> QED
    BY <1>6, <2>1, <2>2 DEF ProcessTask
<1>7. CASE CycleEnd
  BY <1>0, <1>7, StaysFew DEF CycleEnd, MarkComplete, PopPending, PopRaises,
     StoreCompleted, ReportCompletion, ClearErrors
<1>8. CASE Engine
  BY <1>0, <1>8, StaysFew DEF Engine, engineFrame, Plan, PlanEnds, EnginePause,
     EnginePauseFails, OnDocument, EnginePaused, EngineFinish, ReturnToCaller
<1>9. CASE UNCHANGED vars
  BY <1>0, <1>9, StaysFew DEF vars
<1>10. CASE Listing
  BY <1>0, <1>10, StaysFew DEF Listing, listFrame, GetTasks, GetTasksReturns
<1> QED
  BY <1>1, <1>2, <1>3, <1>4, <1>5, <1>6, <1>7, <1>8, <1>9, <1>10 DEF Next, Worker

\* _submit_trackable_task's checks let a task be begun again before it is marked
\* complete, but never make its plan run more than three times.
THEOREM PlansRunThreeTimesAtMost == Spec => []RunsBounded
<1>1. Init => FewInv
  BY InitRecordInv DEF Init, FewInv, Few, Held, Queued, Asked
<1>2. FewInv => RunsBounded
  <2> SUFFICES ASSUME FewInv, NEW t \in Tasks PROVE runs[t] <= 3
    BY DEF RunsBounded
  <2>1. Held(t) \in {0, 1} /\ Queued(t) \in {0, 1} /\ Asked(t) \in {0, 1}
    BY DEF Held, Queued, Asked
  <2>2. runs[t] \in Nat /\ Few(t)
    BY DEF FewInv, RecordInv, TypeOK
  <2> QED
    BY <2>1, <2>2 DEF Few
<1> QED
  BY <1>1, <1>2, NextFew, PTL DEF Spec
=============================================================================
