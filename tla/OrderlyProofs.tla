---------------------------- MODULE OrderlyProofs ----------------------------
(***************************************************************************)
(* Proofs about TaskWorker under callers that do not begin a task twice    *)
(* and, for the later theorems, whose waits do not expire.                 *)
(***************************************************************************)
EXTENDS TaskWorkerProofs

\* A task that is about to be put in the channel was never there; a task in the
\* channel was never taken; its plan is started in the cycle that took it.
Once ==
  /\ rpc = "put" => rpcTask \notin begun
  /\ channel \cap taken = {}
  /\ \A t \in Tasks : runs[t] <= 1
  /\ \A t \in Tasks \ taken : runs[t] = 0
  /\ wpc = "taken" => runs[current] = 0

OnceInv == RecordInv /\ Once

\* The initial state satisfies the invariant.
LEMMA InitOnce == Init => OnceInv
  BY InitRecordInv, TasksAssumption DEF Init, OnceInv, Once

\* A step preserves it when no task is begun twice.
LEMMA NextOnce ==
  ASSUME ~ RepeatBegin
  PROVE  OnceInv /\ [Next]_vars => OnceInv'
<1> SUFFICES ASSUME OnceInv, [Next]_vars PROVE Once'
  BY NextRecordInv DEF OnceInv
<1> USE TasksAssumption DEF OnceInv, Once, RecordInv, TypeOK, Begun, Taken,
        recordVars, taskVars, rpcVars, engineVars
<1>1. CASE Record
  <2>1. ASSUME NEW t \in Tasks, SubmitTask(t) PROVE Once'
    BY <1>1, <2>1 DEF Record, SubmitTask
  <2>2. ASSUME NEW t \in Tasks, ClearTask(t) PROVE Once'
    BY <1>1, <2>2 DEF Record, ClearTask
  <2> QED
    BY <1>1, <2>1, <2>2 DEF Record
<1>2. CASE Request
  <2>1. ASSUME NEW t \in Tasks, BeginTask(t) PROVE Once'
    BY <1>2, <2>1 DEF Request, rpcFrame, BeginTask, Accepts
  <2>2. CASE Start
    BY <1>2, <2>2 DEF Request, rpcFrame, Start
  <2>3. CASE Stop
    BY <1>2, <2>3 DEF Request, rpcFrame, Stop
  <2> QED
    BY <1>2, <2>1, <2>2, <2>3 DEF Request
<1>3. CASE Control
  <2>1. CASE Pause
    BY <1>3, <2>1 DEF Control, Pause, OnStateChange, ReportStatus, MarkTaskAsStarted
  <2>2. CASE Resume
    BY <1>3, <2>2 DEF Control, Resume, OnStateChange, ReportStatus,
       MarkTaskAsStarted
  <2>3. CASE CancelActiveTask("ABORTING")
    BY <1>3, <2>3 DEF Control, CancelActiveTask, OnStateChange, ReportStatus,
       MarkTaskAsStarted
  <2>4. CASE CancelActiveTask("STOPPING")
    BY <1>3, <2>4 DEF Control, CancelActiveTask, OnStateChange, ReportStatus,
       MarkTaskAsStarted
  <2> QED
    BY <1>3, <2>1, <2>2, <2>3, <2>4 DEF Control
<1>4. CASE Call
  <2>1. CASE PutTask
    BY <1>4, <2>1 DEF Call, rpcFrame, PutTask, Room
  <2>2. CASE PutFull
    BY <1>4, <2>2 DEF Call, rpcFrame, PutFull
  <2>3. CASE BeginReturns
    BY <1>4, <2>3 DEF Call, rpcFrame, BeginReturns
  <2>4. CASE RunWorkerInOwnThread
    BY <1>4, <2>4 DEF Call, rpcFrame, RunWorkerInOwnThread
  <2>5. CASE PutKillSignal
    BY <1>4, <2>5 DEF Call, rpcFrame, PutKillSignal, Room
  <2>6. CASE WaitUntilStopped
    BY <1>4, <2>6 DEF Call, rpcFrame, WaitUntilStopped
  <2> QED
    BY <1>4, <2>1, <2>2, <2>3, <2>4, <2>5, <2>6 DEF Call
<1>5. CASE Loop
  <2>1. CASE Run
    BY <1>5, <2>1 DEF Loop, Run
  <2>2. ASSUME NEW t \in Tasks, GetTask(t) PROVE Once'
    BY <1>5, <2>2 DEF Loop, GetTask, ChannelAfter
  <2>3. CASE GetKillSignal
    BY <1>5, <2>3 DEF Loop, GetKillSignal, ChannelAfter
  <2>4. CASE LeaveLoop
    BY <1>5, <2>4 DEF Loop, LeaveLoop
  <2>5. CASE Stopped
    BY <1>5, <2>5 DEF Loop, Stopped
  <2> QED
    BY <1>5, <2>1, <2>2, <2>3, <2>4, <2>5 DEF Loop
<1>6. CASE ProcessTask
  <2>1. CASE DoTaskFails
    BY <1>6, <2>1 DEF ProcessTask, DoTaskFails, TaskRaised, ReportError
  <2>2. CASE DoTask
    BY <1>6, <2>2 DEF ProcessTask, DoTask, OnStateChange, ReportStatus,
       MarkTaskAsStarted
  <2>3. CASE TaskReturns
    BY <1>6, <2>3 DEF ProcessTask, TaskReturns, TaskRaised, ReportError
  <2> QED
    BY <1>6, <2>1, <2>2, <2>3 DEF ProcessTask
<1>7. CASE CycleEnd
  <2>1. CASE MarkComplete
    BY <1>7, <2>1 DEF CycleEnd, MarkComplete
  <2>2. CASE PopPending
    BY <1>7, <2>2 DEF CycleEnd, PopPending, PendingPopped
  <2>3. CASE PopRaises
    BY <1>7, <2>3 DEF CycleEnd, PopRaises, ReportError
  <2>4. CASE StoreCompleted
    BY <1>7, <2>4 DEF CycleEnd, StoreCompleted
  <2>5. CASE ReportCompletion
    BY <1>7, <2>5 DEF CycleEnd, ReportCompletion, ReportStatus, MarkTaskAsStarted
  <2>6. CASE ClearErrors
    BY <1>7, <2>6 DEF CycleEnd, ClearErrors
  <2> QED
    BY <1>7, <2>1, <2>2, <2>3, <2>4, <2>5, <2>6 DEF CycleEnd
<1>8. CASE Engine
  <2>1. CASE EnginePause
    BY <1>8, <2>1 DEF Engine, engineFrame, EnginePause, OnStateChange, ReportStatus,
       MarkTaskAsStarted
  <2>2. CASE EnginePauseFails
    BY <1>8, <2>2 DEF Engine, engineFrame, EnginePauseFails, OnStateChange,
       ReportStatus, MarkTaskAsStarted
  <2>3. CASE OnDocument
    BY <1>8, <2>3 DEF Engine, engineFrame, OnDocument
  <2>4. CASE EnginePaused
    BY <1>8, <2>4 DEF Engine, engineFrame, EnginePaused, ReturnToCaller,
       OnStateChange, ReportStatus, MarkTaskAsStarted
  <2>5. CASE EngineFinish
    BY <1>8, <2>5 DEF Engine, engineFrame, EngineFinish, EngineActive,
       ReturnToCaller, OnStateChange, ReportStatus, MarkTaskAsStarted
  <2> QED
    BY <1>8, <2>1, <2>2, <2>3, <2>4, <2>5 DEF Engine, Plan, PlanEnds
<1>9. CASE UNCHANGED vars
  BY <1>9 DEF vars
<1>10. CASE Listing
  BY <1>10 DEF Listing, listFrame, GetTasks, GetTasksReturns, ReadOrder
<1> QED
  BY <1>1, <1>2, <1>3, <1>4, <1>5, <1>6, <1>7, <1>8, <1>9, <1>10 DEF Next, Worker

\* Who is at work: a task in the channel, or taken and not yet started, belongs to
\* the begin_task in progress; while a plan runs nobody is putting a task; and the
\* RunEngine is idle from the checks of begin_task until its task is started.
OneAtWork ==
  /\ rpc # "wait" => channel \cap Tasks = {}
  /\ wpc = "taken" =>
       rpc = "wait" /\ rpcTask = current /\ task_started = {} /\ state = "IDLE"
  /\ wpc \in {"taken", "engine"} => channel \cap Tasks = {} /\ rpc # "put"
  /\ wpc = "engine" => state \notin {"IDLE", "PAUSED"} /\ rpc # "resume"
  /\ rpc = "put" \/ channel \cap Tasks # {} => state = "IDLE"
  /\ state = "IDLE" => plan = NoTask
  /\ plan # NoTask => plan = current

OneAtWorkInv == OnceInv /\ OneAtWork

\* The initial state satisfies the invariant.
LEMMA InitOneAtWork == Init => OneAtWorkInv
  BY InitOnce, TasksAssumption DEF Init, OneAtWorkInv, OneAtWork

\* A step preserves it when, moreover, no wait expires.
LEMMA NextOneAtWork ==
  ASSUME ~ RepeatBegin, ~ MayTimeOut
  PROVE  OneAtWorkInv /\ [Next]_vars => OneAtWorkInv'
<1> SUFFICES ASSUME OneAtWorkInv, [Next]_vars PROVE OneAtWork'
  BY NextOnce DEF OneAtWorkInv
<1> USE TasksAssumption DEF OneAtWorkInv, OneAtWork, OnceInv, Once, RecordInv, TypeOK,
        Begun, OneThread, Taken, WorkerStates, WorkerLocations, RpcLocations,
        recordVars, taskVars, rpcVars, engineVars
<1>1. CASE Record
  <2>1. ASSUME NEW t \in Tasks, SubmitTask(t) PROVE OneAtWork'
    BY <1>1, <2>1 DEF Record, SubmitTask
  <2>2. ASSUME NEW t \in Tasks, ClearTask(t) PROVE OneAtWork'
    BY <1>1, <2>2 DEF Record, ClearTask
  <2> QED
    BY <1>1, <2>1, <2>2 DEF Record
<1>2. CASE Request
  <2>1. ASSUME NEW t \in Tasks, BeginTask(t) PROVE OneAtWork'
    BY <1>2, <2>1 DEF Request, rpcFrame, BeginTask, Accepts
  <2>2. CASE Start
    BY <1>2, <2>2 DEF Request, rpcFrame, Start
  <2>3. CASE Stop
    BY <1>2, <2>3 DEF Request, rpcFrame, Stop
  <2> QED
    BY <1>2, <2>1, <2>2, <2>3 DEF Request
<1>3. CASE Control
  <2>1. CASE Pause
    BY <1>3, <2>1 DEF Control, Pause, OnStateChange, ReportStatus, MarkTaskAsStarted
  <2>2. CASE Resume
    BY <1>3, <2>2 DEF Control, Resume, OnStateChange, ReportStatus,
       MarkTaskAsStarted
  <2>3. CASE CancelActiveTask("ABORTING")
    BY <1>3, <2>3 DEF Control, CancelActiveTask, OnStateChange, ReportStatus,
       MarkTaskAsStarted
  <2>4. CASE CancelActiveTask("STOPPING")
    BY <1>3, <2>4 DEF Control, CancelActiveTask, OnStateChange, ReportStatus,
       MarkTaskAsStarted
  <2> QED
    BY <1>3, <2>1, <2>2, <2>3, <2>4 DEF Control
<1>4. CASE Call
  <2>1. CASE PutTask
    BY <1>4, <2>1 DEF Call, rpcFrame, PutTask, Room
  <2>2. CASE PutFull
    BY <1>4, <2>2 DEF Call, rpcFrame, PutFull
  <2>3. CASE BeginReturns
    BY <1>4, <2>3 DEF Call, rpcFrame, BeginReturns
  <2>4. CASE RunWorkerInOwnThread
    BY <1>4, <2>4 DEF Call, rpcFrame, RunWorkerInOwnThread
  <2>5. CASE PutKillSignal
    BY <1>4, <2>5 DEF Call, rpcFrame, PutKillSignal, Room
  <2>6. CASE WaitUntilStopped
    BY <1>4, <2>6 DEF Call, rpcFrame, WaitUntilStopped
  <2> QED
    BY <1>4, <2>1, <2>2, <2>3, <2>4, <2>5, <2>6 DEF Call
<1>5. CASE Loop
  <2>1. CASE Run
    BY <1>5, <2>1 DEF Loop, Run
  <2>2. ASSUME NEW t \in Tasks, GetTask(t) PROVE OneAtWork'
    BY <1>5, <2>2 DEF Loop, GetTask, ChannelAfter
  <2>3. CASE GetKillSignal
    BY <1>5, <2>3 DEF Loop, GetKillSignal, ChannelAfter
  <2>4. CASE LeaveLoop
    BY <1>5, <2>4 DEF Loop, LeaveLoop
  <2>5. CASE Stopped
    BY <1>5, <2>5 DEF Loop, Stopped
  <2> QED
    BY <1>5, <2>1, <2>2, <2>3, <2>4, <2>5 DEF Loop
<1>6. CASE ProcessTask
  <2>1. CASE DoTaskFails
    BY <1>6, <2>1 DEF ProcessTask, DoTaskFails, TaskRaised, ReportError
  <2>2. CASE DoTask
    BY <1>6, <2>2 DEF ProcessTask, DoTask, OnStateChange, ReportStatus,
       MarkTaskAsStarted
  <2>3. CASE TaskReturns
    BY <1>6, <2>3 DEF ProcessTask, TaskReturns, TaskRaised, ReportError
  <2> QED
    BY <1>6, <2>1, <2>2, <2>3 DEF ProcessTask
<1>7. CASE CycleEnd
  <2>1. CASE MarkComplete
    BY <1>7, <2>1 DEF CycleEnd, MarkComplete
  <2>2. CASE PopPending
    BY <1>7, <2>2 DEF CycleEnd, PopPending, PendingPopped
  <2>3. CASE PopRaises
    BY <1>7, <2>3 DEF CycleEnd, PopRaises, ReportError
  <2>4. CASE StoreCompleted
    BY <1>7, <2>4 DEF CycleEnd, StoreCompleted
  <2>5. CASE ReportCompletion
    BY <1>7, <2>5 DEF CycleEnd, ReportCompletion, ReportStatus, MarkTaskAsStarted
  <2>6. CASE ClearErrors
    BY <1>7, <2>6 DEF CycleEnd, ClearErrors
  <2> QED
    BY <1>7, <2>1, <2>2, <2>3, <2>4, <2>5, <2>6 DEF CycleEnd
<1>8. CASE Engine
  <2>1. CASE EnginePause
    BY <1>8, <2>1 DEF Engine, engineFrame, EnginePause, OnStateChange, ReportStatus,
       MarkTaskAsStarted
  <2>2. CASE EnginePauseFails
    BY <1>8, <2>2 DEF Engine, engineFrame, EnginePauseFails, OnStateChange,
       ReportStatus, MarkTaskAsStarted
  <2>3. CASE OnDocument
    BY <1>8, <2>3 DEF Engine, engineFrame, OnDocument
  <2>4. CASE EnginePaused
    BY <1>8, <2>4 DEF Engine, engineFrame, EnginePaused, ReturnToCaller,
       OnStateChange, ReportStatus, MarkTaskAsStarted
  <2>5. CASE EngineFinish
    BY <1>8, <2>5 DEF Engine, engineFrame, EngineFinish, EngineActive,
       ReturnToCaller, OnStateChange, ReportStatus, MarkTaskAsStarted
  <2> QED
    BY <1>8, <2>1, <2>2, <2>3, <2>4, <2>5 DEF Engine, Plan, PlanEnds
<1>9. CASE UNCHANGED vars
  BY <1>9 DEF vars
<1>10. CASE Listing
  BY <1>10 DEF Listing, listFrame, GetTasks, GetTasksReturns, ReadOrder
<1> QED
  BY <1>1, <1>2, <1>3, <1>4, <1>5, <1>6, <1>7, <1>8, <1>9, <1>10 DEF Next, Worker

\* Then no task waits behind another: the one-place channel is never a queue.
THEOREM NothingIsQueued ==
  ASSUME ~ RepeatBegin, ~ MayTimeOut
  PROVE  Spec => []NoQueue
<1>1. OneAtWorkInv => NoQueue
  BY DEF OneAtWorkInv, OneAtWork, NoQueue
<1> QED
  BY <1>1, InitOneAtWork, NextOneAtWork, PTL DEF Spec

\* And the RunEngine only ever holds the plan of the current task.
THEOREM PlanBelongsToCurrent ==
  ASSUME ~ RepeatBegin, ~ MayTimeOut
  PROVE  Spec => []PlanIsCurrent
<1>1. OneAtWorkInv => PlanIsCurrent
  BY DEF OneAtWorkInv, OneAtWork, PlanIsCurrent
<1> QED
  BY <1>1, InitOneAtWork, NextOneAtWork, PTL DEF Spec

\* Where the worker thread is when its Events are set; whose signal is in the channel;
\* and that the task of a begin_task stays pending until the worker thread has run it.
Threads ==
  /\ "started" \in flags <=> wpc \notin {"off", "boot", "exit"}
  /\ "stopped" \in flags => wpc \in {"off", "boot"}
  /\ wpc = "off" => "stopped" \in flags
  /\ wpc = "boot" => rpc = "boot"
  /\ "stopping" \in flags =>
       rpc = "join" /\ channel = {} /\ wpc \notin {"off", "boot", "taken", "engine", "returned"}
  /\ wpc = "exit" => "stopping" \in flags
  /\ KillSignal \in channel => rpc = "join" /\ Serving
  /\ rpc \in {"put", "wait"} => "started" \in flags
  /\ rpc = "put" => rpcTask \in pending_tasks
  /\ rpc = "wait" =>
       \/ rpcTask \in task_started \cup pending_tasks
       \/ rpcTask = current /\ wpc \in {"store", "report"}
  /\ state # "IDLE" => plan # NoTask

ServedInv == OneAtWorkInv /\ Threads /\ CallsServed

\* The initial state satisfies the invariant.
LEMMA InitServed == Init => ServedInv
  BY InitOneAtWork, TasksAssumption DEF Init, ServedInv, Threads, CallsServed

\* A step preserves it under the same assumptions.
LEMMA NextServed ==
  ASSUME ~ RepeatBegin, ~ MayTimeOut
  PROVE  ServedInv /\ [Next]_vars => ServedInv'
<1> SUFFICES ASSUME ServedInv, [Next]_vars PROVE (Threads /\ CallsServed)'
  BY NextOneAtWork DEF ServedInv
<1> USE TasksAssumption DEF ServedInv, Threads, CallsServed, Serving, OneAtWorkInv, OneAtWork, OnceInv, Once, RecordInv, TypeOK,
        Begun, OneThread, Taken, WorkerStates, WorkerLocations, RpcLocations,
        recordVars, taskVars, rpcVars, engineVars
<1>1. CASE Record
  <2>1. ASSUME NEW t \in Tasks, SubmitTask(t) PROVE (Threads /\ CallsServed)'
    BY <1>1, <2>1 DEF Record, SubmitTask
  <2>2. ASSUME NEW t \in Tasks, ClearTask(t) PROVE (Threads /\ CallsServed)'
    BY <1>1, <2>2 DEF Record, ClearTask
  <2> QED
    BY <1>1, <2>1, <2>2 DEF Record
<1>2. CASE Request
  <2>1. ASSUME NEW t \in Tasks, BeginTask(t) PROVE (Threads /\ CallsServed)'
    BY <1>2, <2>1 DEF Request, rpcFrame, BeginTask, Accepts
  <2>2. CASE Start
    BY <1>2, <2>2 DEF Request, rpcFrame, Start
  <2>3. CASE Stop
    BY <1>2, <2>3 DEF Request, rpcFrame, Stop
  <2> QED
    BY <1>2, <2>1, <2>2, <2>3 DEF Request
<1>3. CASE Control
  <2>1. CASE Pause
    BY <1>3, <2>1 DEF Control, Pause, OnStateChange, ReportStatus, MarkTaskAsStarted
  <2>2. CASE Resume
    BY <1>3, <2>2 DEF Control, Resume, OnStateChange, ReportStatus,
       MarkTaskAsStarted
  <2>3. CASE CancelActiveTask("ABORTING")
    BY <1>3, <2>3 DEF Control, CancelActiveTask, OnStateChange, ReportStatus,
       MarkTaskAsStarted
  <2>4. CASE CancelActiveTask("STOPPING")
    BY <1>3, <2>4 DEF Control, CancelActiveTask, OnStateChange, ReportStatus,
       MarkTaskAsStarted
  <2> QED
    BY <1>3, <2>1, <2>2, <2>3, <2>4 DEF Control
<1>4. CASE Call
  <2>1. CASE PutTask
    BY <1>4, <2>1 DEF Call, rpcFrame, PutTask, Room
  <2>2. CASE PutFull
    BY <1>4, <2>2 DEF Call, rpcFrame, PutFull
  <2>3. CASE BeginReturns
    BY <1>4, <2>3 DEF Call, rpcFrame, BeginReturns
  <2>4. CASE RunWorkerInOwnThread
    BY <1>4, <2>4 DEF Call, rpcFrame, RunWorkerInOwnThread
  <2>5. CASE PutKillSignal
    BY <1>4, <2>5 DEF Call, rpcFrame, PutKillSignal, Room
  <2>6. CASE WaitUntilStopped
    BY <1>4, <2>6 DEF Call, rpcFrame, WaitUntilStopped
  <2> QED
    BY <1>4, <2>1, <2>2, <2>3, <2>4, <2>5, <2>6 DEF Call
<1>5. CASE Loop
  <2>1. CASE Run
    BY <1>5, <2>1 DEF Loop, Run
  <2>2. ASSUME NEW t \in Tasks, GetTask(t) PROVE (Threads /\ CallsServed)'
    BY <1>5, <2>2 DEF Loop, GetTask, ChannelAfter
  <2>3. CASE GetKillSignal
    BY <1>5, <2>3 DEF Loop, GetKillSignal, ChannelAfter
  <2>4. CASE LeaveLoop
    BY <1>5, <2>4 DEF Loop, LeaveLoop
  <2>5. CASE Stopped
    BY <1>5, <2>5 DEF Loop, Stopped
  <2> QED
    BY <1>5, <2>1, <2>2, <2>3, <2>4, <2>5 DEF Loop
<1>6. CASE ProcessTask
  <2>1. CASE DoTaskFails
    BY <1>6, <2>1 DEF ProcessTask, DoTaskFails, TaskRaised, ReportError
  <2>2. CASE DoTask
    BY <1>6, <2>2 DEF ProcessTask, DoTask, OnStateChange, ReportStatus,
       MarkTaskAsStarted
  <2>3. CASE TaskReturns
    BY <1>6, <2>3 DEF ProcessTask, TaskReturns, TaskRaised, ReportError
  <2> QED
    BY <1>6, <2>1, <2>2, <2>3 DEF ProcessTask
<1>7. CASE CycleEnd
  <2>1. CASE MarkComplete
    BY <1>7, <2>1 DEF CycleEnd, MarkComplete
  <2>2. CASE PopPending
    BY <1>7, <2>2 DEF CycleEnd, PopPending, PendingPopped
  <2>3. CASE PopRaises
    BY <1>7, <2>3 DEF CycleEnd, PopRaises, ReportError
  <2>4. CASE StoreCompleted
    BY <1>7, <2>4 DEF CycleEnd, StoreCompleted
  <2>5. CASE ReportCompletion
    BY <1>7, <2>5 DEF CycleEnd, ReportCompletion, ReportStatus, MarkTaskAsStarted
  <2>6. CASE ClearErrors
    BY <1>7, <2>6 DEF CycleEnd, ClearErrors
  <2> QED
    BY <1>7, <2>1, <2>2, <2>3, <2>4, <2>5, <2>6 DEF CycleEnd
<1>8. CASE Engine
  <2>1. CASE EnginePause
    BY <1>8, <2>1 DEF Engine, engineFrame, EnginePause, OnStateChange, ReportStatus,
       MarkTaskAsStarted
  <2>2. CASE EnginePauseFails
    BY <1>8, <2>2 DEF Engine, engineFrame, EnginePauseFails, OnStateChange,
       ReportStatus, MarkTaskAsStarted
  <2>3. CASE OnDocument
    BY <1>8, <2>3 DEF Engine, engineFrame, OnDocument
  <2>4. CASE EnginePaused
    BY <1>8, <2>4 DEF Engine, engineFrame, EnginePaused, EngineActive, ReturnToCaller,
       OnStateChange, ReportStatus, MarkTaskAsStarted
  <2>5. CASE EngineFinish
    BY <1>8, <2>5 DEF Engine, engineFrame, EngineFinish, EngineActive,
       ReturnToCaller, OnStateChange, ReportStatus, MarkTaskAsStarted
  <2> QED
    BY <1>8, <2>1, <2>2, <2>3, <2>4, <2>5 DEF Engine, Plan, PlanEnds
<1>9. CASE UNCHANGED vars
  BY <1>9 DEF vars
<1>10. CASE Listing
  BY <1>10 DEF Listing, listFrame, GetTasks, GetTasksReturns, ReadOrder
<1> QED
  BY <1>1, <1>2, <1>3, <1>4, <1>5, <1>6, <1>7, <1>8, <1>9, <1>10 DEF Next, Worker

\* So every call of the API has what it waits for on its way, whatever is cleared.
THEOREM CallsAreServed ==
  ASSUME ~ RepeatBegin, ~ MayTimeOut
  PROVE  Spec => []CallsServed
<1>1. ServedInv => CallsServed
  BY DEF ServedInv
<1> QED
  BY <1>1, InitServed, NextServed, PTL DEF Spec

\* Where the trace context comes from: the begin_task whose task is in the channel, or
\* was just taken, or whose plan the RunEngine holds.  It may have been reset since.
Traced ==
  /\ plan # NoTask => context \in {plan, NoTask}
  /\ channel \cap Tasks # {} => context \in {rpcTask, NoTask}
  /\ wpc = "taken" => context \in {current, NoTask}

TracedInv == ServedInv /\ Traced

\* A step preserves it: begin_task caches its context only while no plan is held, and
\* the next one cannot until the worker thread has started the plan of the last.
LEMMA NextTraced ==
  ASSUME ~ RepeatBegin, ~ MayTimeOut
  PROVE  TracedInv /\ [Next]_vars => TracedInv'
<1> SUFFICES ASSUME TracedInv, [Next]_vars, ServedInv' PROVE Traced'
  BY NextServed DEF TracedInv
<1> USE TasksAssumption DEF TracedInv, Traced, ServedInv, OneAtWorkInv, OneAtWork, OnceInv,
        RecordInv, TypeOK, Begun, recordVars, taskVars, rpcVars, engineVars
<1>1. CASE Record
  BY <1>1 DEF Record
<1>2. CASE Listing
  BY <1>2 DEF Listing, listFrame, GetTasks, GetTasksReturns
<1>3. CASE Request
  BY <1>3 DEF Request, rpcFrame, BeginTask, Start, Stop
<1>4. CASE Control
  BY <1>4 DEF Control, Pause, Resume, CancelActiveTask
<1>5. CASE Call
  <2>1. CASE PutTask
    BY <1>5, <2>1 DEF Call, rpcFrame, PutTask, Room
  <2>2. CASE PutFull
    BY <1>5, <2>2 DEF Call, rpcFrame, PutFull
  <2>3. CASE BeginReturns
    BY <1>5, <2>3 DEF Call, rpcFrame, BeginReturns
  <2>4. CASE PutKillSignal
    BY <1>5, <2>4 DEF Call, rpcFrame, PutKillSignal, Room
  <2>5. CASE RunWorkerInOwnThread \/ WaitUntilStopped
    BY <1>5, <2>5 DEF Call, rpcFrame, RunWorkerInOwnThread, WaitUntilStopped
  <2> QED
    BY <1>5, <2>1, <2>2, <2>3, <2>4, <2>5 DEF Call
<1>6. CASE Loop
  BY <1>6 DEF Loop, Run, GetTask, GetKillSignal, LeaveLoop, Stopped, ChannelAfter
<1>7. CASE ProcessTask
  BY <1>7 DEF ProcessTask, DoTaskFails, DoTask, TaskReturns
<1>8. CASE CycleEnd
  BY <1>8 DEF CycleEnd, MarkComplete, PopPending, PopRaises, StoreCompleted,
     ReportCompletion, ClearErrors
<1>9. CASE Engine
  BY <1>9 DEF Engine, engineFrame, Plan, PlanEnds, EnginePause, EnginePauseFails,
     OnDocument, EnginePaused, EngineFinish, ReturnToCaller
<1>10. CASE UNCHANGED vars
  BY <1>10 DEF vars
<1> QED
  BY <1>1, <1>2, <1>3, <1>4, <1>5, <1>6, <1>7, <1>8, <1>9, <1>10 DEF Next, Worker

\* So a document is published under the trace context of its own task or not at all.
THEOREM DocumentsTracedAsOwn ==
  ASSUME ~ RepeatBegin, ~ MayTimeOut
  PROVE  Spec => []TracedAsOwn
<1>1. Init => TracedInv
  BY InitServed, TasksAssumption DEF Init, TracedInv, Traced
<1>2. TracedInv => TracedAsOwn
  BY DEF TracedInv, Traced, ServedInv, CallsServed, TracedAsOwn, EngineActive
<1> QED
  BY <1>1, <1>2, NextTraced, PTL DEF Spec

\* A task that was begun stays pending until _cycle pops it, so its completion is
\* published in the cycle that took it.
Reported ==
  /\ begun \ taken \subseteq pending_tasks \cap channel
  /\ rpc = "put" => rpcTask \in pending_tasks \cup taken
  /\ taken \ announced \subseteq {current}
  /\ wpc \in {"off", "boot", "loop", "clear", "exit"} => taken \subseteq announced
  /\ wpc \notin {"store", "report"} => taken \ announced \subseteq pending_tasks

ReportedInv == RecordInv /\ Reported

\* The initial state satisfies the invariant.
LEMMA InitReported == Init => ReportedInv
  BY InitRecordInv DEF Init, ReportedInv, Reported

\* A step preserves it when begun tasks are not cleared before they complete.
LEMMA NextReported ==
  ASSUME ~ ClearBegun
  PROVE  ReportedInv /\ [Next]_vars => ReportedInv'
<1> SUFFICES ASSUME ReportedInv, [Next]_vars PROVE Reported'
  BY NextRecordInv DEF ReportedInv
<1> USE TasksAssumption DEF ReportedInv, Reported, RecordInv, TypeOK, Kept, Begun,
        OneThread, Taken, WorkerLocations, recordVars, taskVars, rpcVars, engineVars
<1>1. CASE Record
  <2>1. ASSUME NEW t \in Tasks, SubmitTask(t) PROVE Reported'
    BY <1>1, <2>1 DEF Record, SubmitTask
  <2>2. ASSUME NEW t \in Tasks, ClearTask(t) PROVE Reported'
    BY <1>1, <2>2 DEF Record, ClearTask
  <2> QED
    BY <1>1, <2>1, <2>2 DEF Record
<1>2. CASE Request
  <2>1. ASSUME NEW t \in Tasks, BeginTask(t) PROVE Reported'
    BY <1>2, <2>1 DEF Request, rpcFrame, BeginTask, Accepts
  <2>2. CASE Start
    BY <1>2, <2>2 DEF Request, rpcFrame, Start
  <2>3. CASE Stop
    BY <1>2, <2>3 DEF Request, rpcFrame, Stop
  <2> QED
    BY <1>2, <2>1, <2>2, <2>3 DEF Request
<1>3. CASE Control
  <2>1. CASE Pause
    BY <1>3, <2>1 DEF Control, Pause, OnStateChange, ReportStatus, MarkTaskAsStarted
  <2>2. CASE Resume
    BY <1>3, <2>2 DEF Control, Resume, OnStateChange, ReportStatus,
       MarkTaskAsStarted
  <2>3. CASE CancelActiveTask("ABORTING")
    BY <1>3, <2>3 DEF Control, CancelActiveTask, OnStateChange, ReportStatus,
       MarkTaskAsStarted
  <2>4. CASE CancelActiveTask("STOPPING")
    BY <1>3, <2>4 DEF Control, CancelActiveTask, OnStateChange, ReportStatus,
       MarkTaskAsStarted
  <2> QED
    BY <1>3, <2>1, <2>2, <2>3, <2>4 DEF Control
<1>4. CASE Call
  <2>1. CASE PutTask
    BY <1>4, <2>1 DEF Call, rpcFrame, PutTask, Room
  <2>2. CASE PutFull
    BY <1>4, <2>2 DEF Call, rpcFrame, PutFull
  <2>3. CASE BeginReturns
    BY <1>4, <2>3 DEF Call, rpcFrame, BeginReturns
  <2>4. CASE RunWorkerInOwnThread
    BY <1>4, <2>4 DEF Call, rpcFrame, RunWorkerInOwnThread
  <2>5. CASE PutKillSignal
    BY <1>4, <2>5 DEF Call, rpcFrame, PutKillSignal, Room
  <2>6. CASE WaitUntilStopped
    BY <1>4, <2>6 DEF Call, rpcFrame, WaitUntilStopped
  <2> QED
    BY <1>4, <2>1, <2>2, <2>3, <2>4, <2>5, <2>6 DEF Call
<1>5. CASE Loop
  <2>1. CASE Run
    BY <1>5, <2>1 DEF Loop, Run
  <2>2. ASSUME NEW t \in Tasks, GetTask(t) PROVE Reported'
    BY <1>5, <2>2 DEF Loop, GetTask, ChannelAfter
  <2>3. CASE GetKillSignal
    BY <1>5, <2>3 DEF Loop, GetKillSignal, ChannelAfter
  <2>4. CASE LeaveLoop
    BY <1>5, <2>4 DEF Loop, LeaveLoop
  <2>5. CASE Stopped
    BY <1>5, <2>5 DEF Loop, Stopped
  <2> QED
    BY <1>5, <2>1, <2>2, <2>3, <2>4, <2>5 DEF Loop
<1>6. CASE ProcessTask
  <2>1. CASE DoTaskFails
    BY <1>6, <2>1 DEF ProcessTask, DoTaskFails, TaskRaised, ReportError
  <2>2. CASE DoTask
    BY <1>6, <2>2 DEF ProcessTask, DoTask, OnStateChange, ReportStatus,
       MarkTaskAsStarted
  <2>3. CASE TaskReturns
    BY <1>6, <2>3 DEF ProcessTask, TaskReturns, TaskRaised, ReportError
  <2> QED
    BY <1>6, <2>1, <2>2, <2>3 DEF ProcessTask
<1>7. CASE CycleEnd
  <2>1. CASE MarkComplete
    BY <1>7, <2>1 DEF CycleEnd, MarkComplete
  <2>2. CASE PopPending
    BY <1>7, <2>2 DEF CycleEnd, PopPending, PendingPopped
  <2>3. CASE PopRaises
    BY <1>7, <2>3 DEF CycleEnd, PopRaises, ReportError
  <2>4. CASE StoreCompleted
    BY <1>7, <2>4 DEF CycleEnd, StoreCompleted
  <2>5. CASE ReportCompletion
    BY <1>7, <2>5 DEF CycleEnd, ReportCompletion, ReportStatus, MarkTaskAsStarted
  <2>6. CASE ClearErrors
    BY <1>7, <2>6 DEF CycleEnd, ClearErrors
  <2> QED
    BY <1>7, <2>1, <2>2, <2>3, <2>4, <2>5, <2>6 DEF CycleEnd
<1>8. CASE Engine
  <2>1. CASE EnginePause
    BY <1>8, <2>1 DEF Engine, engineFrame, EnginePause, OnStateChange, ReportStatus,
       MarkTaskAsStarted
  <2>2. CASE EnginePauseFails
    BY <1>8, <2>2 DEF Engine, engineFrame, EnginePauseFails, OnStateChange,
       ReportStatus, MarkTaskAsStarted
  <2>3. CASE OnDocument
    BY <1>8, <2>3 DEF Engine, engineFrame, OnDocument
  <2>4. CASE EnginePaused
    BY <1>8, <2>4 DEF Engine, engineFrame, EnginePaused, ReturnToCaller,
       OnStateChange, ReportStatus, MarkTaskAsStarted
  <2>5. CASE EngineFinish
    BY <1>8, <2>5 DEF Engine, engineFrame, EngineFinish, EngineActive,
       ReturnToCaller, OnStateChange, ReportStatus, MarkTaskAsStarted
  <2> QED
    BY <1>8, <2>1, <2>2, <2>3, <2>4, <2>5 DEF Engine, Plan, PlanEnds
<1>9. CASE UNCHANGED vars
  BY <1>9 DEF vars
<1>10. CASE Listing
  BY <1>10 DEF Listing, listFrame, GetTasks, GetTasksReturns, ReadOrder
<1> QED
  BY <1>1, <1>2, <1>3, <1>4, <1>5, <1>6, <1>7, <1>8, <1>9, <1>10 DEF Next, Worker

\* Callers who leave a begun task alone until it completes always get its
\* completion event, even if waits expire or begin_task is repeated.
THEOREM CompletionIsReported ==
  ASSUME ~ ClearBegun
  PROVE  Spec => []CompletionReported
<1>1. ReportedInv => CompletionReported
  BY DEF ReportedInv, Reported, CompletionReported
<1> QED
  BY <1>1, InitReported, NextReported, PTL DEF Spec
=============================================================================
