----------------------------- MODULE TaskWorker -----------------------------
(***************************************************************************)
(* The worker of blueapi.worker.task_worker and the three threads that     *)
(* share it inside the worker subprocess:                                  *)
(*                                                                         *)
(*   - the RPC thread, the only process of the Pool of service/runner.py.  *)
(*     It executes one call of the worker's API at a time, so a call that  *)
(*     blocks (begin_task, resume, start, stop) blocks every other call;   *)
(*   - the worker thread, TaskWorker.run, which takes tasks from the       *)
(*     one-place channel and executes them;                                *)
(*   - the event loop thread of the bluesky RunEngine, which runs the plan *)
(*     and calls the worker's hooks.  The RunEngine is a library: it is    *)
(*     modelled from what the worker asks of it and is told by it.         *)
(*                                                                         *)
(* A step is what happens between two points where another thread can      *)
(* observe or change what the step uses.  A call that is refused before it *)
(* changes anything (unknown task, busy worker, task already run, nothing  *)
(* to cancel) changes nothing here either and has no action.               *)
(***************************************************************************)
EXTENDS Naturals

CONSTANTS
  Tasks,        \* the task ids that may be created
  NoTask,       \* None, where a task could be
  KillSignal,   \* the message that asks the worker thread to end
  MayTimeOut,   \* may the waits of begin_task (5 s) and stop (30 s) expire?
  RepeatBegin,  \* may a caller begin a task that was put in the channel before?
  ClearBegun    \* may a caller clear a task that was begun and is not complete?

ASSUME TasksAssumption ==
  /\ NoTask \notin Tasks
  /\ KillSignal \notin Tasks

ASSUME CallersAssumption ==
  /\ MayTimeOut \in BOOLEAN
  /\ RepeatBegin \in BOOLEAN
  /\ ClearBegun \in BOOLEAN

VARIABLES
  \* Fields of the worker
  pending_tasks,    \* keys of _pending_tasks
  completed_tasks,  \* keys of _completed_tasks
  channel,          \* content of _task_channel: a box, with room for one thing
  current,          \* _current
  state,            \* _state; the RunEngine's own state changes with it
  errors,           \* _errors: the tasks that were current when one was added
  context,          \* _current_task_otel_context: the task it was cached for
  flags,            \* which of the Events _started, _stopping, _stopped are set
  \* Fields of the TrackableTasks
  taken,            \* the tasks whose is_pending is False
  complete,         \* the tasks whose is_complete is True
  errored,          \* the tasks whose errors is non-empty
  outcome,          \* outcome of each task
  \* Control of the threads
  wpc,              \* where the worker thread is
  rpc,              \* what the RPC thread is doing
  rpcTask,          \* the task of the begin_task in progress
  task_started,     \* {rpcTask} once the Event local to that begin_task is set
  listed,           \* what the get_tasks in progress has read so far
  \* The RunEngine
  plan,             \* the task whose plan it holds, running or paused
  result,           \* how the call that runs the plan will end
  \* History
  submitted,        \* the tasks created so far
  begun,            \* the tasks put in the channel so far
  cleared,          \* the tasks removed by clear_task
  runs,             \* how often the plan of a task was started
  announced         \* the tasks for which a completion event was published

recordVars == <<pending_tasks, completed_tasks, listed, submitted, cleared>>
taskVars   == <<taken, complete, errored, outcome>>
rpcVars    == <<rpc, rpcTask, task_started>>
engineVars == <<state, plan, result, runs>>

vars == <<recordVars, taskVars, flags, rpcVars, engineVars,
          channel, current, errors, context, wpc, begun, announced>>

-----------------------------------------------------------------------------
(* The states of the RunEngine that the worker can be in.  SUSPENDING,      *)
(* HALTING, PANICKED and UNKNOWN are never asked for by blueapi.            *)
WorkerStates ==
  {"IDLE", "RUNNING", "PAUSING", "PAUSED", "STOPPING", "ABORTING"}

Outcomes == {"none", "success", "error"}

\* off: no thread; boot: thread created; loop: before _task_channel.get();
\* taken: in process_task, before the RunEngine accepts the plan;
\* engine: blocked in RE(); returned: RE() is over; then one location per
\* statement of the end of _cycle; exit: leaving run().
WorkerLocations ==
  {"off", "boot", "loop", "taken", "engine", "returned",
   "mark", "pop", "store", "report", "clear", "exit"}

\* idle: between two calls; list: between the two reads of get_tasks; put, wait: in
\* begin_task; spawn, boot: in start; kill, join: in stop; resume: in resume, or in
\* the abort or stop of a paused RunEngine, blocked until the plan is over or paused
\* again.
RpcLocations ==
  {"idle", "list", "put", "wait", "spawn", "boot", "kill", "join", "resume"}

TypeOK ==
  /\ pending_tasks \subseteq Tasks /\ completed_tasks \subseteq Tasks
  /\ channel \subseteq Tasks \cup {KillSignal} /\ \A m, n \in channel : m = n
  /\ current \in Tasks \cup {NoTask} /\ context \in Tasks \cup {NoTask}
  /\ rpcTask \in Tasks \cup {NoTask} /\ plan \in Tasks \cup {NoTask}
  /\ state \in WorkerStates
  /\ errors \subseteq Tasks \cup {NoTask}
  /\ flags \subseteq {"started", "stopping", "stopped"}
  /\ task_started \subseteq Tasks /\ listed \subseteq Tasks
  /\ result \in {"returns", "raises"}
  /\ taken \subseteq Tasks /\ complete \subseteq Tasks /\ errored \subseteq Tasks
  /\ outcome \in [Tasks -> Outcomes]
  /\ wpc \in WorkerLocations /\ rpc \in RpcLocations
  /\ rpc \in {"put", "wait"} => rpcTask \in Tasks
  /\ wpc \in {"taken", "engine", "returned", "pop", "store"} => current \in Tasks
  /\ submitted \subseteq Tasks /\ begun \subseteq Tasks /\ cleared \subseteq Tasks
  /\ runs \in [Tasks -> Nat]
  /\ announced \subseteq Tasks

\* TaskWorker.__init__; the RunEngine is idle.
Init ==
  /\ pending_tasks = {} /\ completed_tasks = {}
  /\ channel = {}
  /\ current = NoTask /\ context = NoTask
  /\ state = "IDLE"
  /\ errors = {}
  /\ flags = {"stopped"}
  /\ taken = {} /\ complete = {} /\ errored = {}
  /\ outcome = [t \in Tasks |-> "none"]
  /\ wpc = "off"
  /\ rpc = "idle" /\ rpcTask = NoTask /\ task_started = {} /\ listed = {}
  /\ plan = NoTask /\ result = "returns"
  /\ submitted = {} /\ begun = {} /\ cleared = {}
  /\ runs = [t \in Tasks |-> 0]
  /\ announced = {}

-----------------------------------------------------------------------------
(* Publishing.                                                             *)

\* Fault: the subscription does not look at the task id.
MarkAnyTaskAsStarted(t) ==
  task_started' = IF rpc = "wait" THEN {rpcTask} ELSE task_started

\* mark_task_as_started: what the subscription of a begin_task in progress
\* does with an event about task t.
MarkTaskAsStarted(t) ==
  task_started' = IF rpc = "wait" /\ t = rpcTask THEN {t} ELSE task_started

\* Fault: every event says task_complete.
ReportStatusComplete ==
  /\ MarkTaskAsStarted(current)
  /\ announced' = announced \cup ({current} \ {NoTask})

\* _report_status: an event about _current, received by every subscriber.
ReportStatus ==
  /\ MarkTaskAsStarted(current)
  /\ announced' = announced \cup ({current} \cap complete)

\* _on_state_change, the RunEngine's state hook.
OnStateChange(new) ==
  /\ state' = new
  /\ ReportStatus

\* _report_error
ReportError ==
  /\ errors' = errors \cup {current}
  /\ errored' = errored \cup ({current} \ {NoTask})

-----------------------------------------------------------------------------
(* Calls of the API, executed by the RPC thread.                           *)

\* Fault: the completed tasks are read first.
CompletedFirst == <<completed_tasks, pending_tasks>>

\* What get_tasks reads when it is asked for all tasks, in this order.
ReadOrder == <<pending_tasks, completed_tasks>>

\* get_tasks without a status, up to its second read.  (With a status it reads one
\* of the dictionaries, and changes nothing either.)
GetTasks ==
  /\ rpc = "idle"
  /\ rpc' = "list" /\ listed' = ReadOrder[1]

\* The second read; get_tasks returns.
GetTasksReturns ==
  /\ rpc = "list"
  /\ rpc' = "idle" /\ listed' = {}

\* submit_task: the task gets a fresh id.
SubmitTask(t) ==
  /\ rpc = "idle"
  /\ t \notin submitted
  /\ submitted' = submitted \cup {t}
  /\ pending_tasks' = pending_tasks \cup {t}
  /\ UNCHANGED <<completed_tasks, listed, cleared>>

\* clear_task
ClearTask(t) ==
  /\ rpc = "idle"
  /\ t \in pending_tasks \cup completed_tasks
  /\ ClearBegun \/ t \notin begun \/ t \in completed_tasks
  /\ IF t \in pending_tasks
       THEN pending_tasks' = pending_tasks \ {t} /\ UNCHANGED completed_tasks
       ELSE completed_tasks' = completed_tasks \ {t} /\ UNCHANGED pending_tasks
  /\ cleared' = cleared \cup {t}
  /\ UNCHANGED <<listed, submitted>>

\* Fault: the state of the worker is not checked.
AcceptsWhenBusy(t) == t \in pending_tasks /\ t \notin complete

\* Fault: completed tasks are found too and is_complete is not checked.
AcceptsAgain(t) == t \in pending_tasks \cup completed_tasks /\ state = "IDLE"

\* The checks of begin_task and _submit_trackable_task.
Accepts(t) == t \in pending_tasks /\ state = "IDLE" /\ t \notin complete

\* begin_task up to the subscription of mark_task_as_started.  Callers get the
\* worker from interface.worker(), which has started it.
BeginTask(t) ==
  /\ rpc = "idle"
  /\ "started" \in flags
  /\ RepeatBegin \/ t \notin begun
  /\ Accepts(t)
  /\ rpc' = "put" /\ rpcTask' = t /\ task_started' = {}
  /\ UNCHANGED <<channel, context, begun, wpc>>

\* _task_channel is a Queue(maxsize=1).
Room == channel = {}

\* put_nowait succeeds.  The trace context is cached first.
PutTask ==
  /\ rpc = "put" /\ Room
  /\ context' = rpcTask
  /\ channel' = channel \cup {rpcTask}
  /\ begun' = begun \cup {rpcTask}
  /\ rpc' = "wait"
  /\ UNCHANGED <<wpc, rpcTask, task_started>>

\* put_nowait raises Full: WorkerBusyError.
PutFull ==
  /\ rpc = "put" /\ ~ Room
  /\ context' = rpcTask
  /\ rpc' = "idle" /\ rpcTask' = NoTask
  /\ UNCHANGED <<channel, begun, wpc, task_started>>

\* begin_task returns, or raises TimeoutError after 5 s; it unsubscribes.
BeginReturns ==
  /\ rpc = "wait"
  /\ rpcTask \in task_started \/ MayTimeOut
  /\ rpc' = "idle" /\ rpcTask' = NoTask /\ task_started' = {}
  /\ UNCHANGED <<channel, context, begun, wpc>>

\* start, up to the wait for a previous thread to have stopped.
Start ==
  /\ rpc = "idle" /\ "started" \notin flags
  /\ rpc' = "spawn"
  /\ UNCHANGED <<channel, context, begun, wpc, rpcTask, task_started>>

\* run_worker_in_own_thread; start then waits for the thread, see Run.
RunWorkerInOwnThread ==
  /\ rpc = "spawn" /\ "stopped" \in flags
  /\ wpc' = "boot" /\ rpc' = "boot"
  /\ UNCHANGED <<channel, context, begun, rpcTask, task_started>>

\* stop, up to the put of the kill signal.
Stop ==
  /\ rpc = "idle"
  /\ rpc' = IF "started" \in flags THEN "kill" ELSE "join"
  /\ UNCHANGED <<channel, context, begun, wpc, rpcTask, task_started>>

\* The put of stop blocks while the channel is full, without a timeout.
PutKillSignal ==
  /\ rpc = "kill" /\ Room
  /\ channel' = channel \cup {KillSignal}
  /\ rpc' = "join"
  /\ UNCHANGED <<context, begun, wpc, rpcTask, task_started>>

\* _wait_until_stopped returns in stop, or expires in start or stop.
WaitUntilStopped ==
  /\ \/ rpc = "join" /\ "stopped" \in flags
     \/ rpc \in {"join", "spawn"} /\ "stopped" \notin flags /\ MayTimeOut
  /\ rpc' = "idle"
  /\ UNCHANGED <<channel, context, begun, wpc, rpcTask, task_started>>

\* pause: request_pause of a running RunEngine (any other state raises).  A
\* deferred pause only leaves a request, honoured later by EnginePause.
Pause ==
  /\ rpc = "idle" /\ state = "RUNNING"
  /\ result' = "raises"
  /\ OnStateChange("PAUSING")
  /\ UNCHANGED rpc

\* resume: blocks the RPC thread while the plan runs.
Resume ==
  /\ rpc = "idle" /\ state = "PAUSED"
  /\ result' = "returns"
  /\ OnStateChange("RUNNING")
  /\ rpc' = "resume"

\* cancel_active_task: RunEngine.abort or RunEngine.stop, which only ask a
\* running plan to end but run a paused one to its end.
CancelActiveTask(new) ==
  /\ rpc = "idle" /\ current # NoTask
  /\ state \in {"RUNNING", "PAUSING", "PAUSED"}
  /\ result' = "raises"
  /\ OnStateChange(new)
  /\ rpc' = IF state = "PAUSED" THEN "resume" ELSE rpc

\* What a caller asks for ...
Record ==
  /\ \E t \in Tasks : SubmitTask(t) \/ ClearTask(t)
  /\ UNCHANGED <<taskVars, flags, rpcVars, engineVars, channel, current, errors,
                 context, wpc, begun, announced>>

listFrame == <<pending_tasks, completed_tasks, submitted, cleared, taskVars, flags, rpcTask,
               task_started, engineVars, channel, current, errors, context, wpc, begun,
               announced>>

Listing == (GetTasks \/ GetTasksReturns) /\ UNCHANGED listFrame

rpcFrame == <<recordVars, taskVars, flags, engineVars, current, errors, announced>>

Request ==
  /\ (\E t \in Tasks : BeginTask(t)) \/ Start \/ Stop
  /\ UNCHANGED rpcFrame

Control ==
  /\ Pause \/ Resume \/ CancelActiveTask("ABORTING") \/ CancelActiveTask("STOPPING")
  /\ UNCHANGED <<recordVars, taskVars, flags, rpcTask, plan, runs,
                 channel, current, errors, context, wpc, begun>>

\* ... and the steps of a call once it has been made.
Call ==
  /\ \/ PutTask \/ PutFull \/ BeginReturns
     \/ RunWorkerInOwnThread \/ PutKillSignal \/ WaitUntilStopped
  /\ UNCHANGED rpcFrame

-----------------------------------------------------------------------------
(* The worker thread.                                                      *)

\* run, up to its loop.  The start that created the thread returns.
Run ==
  /\ wpc = "boot"
  /\ flags' = (flags \ {"stopped"}) \cup {"started"}
  /\ wpc' = "loop" /\ rpc' = "idle"
  /\ UNCHANGED <<channel, current, context, taken>>

\* What get() leaves in the channel when it returns message m.
ChannelAfter(m) == channel \ {m}

\* _cycle takes a task and begins process_task.  The get and the assignments after
\* it are one step: what other threads do in between, they can as well do before
\* the get (if they look at _current) or after the assignments (if they put).
GetTask(t) ==
  /\ wpc = "loop" /\ "stopping" \notin flags
  /\ t \in channel
  /\ channel' = ChannelAfter(t)
  /\ current' = t
  /\ taken' = taken \cup {t}
  /\ wpc' = "taken"
  /\ UNCHANGED <<flags, rpc, context>>

\* _cycle takes the kill signal; _current is still the last task.
GetKillSignal ==
  /\ wpc = "loop" /\ "stopping" \notin flags
  /\ KillSignal \in channel
  /\ channel' = ChannelAfter(KillSignal)
  /\ flags' = flags \cup {"stopping"}
  /\ context' = NoTask
  /\ wpc' = "mark"
  /\ UNCHANGED <<rpc, current, taken>>

\* run leaves its loop ...
LeaveLoop ==
  /\ wpc = "loop" /\ "stopping" \in flags
  /\ flags' = flags \ {"started"}
  /\ wpc' = "exit"
  /\ UNCHANGED <<rpc, channel, current, context, taken>>

\* Fault: run ends without _stopped.set().
StoppedUnnoticed ==
  /\ wpc = "exit"
  /\ flags' = flags \ {"stopping"}
  /\ wpc' = "off"
  /\ UNCHANGED <<rpc, channel, current, context, taken>>

\* ... and ends.
Stopped ==
  /\ wpc = "exit"
  /\ flags' = (flags \ {"stopping"}) \cup {"stopped"}
  /\ wpc' = "off"
  /\ UNCHANGED <<rpc, channel, current, context, taken>>

\* Fault: the exception is recorded as outcome but not reported.
TaskRaisedSilently ==
  /\ outcome' = [outcome EXCEPT ![current] = "error"]
  /\ UNCHANGED <<errors, errored>>

\* The except clause of process_task.
TaskRaised ==
  /\ outcome' = [outcome EXCEPT ![current] = "error"]
  /\ ReportError

\* do_task raises before the RunEngine runs the plan: the plan is gone, its
\* parameters are no longer valid, or the RunEngine is not idle.
DoTaskFails ==
  /\ wpc = "taken"
  /\ TaskRaised
  /\ context' = NoTask  \* the finally clause of _cycle
  /\ wpc' = "mark"
  /\ UNCHANGED <<state, plan, result, runs, task_started, announced>>

\* do_task calls the RunEngine, which starts the plan.
DoTask ==
  /\ wpc = "taken" /\ state = "IDLE"
  /\ plan' = current /\ result' = "returns"
  /\ runs' = [runs EXCEPT ![current] = @ + 1]
  /\ OnStateChange("RUNNING")
  /\ wpc' = "engine"
  /\ UNCHANGED <<errors, context, errored, outcome>>

\* The rest of process_task and the finally clause of _cycle.  A RunEngine that
\* was interrupted raises RunEngineInterrupted, also when it is only paused.
TaskReturns ==
  /\ wpc = "returned"
  /\ IF result = "raises"
       THEN TaskRaised
       ELSE /\ outcome' = [outcome EXCEPT ![current] = "success"]
            /\ UNCHANGED <<errors, errored>>
  /\ context' = NoTask
  /\ wpc' = "mark"
  /\ UNCHANGED <<state, plan, result, runs, task_started, announced>>

\* Fault: is_complete is not set.
MarkNothing ==
  /\ wpc = "mark"
  /\ wpc' = IF current = NoTask THEN "report" ELSE "pop"
  /\ UNCHANGED <<pending_tasks, completed_tasks, complete, errors, errored,
                 task_started, announced>>

\* The end of _cycle, a statement at a time.
MarkComplete ==
  /\ wpc = "mark"
  /\ complete' = complete \cup ({current} \ {NoTask})
  /\ wpc' = IF current = NoTask THEN "report" ELSE "pop"
  /\ UNCHANGED <<pending_tasks, completed_tasks, errors, errored, task_started,
                 announced>>

\* Fault: the task is looked up but not removed.
PendingKept == pending_tasks

\* What pop leaves in _pending_tasks.
PendingPopped == pending_tasks \ {current}

PopPending ==
  /\ wpc = "pop" /\ current \in pending_tasks
  /\ pending_tasks' = PendingPopped
  /\ wpc' = "store"
  /\ UNCHANGED <<completed_tasks, complete, errors, errored, task_started, announced>>

\* pop raises KeyError, which _cycle_with_error_handling reports.
PopRaises ==
  /\ wpc = "pop" /\ current \notin pending_tasks
  /\ ReportError
  /\ wpc' = "loop"
  /\ UNCHANGED <<pending_tasks, completed_tasks, complete, task_started, announced>>

StoreCompleted ==
  /\ wpc = "store"
  /\ completed_tasks' = completed_tasks \cup {current}
  /\ wpc' = "report"
  /\ UNCHANGED <<pending_tasks, complete, errors, errored, task_started, announced>>

\* Fault: _cycle ends without _report_status.
ReportNothing ==
  /\ wpc = "report"
  /\ wpc' = "clear"
  /\ UNCHANGED <<pending_tasks, completed_tasks, complete, errors, errored,
                 task_started, announced>>

ReportCompletion ==
  /\ wpc = "report"
  /\ ReportStatus
  /\ wpc' = "clear"
  /\ UNCHANGED <<pending_tasks, completed_tasks, complete, errors, errored>>

ClearErrors ==
  /\ wpc = "clear"
  /\ errors' = {}
  /\ wpc' = "loop"
  /\ UNCHANGED <<pending_tasks, completed_tasks, complete, errored, task_started,
                 announced>>

Loop ==
  /\ Run \/ (\E t \in Tasks : GetTask(t)) \/ GetKillSignal \/ LeaveLoop \/ Stopped
  /\ UNCHANGED <<recordVars, complete, errored, outcome, rpcTask, task_started,
                 engineVars, errors, begun, announced>>

ProcessTask ==
  /\ DoTaskFails \/ DoTask \/ TaskReturns
  /\ UNCHANGED <<recordVars, taken, complete, flags, rpc, rpcTask,
                 channel, current, begun>>

CycleEnd ==
  /\ \/ MarkComplete \/ PopPending \/ PopRaises \/ StoreCompleted
     \/ ReportCompletion \/ ClearErrors
  /\ UNCHANGED <<listed, submitted, cleared, taken, outcome, flags, rpc, rpcTask,
                 engineVars, channel, current, context, begun>>

-----------------------------------------------------------------------------
(* The RunEngine (external): it runs the plan on behalf of the thread that  *)
(* is blocked in RE() or in RE.resume().                                    *)

EngineActive == wpc = "engine" \/ rpc = "resume"

\* The call that runs the plan returns to the thread that made it.
ReturnToCaller ==
  IF wpc = "engine" THEN wpc' = "returned" /\ UNCHANGED rpc
                    ELSE rpc' = "idle" /\ UNCHANGED wpc

\* The plan pauses itself, or honours a deferred pause at a checkpoint.
EnginePause ==
  /\ EngineActive /\ state = "RUNNING"
  /\ result' = "raises"
  /\ OnStateChange("PAUSING")
  /\ UNCHANGED <<wpc, rpc, plan>>

\* A pause with no checkpoint to rewind to becomes an abort.
EnginePauseFails ==
  /\ EngineActive /\ state = "PAUSING"
  /\ OnStateChange("ABORTING")
  /\ UNCHANGED <<wpc, rpc, plan, result>>

EnginePaused ==
  /\ EngineActive /\ state = "PAUSING"
  /\ OnStateChange("PAUSED")
  /\ ReturnToCaller
  /\ UNCHANGED <<plan, result>>

\* The plan is over; it may have raised.
EngineFinish ==
  /\ EngineActive /\ state \in {"RUNNING", "STOPPING", "ABORTING"}
  /\ result' \in {result, "raises"}
  /\ plan' = NoTask
  /\ OnStateChange("IDLE")
  /\ ReturnToCaller

\* _on_document, called by the RunEngine for each document of the plan (run
\* subscribes it, and unsubscribes it at its end): it publishes the document as
\* the current task's, or raises ValueError when no trace context is cached.
OnDocument ==
  /\ EngineActive /\ state \in {"RUNNING", "STOPPING", "ABORTING"}
  /\ wpc \notin {"off", "boot"}
  /\ IF context # NoTask THEN UNCHANGED result ELSE result' = "raises"
  /\ UNCHANGED <<state, wpc, rpc, plan, task_started, announced>>

engineFrame == <<recordVars, taskVars, flags, rpcTask, runs, channel, current,
                 errors, context, begun>>

Plan == EnginePause \/ EnginePauseFails \/ OnDocument

PlanEnds == EnginePaused \/ EngineFinish

Engine == (Plan \/ PlanEnds) /\ UNCHANGED engineFrame

-----------------------------------------------------------------------------
Worker == Loop \/ ProcessTask \/ CycleEnd

Next == Record \/ Listing \/ Request \/ Control \/ Call \/ Worker \/ Engine

Spec == Init /\ [][Next]_vars

(***************************************************************************)
(* Fairness.  Both threads of the subprocess are scheduled; what a caller  *)
(* asks for is never assumed.  Plans end, and a pause that was asked for   *)
(* is carried out: that is an assumption about the plans.                  *)
(***************************************************************************)
Fairness ==
  /\ WF_vars(Call)
  /\ WF_vars(GetTasksReturns /\ UNCHANGED listFrame)
  /\ WF_vars(Worker)
  /\ WF_vars(PlanEnds /\ UNCHANGED engineFrame)

FairSpec == Spec /\ Fairness

-----------------------------------------------------------------------------
(* Properties that hold whatever callers do.                               *)

\* A task the worker keeps is either pending or completed, never both, and a
\* completed one says so itself and carries the outcome of its execution
\* (lines 476-479 move the record between the two dictionaries in two steps).
RecordsSettled ==
  /\ pending_tasks \cap completed_tasks = {}
  /\ \A t \in completed_tasks :
        t \in taken /\ t \in complete /\ outcome[t] # "none"

\* get_tasks reads the dictionaries one after the other while _cycle moves a record
\* from one to the other, in two statements as well.  Because both go from pending to
\* completed, a listing may show a task twice but misses none: every task that was
\* submitted and not cleared is in what was read first or is read now, except one
\* that _cycle has just then taken out and not stored yet (lines 478-479).
EveryTaskListed ==
  rpc = "list" =>
    \A t \in submitted \ cleared :
      t \in listed \cup ReadOrder[2] \/ (t = current /\ wpc = "store")

\* The completion event tells the truth: when _cycle publishes it, the task is
\* complete, and task_failed (its errors) agrees with its outcome.
VerdictHonest ==
  wpc = "report" /\ current # NoTask =>
    /\ current \in complete
    /\ current \in errored <=> outcome[current] = "error"

\* However begin_task is repeated, times out or races with the end of the first
\* execution, a plan is executed at most three times: once in the worker thread,
\* once from the channel and once from a begin_task already past its checks.
RunsBounded == \A t \in Tasks : runs[t] <= 3

\* A plan is executed at most once for each task: a repeated begin_task is refused
\* ("Task has already been run").  RunsBounded is what is left of this once begins are
\* repeated (run_twice).
RunsAtMostOnce == \A t \in Tasks : runs[t] <= 1

\* When begin_task returns without an error, the task it was asked to begin is
\* the active task (test_begin_task_blocks_until_current_task_set).
BegunIsCurrent == rpc = "wait" /\ task_started # {} => current = rpcTask

\* What a client sees of a task, for TaskLifecycle.
phase ==
  [t \in Tasks |->
     IF t \notin submitted THEN "absent"
     ELSE IF t \in cleared THEN "dropped"
     ELSE IF t \in complete THEN "complete"
     ELSE IF t \in taken THEN "running"
     ELSE "pending"]

Lifecycle == INSTANCE TaskLifecycle WITH Tasks <- Tasks, phase <- phase,
                                         announced <- announced

\* The records of the worker follow the life cycle: tasks are started from
\* pending, one at a time, never come back, and are announced once they ended.
ImplementsLifecycle == Lifecycle!Spec

-----------------------------------------------------------------------------
(* Properties that hold when waits do not expire, no task is begun twice    *)
(* and no task is cleared between its begin and its completion.             *)

\* The worker holds no queue: no task waits in the channel while another is
\* executed (docs/explanations/decisions/0003-no-queues.md).
NoQueue ==
  wpc \in {"taken", "engine"} => channel \cap Tasks = {}

\* No execution that was begun is lost: a task stays in the channel until the worker
\* thread takes it, and when the thread is ready for the next one, the completion of
\* every task it has taken has been published (docs/explanations/events.md).
CompletionReported ==
  /\ begun \ taken \subseteq channel
  /\ wpc = "loop" => taken \subseteq announced

\* The RunEngine never holds a plan, running or paused, while another task is
\* current, so what the plan does is published as that of its own task.
PlanIsCurrent == plan # NoTask => plan = current

\* Documents are never published under the trace context of another task's begin_task
\* (_current_task_otel_context), also while plans are paused and resumed.  They may find
\* none: the end of a cycle (lines 472-474) resets what the next begin_task has cached.
TracedAsOwn == EngineActive /\ context # NoTask => context = plan

\* The worker thread will look into the channel again, if plans end.
Serving == wpc \notin {"off", "boot", "exit"} /\ "stopping" \notin flags

\* Nobody waits for what will not come.  A begin_task has the first event of its task
\* or a task that the worker thread has yet to take or to report on; start and stop have
\* a thread that begins or ends, or a kill signal that will be read (line 349 puts it
\* without a timeout); and who runs a plan has one that is not over.
CallsServed ==
  /\ rpc = "wait" =>
       \/ rpcTask \in task_started
       \/ rpcTask \in channel /\ Serving
       \/ rpcTask = current /\ wpc \in {"taken", "mark", "pop", "store", "report"}
  /\ rpc = "spawn" => "stopped" \in flags
  /\ rpc = "boot" => wpc = "boot"
  /\ rpc = "kill" => Serving
  /\ rpc = "join" => \/ {"stopping", "stopped"} \cap flags # {}
                     \/ KillSignal \in channel /\ Serving
  /\ rpc = "resume" \/ wpc = "engine" => plan # NoTask /\ state \notin {"IDLE", "PAUSED"}

\* A task that was begun is eventually announced as complete: a client that
\* waits for the completion event is not left waiting.
BegunCompletes == \A t \in Tasks : t \in begun ~> t \in announced

\* No call of the API blocks for ever: the RPC thread comes back.
CallsReturn == rpc # "idle" ~> rpc = "idle"
=============================================================================
