----------------------------- MODULE PlanOutput -----------------------------
(***************************************************************************)
(* What a plan produces besides its result, and who receives it.           *)
(* interface.begin_task hands the headers of the request to the numtracker *)
(* client and subscribes a Tiled writer that works under them; the runs of *)
(* the plan ask numtracker for a scan, push their start document on the    *)
(* stack of the path provider and go to the writers; the statuses the plan *)
(* waits for are reported as progress.  All of it is kept in the           *)
(* subprocess across tasks, which is what can go wrong.                    *)
(*                                                                         *)
(* The subprocess serves one call at a time; the worker thread, with the   *)
(* RunEngine, and the threads of the devices run beside it.  Numtracker    *)
(* and Tiled are configured.  The tasks are submitted already; TaskWorker  *)
(* has the worker in detail, and its stop.                                 *)
(***************************************************************************)
EXTENDS Naturals, Sequences, SequencesExt

CONSTANTS
  Tasks,      \* the tasks, pending at first
  Requests,   \* the PUT /worker/task requests
  Wanted,     \* the task each request wants to begin
  Runs,       \* the runs that plans open
  Statuses,   \* the statuses that plans wait for
  NoTask,     \* no task
  NoRequest,  \* the headers before the first request: none
  OneThread   \* whether a status is updated and completed by the same thread

ASSUME OutputAssumption ==
  /\ Wanted \in [Requests -> Tasks]
  /\ NoTask \notin Tasks /\ NoRequest \notin Requests
  /\ OneThread \in BOOLEAN

VARIABLES
  \* The requests
  pc,         \* where each request is
  headers,    \* _headers of the numtracker client: of which request
  writers,    \* the requests whose Tiled writer is subscribed to the RunEngine
  removers,   \* those whose callback is subscribed to the worker's events
  \* The worker
  pending,    \* _pending_tasks
  complete,   \* the tasks that are is_complete
  channel,    \* _task_channel
  current,    \* _current
  cycle,      \* get, took, plan, over: where _cycle is
  \* The RunEngine
  engine,     \* idle, running, closing (the runs left open), or paused
  md,         \* md: the task whose metadata was applied last
  open,       \* the open runs, the innermost last
  docs,       \* _docs of the path provider: their start documents
  \* The status monitor
  stage,      \* where each status is
  updates,    \* updates that have passed the check and not published yet
  snapshot,   \* _status_snapshot
  finished,   \* _completed_statuses
  \* History
  cleared,    \* the tasks deleted
  rejected,   \* whether the path provider has refused a stop document
  early       \* the requests made before the current plan started

requestVars == <<pc, headers, writers, removers>>
workerVars  == <<pending, complete, channel, current, cycle>>
runVars     == <<open, docs, rejected>>
engineVars  == <<engine, md, runVars>>
statusVars  == <<stage, updates, snapshot, finished>>
historyVars == <<cleared, early>>
vars == <<requestVars, workerVars, engineVars, statusVars, historyVars>>

\* new; checked: no task was active; serving: in begin_task; waiting: the task
\* is in the channel; begun; refused with 409; or failed in begin_task.
Locations == {"new", "checked", "serving", "waiting", "begun", "refused", "failed"}

\* unseen; moving; final: its completion was published; dropped from the
\* snapshot; and complete.
Stages == {"unseen", "moving", "final", "dropped", "complete"}

TypeOK ==
  /\ pc \in [Requests -> Locations] /\ headers \in Requests \cup {NoRequest}
  /\ writers \subseteq Requests /\ removers \subseteq Requests
  /\ pending \subseteq Tasks /\ complete \subseteq Tasks
  /\ channel \in Seq(Tasks) /\ Len(channel) <= 1
  /\ current \in Tasks \cup {NoTask} /\ md \in Tasks \cup {NoTask}
  /\ cycle \in {"get", "took", "plan", "over"}
  /\ engine \in {"idle", "running", "closing", "paused"}
  /\ engine = "idle" => open = <<>>
  /\ open \in Seq(Runs) /\ docs \in Seq(Runs) /\ rejected \in BOOLEAN
  /\ stage \in [Statuses -> Stages]
  /\ updates \subseteq Statuses /\ snapshot \subseteq Statuses /\ finished \subseteq Statuses
  /\ cleared \subseteq Tasks /\ early \subseteq Requests

Init ==
  /\ pc = [r \in Requests |-> "new"] /\ headers = NoRequest
  /\ writers = {} /\ removers = {}
  /\ pending = Tasks /\ complete = {} /\ channel = <<>> /\ current = NoTask
  /\ cycle = "get" /\ engine = "idle" /\ md = NoTask
  /\ open = <<>> /\ docs = <<>> /\ rejected = FALSE
  /\ stage = [s \in Statuses |-> "unseen"] /\ updates = {} /\ snapshot = {} /\ finished = {}
  /\ cleared = {} /\ early = {}

-----------------------------------------------------------------------------
(* The calls of the subprocess.                                            *)

\* resume runs the plan in the call: the worker thread has left it.
Resumed == engine \in {"running", "closing"} /\ cycle # "plan"

\* The subprocess serves another call.
Free == ~Resumed /\ \A r \in Requests : pc[r] \notin {"serving", "waiting"}

Goto(r, l) == pc' = [pc EXCEPT ![r] = l]

\* Fault: the active task is taken for complete.
NeverActive == FALSE

\* set_active_task first asks for the active task: one that is not complete
\* means 409.
Active == current # NoTask /\ current \notin complete

CheckActive(r) ==
  /\ pc[r] = "new" /\ Free
  /\ Goto(r, IF Active THEN "refused" ELSE "checked")
  /\ UNCHANGED <<headers, writers, removers, workerVars, engineVars, statusVars, historyVars>>

\* Fault: the headers of the first request are kept.
KeepHeaders(r) == headers' = IF headers = NoRequest THEN r ELSE headers

\* NumtrackerClient.set_headers
SetHeaders(r) == headers' = r

\* begin_task of the interface, up to the call of the worker.  The Tiled server
\* may not answer: then the request fails here, with nothing subscribed.
Prepare(r) ==
  /\ pc[r] = "checked" /\ Free
  /\ SetHeaders(r)
  /\ \/ Goto(r, "serving") /\ writers' = writers \cup {r} /\ removers' = removers \cup {r}
     \/ Goto(r, "failed") /\ UNCHANGED <<writers, removers>>
  /\ UNCHANGED <<workerVars, engineVars, statusVars, historyVars>>

\* channel.unsubscribe(token) for those in the set.
Unsubscribe(gone) == writers' = writers \ gone /\ removers' = removers \ gone

\* Fault: an exception of begin_task leaves the subscriptions.
LeaveSubscribed(r) == Goto(r, "failed") /\ UNCHANGED <<writers, removers>>

\* The except clause of begin_task.  If the task has completed, the subscriptions have
\* ended already: the second end of the last one is a KeyError instead of the TimeoutError.
GiveUp(r) == Goto(r, "failed") /\ Unsubscribe({r})

\* put_nowait into Queue(maxsize=1)
Room == channel = <<>>

\* What TaskWorker.begin_task checks: the task is pending, the state that of an
\* idle engine, the task not complete, and there is room in the channel.
Accepted(t) == t \in pending /\ engine = "idle" /\ t \notin complete /\ Room

Begin(r) ==
  /\ pc[r] = "serving"
  /\ IF Accepted(Wanted[r])
     THEN /\ Goto(r, "waiting") /\ channel' = Append(channel, Wanted[r])
          /\ UNCHANGED <<writers, removers>>
     ELSE GiveUp(r) /\ UNCHANGED channel
  /\ UNCHANGED <<headers, pending, complete, current, cycle, engineVars, statusVars, historyVars>>

\* The five seconds pass without an event of the task: TimeoutError.  The task
\* stays in the channel or where it is.
BeginTimesOut(r) ==
  /\ pc[r] = "waiting" /\ GiveUp(r)
  /\ UNCHANGED <<headers, workerVars, engineVars, statusVars, historyVars>>

\* DELETE of a task that is pending, which that being executed still is.
ClearTask(t) ==
  /\ Free /\ t \in pending
  /\ pending' = pending \ {t} /\ cleared' = cleared \cup {t}
  /\ UNCHANGED <<requestVars, complete, channel, current, cycle, engineVars, statusVars, early>>

\* The worker does as the pause request says: RunEngineInterrupted ends the
\* execution for the worker, and resume continues the plan in its own call.
Pause ==
  /\ engine = "running" /\ cycle = "plan"
  /\ engine' = "paused" /\ cycle' = "over"
  /\ UNCHANGED <<requestVars, pending, complete, channel, current, md, runVars, statusVars,
                 historyVars>>

Resume ==
  /\ Free /\ engine = "paused" /\ engine' = "running"
  /\ UNCHANGED <<requestVars, workerVars, md, runVars, statusVars, historyVars>>

-----------------------------------------------------------------------------
(* The worker thread.                                                      *)

\* Fault: the writers of all tasks are removed at any completion.
RemoveAll(t, done) == IF done THEN removers ELSE {}

\* remove_callback_when_task_finished: whose task the completion is.
Finishing(t, done) == {r \in removers : done /\ Wanted[r] = t}

\* _report_status: the waiting begin_task of the task returns, and the
\* completion removes the subscriptions of its requests.
Report(t, done) ==
  /\ Unsubscribe(Finishing(t, done))
  /\ pc' = [r \in Requests |->
              IF pc[r] = "waiting" /\ Wanted[r] = t THEN "begun" ELSE pc[r]]

TakeTask ==
  /\ cycle = "get" /\ channel # <<>>
  /\ current' = Head(channel) /\ channel' = Tail(channel) /\ cycle' = "took"
  /\ UNCHANGED <<requestVars, pending, complete, engineVars, statusVars, historyVars>>

\* Fault: the metadata of an earlier task is kept.
KeepMetadata(t) == md' = IF md = NoTask THEN t ELSE md

\* run_engine.md.update(self.metadata): blueapi sets the instrument session
\* of every task.
ApplyMetadata(t) == md' = t

\* do_task: the metadata is applied and the RunEngine starts the plan and
\* reports that it runs, or refuses, when it is not idle.
StartPlan ==
  /\ cycle = "took" /\ ApplyMetadata(current)
  /\ IF engine = "idle"
     THEN /\ engine' = "running" /\ cycle' = "plan"
          /\ early' = {r \in Requests : pc[r] # "new"}
          /\ Report(current, current \in complete)
     ELSE cycle' = "over" /\ UNCHANGED <<pc, writers, removers, engine, early>>
  /\ UNCHANGED <<headers, pending, complete, channel, current, runVars, statusVars, cleared>>

\* do_task raises before that: the parameters are no longer valid.
PlanInvalid ==
  /\ cycle = "took" /\ cycle' = "over"
  /\ UNCHANGED <<requestVars, pending, complete, channel, current, engineVars, statusVars,
                 historyVars>>

\* The end of _cycle.  A task that is no longer pending makes the pop raise:
\* nothing is reported and nothing reset.
EndCycle ==
  /\ cycle = "over" /\ cycle' = "get"
  /\ complete' = complete \cup {current}
  /\ IF current \in pending
     THEN pending' = pending \ {current} /\ Report(current, TRUE) /\ finished' = {}
     ELSE UNCHANGED <<pending, pc, writers, removers, finished>>
  /\ UNCHANGED <<headers, channel, current, engineVars, stage, updates, snapshot, historyVars>>

-----------------------------------------------------------------------------
(* The RunEngine and the subscribers of its documents, the path provider   *)
(* first: when it raises, the others do not see the document.              *)

\* Plans open runs inside others; numtracker makes a scan for each, or the plan
\* fails.  run_start pushes the document.
OpenRun(x) ==
  /\ engine = "running" /\ x \notin Range(open \o docs)
  /\ open' = Append(open, x) /\ docs' = Append(docs, x)
  /\ UNCHANGED <<requestVars, workerVars, engine, md, rejected, statusVars, historyVars>>

\* Fault: the top document goes, whatever run has stopped.
PopAny(x) == docs # <<>>

\* The top document is that of the run that stops; without one, IndexError.
Innermost(x) == docs # <<>> /\ Last(docs) = x

\* run_stop: any other document is refused.
RunStop(x) ==
  /\ docs' = IF Innermost(x) THEN Front(docs) ELSE docs
  /\ rejected' = (rejected \/ ~Innermost(x))

\* The RunEngine emits the stop document of a run of the plan, or when the plan
\* has ended, of one it left open, in any order.  A run whose document was
\* refused may count as closed or not.
CloseRun(x) ==
  /\ engine \in {"running", "closing"} /\ x \in Range(open)
  /\ RunStop(x)
  /\ \/ \E i \in DOMAIN open : open[i] = x /\ open' = RemoveAt(open, i)
     \/ ~Innermost(x) /\ engine = "running" /\ UNCHANGED open
  /\ UNCHANGED <<requestVars, workerVars, engine, md, statusVars, historyVars>>

PlanEnds ==
  /\ engine = "running" /\ engine' = "closing"
  /\ UNCHANGED <<requestVars, workerVars, md, runVars, statusVars, historyVars>>

\* The engine is idle, and says so; the worker thread or resume returns.
EngineIdle ==
  /\ engine = "closing" /\ open = <<>> /\ engine' = "idle"
  /\ cycle' = IF cycle = "plan" THEN "over" ELSE cycle
  /\ Report(current, current \in complete)
  /\ UNCHANGED <<headers, pending, complete, channel, current, md, runVars, statusVars, historyVars>>

-----------------------------------------------------------------------------
(* The status monitor.  A plan that waits calls _waiting_hook; the device  *)
(* then calls _on_status_event and on_complete.                            *)

MonitorStatus(s) ==
  /\ engine = "running" /\ stage[s] = "unseen"
  /\ stage' = [stage EXCEPT ![s] = "moving"]
  /\ snapshot' = snapshot \cup {s}
  /\ UNCHANGED <<requestVars, workerVars, engineVars, updates, finished, historyVars>>

\* Fault: completed statuses are not told apart.
AnyStatus(s) == TRUE

\* "Ensure completed statues are not re-added and published"
NotCompleted(s) == s \notin finished

\* A device may update a status after its completion, too; in between only from
\* another thread than that of its callbacks.
Updating == IF OneThread THEN {"moving", "complete"} ELSE Stages \ {"unseen"}

\* _on_status_event: the check and the rest, between which other threads run.
UpdateChecked(s) ==
  /\ stage[s] \in Updating
  /\ NotCompleted(s) /\ s \notin updates
  /\ updates' = updates \cup {s}
  /\ UNCHANGED <<requestVars, workerVars, engineVars, stage, snapshot, finished, historyVars>>

UpdatePublished(s) ==
  /\ s \in updates /\ updates' = updates \ {s}
  /\ snapshot' = snapshot \cup {s}
  /\ UNCHANGED <<requestVars, workerVars, engineVars, stage, finished, historyVars>>

\* on_complete: the last event, then the snapshot, then the completed ones.
Done(s) ==
  /\ stage[s] = "moving" /\ (OneThread => s \notin updates)
  /\ stage' = [stage EXCEPT ![s] = "final"]
  /\ snapshot' = IF NotCompleted(s) THEN snapshot \cup {s} ELSE snapshot
  /\ UNCHANGED <<requestVars, workerVars, engineVars, updates, finished, historyVars>>

\* del self._status_snapshot[status_uuid]
DropStatus(s) == snapshot' = snapshot \ {s}

Drop(s) ==
  /\ stage[s] = "final" /\ stage' = [stage EXCEPT ![s] = "dropped"]
  /\ DropStatus(s)
  /\ UNCHANGED <<requestVars, workerVars, engineVars, updates, finished, historyVars>>

Finish(s) ==
  /\ stage[s] = "dropped" /\ stage' = [stage EXCEPT ![s] = "complete"]
  /\ finished' = finished \cup {s}
  /\ UNCHANGED <<requestVars, workerVars, engineVars, updates, snapshot, historyVars>>

-----------------------------------------------------------------------------
\* What happens on behalf of a request, in the worker thread, to a run and to a
\* status.
RequestStep(r) == CheckActive(r) \/ Prepare(r) \/ Begin(r) \/ BeginTimesOut(r)
WorkerStep == TakeTask \/ StartPlan \/ PlanInvalid \/ EndCycle \/ PlanEnds \/ EngineIdle
RunStep(x) == OpenRun(x) \/ CloseRun(x)
StatusStep(s) ==
  \/ MonitorStatus(s) \/ UpdateChecked(s) \/ UpdatePublished(s)
  \/ Done(s) \/ Drop(s) \/ Finish(s)

Next ==
  \/ \E r \in Requests : RequestStep(r)
  \/ \E t \in Tasks : ClearTask(t)
  \/ Pause \/ Resume
  \/ WorkerStep
  \/ \E x \in Runs : RunStep(x)
  \/ \E s \in Statuses : StatusStep(s)

Spec == Init /\ [][Next]_vars

-----------------------------------------------------------------------------
(* Properties.                                                             *)

\* The worker executes a plan, of a task not executed before.
Executing == cycle = "plan" /\ current \notin complete

\* Path provider (run_start, run_stop): every open run still has its start
\* document, and until the first stop that is refused the documents are those
\* of the open runs, so a device asks for its path in the name of the innermost
\* run and is refused outside runs, across plans that fail, pause and resume.
PathsFollowRuns ==
  /\ Range(open) \subseteq Range(docs)
  /\ ~rejected => docs = open

\* begin_task and remove_callback_when_task_finished: every Tiled writer that
\* is subscribed belongs to a request being served or to a task whose
\* completion is still to come, unless that task was deleted: the documents of
\* later tasks are not written with the credentials of an earlier request.
NoStrayWriter ==
  \A r \in writers :
    \/ pc[r] \in {"serving", "waiting"}
    \/ Wanted[r] \in {current} \cup Range(channel) /\ Wanted[r] \in pending
    \/ Wanted[r] \in cleared

\* The same, the other way: the plan of a request that was told its task began
\* is executed with the request's writer subscribed, so its documents reach
\* Tiled, whatever other requests failed meanwhile.
WriterPresent ==
  \A r \in Requests :
    Executing /\ pc[r] = "begun" /\ Wanted[r] = current => r \in writers

\* NumtrackerClient.set_headers, do_task: the scans of a plan are made under
\* the metadata of its task, and under the headers of a request for it or of
\* one that overtook it: made before the plan started, and failed in begin_task,
\* unless the task's own request had given up waiting for it.  A request that
\* finds the task active changes neither.
ScansCredited ==
  Executing =>
    /\ md = current
    /\ headers \in early
    /\ \/ Wanted[headers] = current \/ pc[headers] \in {"serving", "failed"}
       \/ \A r \in Requests : Wanted[r] = current => pc[r] # "begun"

\* on_complete, _on_status_event: when a device reports from one thread, a status that
\* has completed stays out of the progress, however late it is updated again and whatever
\* cycle it was monitored in, for as long as _completed_statuses remembers it.
ProgressSettled ==
  OneThread =>
    \A s \in Statuses : stage[s] = "dropped" \/ s \in finished => s \notin snapshot
=============================================================================
