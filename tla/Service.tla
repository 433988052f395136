------------------------------- MODULE Service -------------------------------
(***************************************************************************)
(* The REST application of blueapi.service.main with its authorization     *)
(* (service/authorization.py) and authentication, seen by several clients  *)
(* at once.  Three resources decide what can happen when:                  *)
(*                                                                         *)
(*   - the asyncio event loop of the server.  A handler or a dependency    *)
(*     written "async def" runs on it and gives it up only at an await (a  *)
(*     question to the OPA server, a websocket message), so runner.run     *)
(*     inside one blocks the whole server;                                 *)
(*   - the worker subprocess, which answers one call at a time.  begin_task*)
(*     occupies it until the plan starts, resume_worker, and               *)
(*     cancel_active_task of a paused plan, until the plan is over;        *)
(*   - the worker thread in the subprocess, which runs one task at a time. *)
(*                                                                         *)
(* Handlers written "def" run on threads of their own, whatever the loop   *)
(* does.  OPA is configured; a server without it grants everything, which  *)
(* is the instance Admins = Users.  What goes on inside the worker         *)
(* (timeouts of begin_task, tasks whose plan cannot be built, start and    *)
(* stop) is TaskWorker's subject, reload EnvironmentReload's.              *)
(***************************************************************************)
EXTENDS Naturals, FiniteSets

CONSTANTS
  Tasks,      \* the task ids that may be created
  NoTask,     \* None, where a task could be
  Users,      \* the fedids of the users
  Admins,     \* the users for whom OPA answers admin with true
  Anonymous,  \* the sender of a request without a valid bearer token
  Requests,   \* the requests and websockets that can be served at once
  NoRequest   \* nobody

ASSUME ServiceAssumption ==
  /\ NoTask \notin Tasks
  /\ Admins \subseteq Users /\ Anonymous \notin Users
  /\ NoRequest \notin Requests

VARIABLES
  \* The worker
  phase,      \* where a client finds each task: absent, pending, running, ...
  owner,      \* task.metadata["user"] of each task
  announced,  \* the tasks whose completion event was published
  ended,      \* the tasks whose is_complete is True
  current,    \* _current
  state,      \* _state
  channel,    \* content of _task_channel
  thread,     \* ready: in _task_channel.get(); engine: in RE(); over: RE() is
              \* over; report: the task is complete, not yet published
  \* The server
  loop,       \* the request that holds the event loop between two awaits
  pool,       \* the request whose call occupies the subprocess
  pc,         \* where each request is; at its end, the status or close code
  job,        \* what each request asks for, and the tasks it has read (seen)
  pipe,       \* the events of its own task in the pipe of each websocket
  gone        \* the websockets whose client has disconnected

workerVars == <<phase, owner, announced, ended, current, state, channel, thread>>
taskVars   == <<phase, owner, ended, current, channel, thread>>
vars == <<workerVars, loop, pool, pc, job, pipe, gone>>

Operations ==
  {"health", "look", "list", "read", "delete", "begin", "submit",
   "pause", "resume", "cancel", "run_plan"}

\* The operations that name a task, and those of PUT /worker/state.
OfTask  == {"read", "delete", "begin"}
Control == {"pause", "resume", "cancel"}

\* arrive: not looked at yet; admin: waiting for OPA; thread: in the handler;
\* admitted: may submit; check, begin: in set_active_task or run_plan before the
\* calls of get_active_task and begin_task; starting, resuming: inside a call
\* that occupies the subprocess; active, decide: in set_state before the call of
\* get_active_task and before acting; stream, leaving: in the event loop of
\* run_plan and in its handler of WebSocketDisconnect; reply: tasks are on the way
\* to the client.
Locations ==
  {"arrive", "admin", "thread", "admitted", "check", "begin", "starting",
   "active", "decide", "resuming", "stream", "leaving", "reply"}

\* lost: the client is gone; none: no request yet.
Codes ==
  {"none", "200", "201", "202", "400", "401", "403", "404", "409", "422", "500",
   "1000", "1007", "1011", "1013", "4001", "4002", "4003", "lost"}

TypeOK ==
  /\ phase \in [Tasks -> {"absent", "pending", "running", "complete", "dropped"}]
  /\ owner \in [Tasks -> Users \cup {Anonymous}]
  /\ announced \subseteq Tasks /\ ended \subseteq Tasks
  /\ current \in Tasks \cup {NoTask}
  /\ state \in {"IDLE", "RUNNING", "PAUSING", "PAUSED", "CANCELLING"}
  /\ channel \subseteq Tasks
  /\ thread \in {"ready", "engine", "over", "report"}
  /\ {loop, pool} \subseteq Requests \cup {NoRequest}
  /\ pc \in [Requests -> Locations \cup Codes]
  /\ job \in [Requests -> [op: Operations, user: Users \cup {Anonymous},
                           task: Tasks \cup {NoTask}, seen: SUBSET Tasks]]
  /\ pipe \in [Requests -> SUBSET {"update", "complete"}]
  /\ gone \subseteq Requests
  \* Who keeps the loop is between two awaits, who keeps the pool inside a call.
  /\ pool # NoRequest => pc[pool] \in {"starting", "resuming"}
  /\ loop # NoRequest =>
       pc[loop] \in {"check", "begin", "starting", "active", "resuming", "leaving"}

NoJob == [op |-> "health", user |-> Anonymous, task |-> NoTask, seen |-> {}]

Init ==
  /\ phase = [t \in Tasks |-> "absent"]
  /\ owner = [t \in Tasks |-> Anonymous]
  /\ announced = {} /\ ended = {}
  /\ current = NoTask /\ state = "IDLE" /\ channel = {} /\ thread = "ready"
  /\ loop = NoRequest /\ pool = NoRequest
  /\ pc = [r \in Requests |-> "none"]
  /\ job = [r \in Requests |-> NoJob]
  /\ pipe = [r \in Requests |-> {}]
  /\ gone = {}

-----------------------------------------------------------------------------
(* Parts of the steps.                                                     *)

\* Fault: tasks are not looked up.
AllTasks == Tasks

\* get_task_by_id and clear_task do not raise KeyError.
Known == {t \in Tasks : phase[t] \in {"pending", "running", "complete"}}

\* The request is at location l with an operation of S ...
At(r, l, S) == pc[r] = l /\ job[r].op \in S

\* ... on the event loop, which it may have to wait for ...
OnLoop(r) == loop \in {NoRequest, r}

\* ... and calls the subprocess.
Calls == pool = NoRequest

\* Goes on at l, keeping the loop or giving it up (at an await, or at the end).
Keep(r, l)  == pc' = [pc EXCEPT ![r] = l] /\ loop' = r

Yield(r, l) == /\ pc' = [pc EXCEPT ![r] = l]
               /\ loop' = IF loop = r THEN NoRequest ELSE loop
Await(r, l) == Yield(r, l) /\ UNCHANGED job

\* The response is sent, or the websocket closed.
Answer(r, code) == Yield(r, code) /\ job' = [job EXCEPT ![r] = NoJob]

\* The websockets inside "with runner.event_pipe()".
Piped == {r \in Requests : /\ job[r].op = "run_plan"
                           /\ pc[r] \in {"check", "begin", "starting", "stream"}}

\* A worker event of task t is written to the pipes; run_plan skips the events
\* of other tasks.
Published(t, complete) ==
  [r \in Requests |->
     IF r \in Piped /\ job[r].task = t
       THEN pipe[r] \cup {IF complete THEN "complete" ELSE "update"}
       ELSE pipe[r]]

\* The RunEngine changes state and _on_state_change reports it, with the task as
\* complete if the plan was paused before.
OnStateChange(new) ==
  /\ state' = new
  /\ pipe' = Published(current, current \in ended)
  /\ announced' = announced \cup ({current} \cap ended)

\* opa.admin() or the task is the user's own.
Allowed(u, t) == u \in Admins \/ owner[t] = u

-----------------------------------------------------------------------------
(* Arrival.                                                                *)

\* Requests that may still create a task, for the bound on Tasks.
Creating == {r \in Requests : /\ job[r].op \in {"submit", "run_plan"}
                              /\ pc[r] \in {"arrive", "admitted"}}

\* A client sends a request or opens a websocket.
Arrive(r) ==
  /\ pc[r] \in Codes
  /\ \E op \in Operations, u \in Users \cup {Anonymous}, t \in Tasks \cup {NoTask} :
       /\ t = NoTask <=> op \notin OfTask
       /\ u = Anonymous <=> op = "health"
       /\ op \in {"submit", "run_plan"} =>
            Cardinality(Creating) < Cardinality({x \in Tasks : phase[x] = "absent"})
       /\ job' = [job EXCEPT ![r] = [op |-> op, user |-> u, task |-> t, seen |-> {}]]
  /\ pc' = [pc EXCEPT ![r] = "arrive"]
  /\ pipe' = [pipe EXCEPT ![r] = {}]
  /\ gone' = gone \ {r}
  /\ UNCHANGED <<workerVars, loop, pool>>

\* The bearer token is missing or invalid: validate_bearer_token and opa refuse
\* the request before anything else looks at it.
Unauthenticated(r) == pc[r] \in Codes /\ OnLoop(r) /\ Answer(r, "401")

\* A request that was let in by validate_bearer_token.
Arrived(r, S) == At(r, "arrive", S) /\ OnLoop(r)

\* GET /healthz asks nobody.
HealthProbe(r) ==
  /\ Arrived(r, {"health"})
  /\ Answer(r, "200")

\* What every user may read: plans, devices, the active task, the worker's state,
\* the python environment, the OIDC configuration.
Look(r) ==
  /\ Arrived(r, {"look"}) /\ Calls
  /\ Answer(r, "200")

-----------------------------------------------------------------------------
(* The tasks: GET /tasks, GET and DELETE /tasks/{task_id}, PUT /worker/task. *)

\* get_tasks reads them all, then asks OPA.
GetTasks(r) ==
  /\ Arrived(r, {"list"}) /\ Calls
  /\ job' = [job EXCEPT ![r].seen = Known]
  /\ Yield(r, "admin")
  /\ UNCHANGED <<workerVars, pool, pipe, gone>>

\* access_task_permission looks the task up, then asks OPA.
AccessTask(r) ==
  /\ Arrived(r, OfTask) /\ Calls
  /\ IF job[r].task \in Known THEN Await(r, "admin") ELSE Answer(r, "404")

\* Fault: get_tasks returns what it read.
ListUnfiltered(r) == job[r].seen

\* What get_tasks shows to the user.
Listed(r) == {t \in job[r].seen : Allowed(job[r].user, t)}

\* The answer of OPA arrives.
ListTasks(r) ==
  /\ At(r, "admin", {"list"}) /\ OnLoop(r)
  /\ job' = [job EXCEPT ![r].seen = Listed(r)]
  /\ Yield(r, "reply")
  /\ UNCHANGED <<workerVars, pool, pipe, gone>>

\* Fault: only GET depends on access_task_permission.
PermittedUnlessRead(r) == job[r].op = "read" => Allowed(job[r].user, job[r].task)

Permitted(r) == Allowed(job[r].user, job[r].task)

AccessDecided(r) ==
  /\ At(r, "admin", OfTask) /\ OnLoop(r)
  /\ IF Permitted(r) THEN Await(r, "thread") ELSE Answer(r, "404")

\* get_task looks the task up again.
GetTask(r) ==
  /\ At(r, "thread", {"read"}) /\ Calls
  /\ IF job[r].task \in Known
       THEN Yield(r, "reply") /\ job' = [job EXCEPT ![r].seen = {job[r].task}]
       ELSE Answer(r, "404")
  /\ UNCHANGED <<workerVars, pool, pipe, gone>>

Reply(r) == pc[r] = "reply" /\ OnLoop(r) /\ Answer(r, "200")

\* delete_submitted_task: clear_task removes the task, whatever it is doing.
ClearTask(r) ==
  /\ At(r, "thread", {"delete"}) /\ Calls
  /\ IF job[r].task \in Known
       THEN phase' = [phase EXCEPT ![job[r].task] = "dropped"] /\ Answer(r, "200")
       ELSE UNCHANGED phase /\ Answer(r, "404")
  /\ UNCHANGED <<owner, announced, ended, current, state, channel, thread,
                 pool, pipe, gone>>

\* get_active_task returns a task that is not complete.
Busy == current # NoTask /\ current \notin ended

\* set_active_task and run_plan ask for the active task ...
CheckActive(r) ==
  /\ \/ At(r, "thread", {"begin"})
     \/ At(r, "check", {"run_plan"}) /\ loop = r
  /\ Calls
  /\ IF Busy THEN Answer(r, IF job[r].op = "begin" THEN "409" ELSE "1013")
     ELSE pc' = [pc EXCEPT ![r] = "begin"] /\ UNCHANGED <<loop, job>>

\* Fault: begin_task does not look at the worker's state.
NeverRefused == FALSE

\* _submit_trackable_task raises WorkerBusyError.
Refused == state # "IDLE"

\* ... and begin theirs.  No pending record: KeyError.  A busy worker:
\* WorkerBusyError, which set_active_task does not handle.
BeginTask(r) ==
  LET t == job[r].task
      ws == job[r].op = "run_plan"
  IN /\ pc[r] = "begin" /\ (ws => loop = r) /\ Calls
     /\ \/ /\ phase[t] \notin {"pending", "running"}
           /\ Answer(r, IF ws THEN "1011" ELSE "404")
           /\ UNCHANGED <<channel, pool>>
        \/ /\ phase[t] \in {"pending", "running"} /\ Refused
           /\ Answer(r, IF ws THEN "1013" ELSE "500")
           /\ UNCHANGED <<channel, pool>>
        \/ /\ phase[t] \in {"pending", "running"} /\ ~Refused
           /\ channel' = {t}
           /\ pool' = r
           /\ pc' = [pc EXCEPT ![r] = "starting"]
           /\ UNCHANGED <<loop, job>>
     /\ UNCHANGED <<phase, owner, announced, ended, current, state, thread,
                    pipe, gone>>

-----------------------------------------------------------------------------
(* POST /tasks and the websocket /api/v2/run_plan.                         *)

\* submit_permission: OPA refuses, or the instrument session is malformed.
SubmitPermission(r) ==
  /\ Arrived(r, {"submit"})
  /\ \/ Answer(r, "403")
     \/ Answer(r, "500")
     \/ Await(r, "admitted")

\* WebsocketOriginCheck: the page that opens the websocket is not on the list.
RefuseOrigin(r) == Arrived(r, {"run_plan"}) /\ Answer(r, "403")

\* run_plan up to the answer of OPA: the first message is no Submit, OPA refuses
\* or raises.
AcceptWebsocket(r) ==
  /\ Arrived(r, {"run_plan"})
  /\ \/ Answer(r, "1007")
     \/ Answer(r, "4003")
     \/ Await(r, "admitted")

\* submit_task refuses an unknown plan (KeyError) or parameters (ValidationError).
SubmitRefused(r) ==
  /\ pc[r] = "admitted" /\ Calls
  /\ \/ job[r].op = "submit" /\ Answer(r, "404")
     \/ job[r].op = "submit" /\ Answer(r, "422")
     \/ job[r].op = "run_plan" /\ OnLoop(r) /\ Answer(r, "4001")
     \/ job[r].op = "run_plan" /\ OnLoop(r) /\ Answer(r, "4002")

\* submit_task creates a task of this user; run_plan then subscribes its pipe,
\* before which no event of the new task can be published.
SubmitTask(r) ==
  /\ pc[r] = "admitted" /\ Calls
  /\ \E t \in Tasks :
       /\ phase[t] = "absent"
       /\ phase' = [phase EXCEPT ![t] = "pending"]
       /\ owner' = [owner EXCEPT ![t] = job[r].user]
       /\ \/ job[r].op = "submit" /\ Answer(r, "201")
          \/ /\ job[r].op = "run_plan" /\ OnLoop(r) /\ Keep(r, "check")
             /\ job' = [job EXCEPT ![r].task = t]
  /\ UNCHANGED <<announced, ended, current, state, channel, thread,
                 pool, pipe, gone>>

\* Fault: the first event of the task ends the stream.
LastEvent(e) == TRUE

\* Fault: the stream has no end.
NoLastEvent(e) == FALSE

\* evt.is_complete()
IsComplete(e) == e = "complete"

\* run_plan sends the next event of its task; after the last it closes.
ForwardEvent(r) ==
  /\ At(r, "stream", {"run_plan"}) /\ OnLoop(r)
  /\ r \notin gone
  /\ \E e \in pipe[r] :
       /\ e = "complete" => pipe[r] = {"complete"}
       /\ pipe' = [pipe EXCEPT ![r] = @ \ {e}]
       /\ IF IsComplete(e) THEN Calls /\ Answer(r, "1000") ELSE Await(r, "stream")
  /\ UNCHANGED <<workerVars, pool, gone>>

\* The client of a websocket goes away, which only a send notices ...
ClientLeaves(r) ==
  /\ At(r, "stream", {"run_plan"}) /\ r \notin gone
  /\ gone' = gone \cup {r}
  /\ UNCHANGED <<workerVars, loop, pool, pc, job, pipe>>

\* ... raising WebSocketDisconnect: unpipe_events, then cancel_active_task.
Disconnected(r) ==
  /\ At(r, "stream", {"run_plan"}) /\ OnLoop(r) /\ Calls
  /\ r \in gone /\ pipe[r] # {}
  /\ Keep(r, "leaving") /\ UNCHANGED job

-----------------------------------------------------------------------------
(* PUT /worker/state.                                                      *)

\* _ALLOWED_TRANSITIONS, by the operation each new state stands for.
AllowedTransitions ==
  CASE state = "RUNNING" -> {"pause", "cancel"}
    [] state = "PAUSED"  -> {"resume", "cancel"}
    [] OTHER             -> {}

\* set_state reads the state ...
SetState(r) ==
  /\ Arrived(r, Control) /\ Calls
  /\ IF job[r].op \in AllowedTransitions THEN Keep(r, "active") /\ UNCHANGED job
                                        ELSE Answer(r, "400")

\* ... and the active task, then asks OPA ...
ReadActive(r) ==
  /\ pc[r] = "active" /\ loop = r /\ Calls
  /\ job' = [job EXCEPT ![r].seen = {current} \ {NoTask}]
  /\ Yield(r, "decide")
  /\ UNCHANGED <<workerVars, pool, pipe, gone>>

\* ... and refuses when the task it read is another user's ...
Forbidden(r) == \E t \in job[r].seen : ~Allowed(job[r].user, t)

Forbid(r) ==
  /\ pc[r] = "decide" /\ OnLoop(r)
  /\ Forbidden(r)
  /\ Answer(r, "403")

\* ... or acts on whatever is active by now.  The RunEngine raises when it is not
\* in the right state, which only the cancellation handles.
Acts(r, op) == At(r, "decide", {op}) /\ OnLoop(r) /\ Calls /\ ~Forbidden(r)

Pause(r) ==
  /\ Acts(r, "pause")
  /\ IF state = "RUNNING"
       THEN OnStateChange("PAUSING") /\ Answer(r, "202")
       ELSE UNCHANGED <<state, pipe, announced>> /\ Answer(r, "500")
  /\ UNCHANGED <<taskVars, pool, gone>>

\* The call runs the plan to its end and keeps the subprocess and the loop.
Occupy(r) == pool' = r /\ Keep(r, "resuming") /\ UNCHANGED job

Resume(r) ==
  /\ Acts(r, "resume")
  /\ IF state = "PAUSED"
       THEN OnStateChange("RUNNING") /\ Occupy(r)
       ELSE UNCHANGED <<state, pipe, announced, pool>> /\ Answer(r, "500")
  /\ UNCHANGED <<taskVars, gone>>

\* cancel_active_task, asked for or because a websocket was disconnected.  A RunEngine
\* that is pausing refuses to stop, and may be aborted.
Cancel(r) ==
  LET reply(a) == Answer(r, IF job[r].op = "run_plan" THEN "lost" ELSE a)
  IN /\ Acts(r, "cancel") \/ (pc[r] = "leaving" /\ loop = r /\ Calls)
     /\ \/ /\ state \in {"RUNNING", "PAUSING"}
           /\ OnStateChange("CANCELLING") /\ reply("202") /\ UNCHANGED pool
        \/ state = "PAUSED" /\ OnStateChange("CANCELLING") /\ Occupy(r)
        \/ /\ state \notin {"RUNNING", "PAUSED"}
           /\ UNCHANGED <<state, pipe, announced, pool>> /\ reply("400")
     /\ UNCHANGED <<taskVars, gone>>

-----------------------------------------------------------------------------
(* The worker thread and the RunEngine.                                    *)

\* _cycle takes the task and the RunEngine starts its plan; the state change
\* lets begin_task return.
TakeTask ==
  /\ thread = "ready"
  /\ \E t \in channel, r \in Requests :
       /\ r = pool
       /\ current' = t
       /\ phase' = [phase EXCEPT ![t] = IF @ = "pending" THEN "running" ELSE @]
       /\ state' = "RUNNING"
       /\ pipe' = Published(t, t \in ended)
       /\ announced' = announced \cup ({t} \cap ended)
       /\ IF job[r].op = "begin" THEN Answer(r, "200") ELSE Await(r, "stream")
  /\ channel' = {} /\ pool' = NoRequest
  /\ thread' = "engine"
  /\ UNCHANGED <<owner, ended, gone>>

\* The plan is over, or paused (a pause with no checkpoint aborts the plan); a
\* resumed one returns to the request that resumed it.
PlanStops ==
  /\ state \in {"RUNNING", "PAUSING", "CANCELLING"}
  /\ \E new \in {"IDLE", "PAUSED"} :
       /\ state = "CANCELLING" => new = "IDLE"
       /\ OnStateChange(new)
       /\ \/ /\ thread = "engine" /\ thread' = "over"
             /\ UNCHANGED <<pool, loop, pc, job>>
          \/ \E r \in Requests :
               /\ r = pool /\ pc[r] = "resuming"
               /\ pool' = NoRequest
               /\ Answer(r, IF job[r].op = "run_plan" THEN "lost"
                            ELSE IF new = "PAUSED" THEN "500" ELSE "202")
               /\ UNCHANGED thread
  /\ UNCHANGED <<phase, owner, ended, current, channel, gone>>

\* The end of _cycle.  A task that is no longer pending makes pop raise KeyError.
CycleEnd ==
  /\ thread = "over"
  /\ ended' = ended \cup {current}
  /\ IF phase[current] = "running"
       THEN phase' = [phase EXCEPT ![current] = "complete"] /\ thread' = "report"
       ELSE UNCHANGED phase /\ thread' = "ready"
  /\ UNCHANGED <<owner, announced, current, state, channel,
                 loop, pool, pc, job, pipe, gone>>

\* Fault: the completion is not sent to the pipes.
ReportedNowhere == pipe

\* The pipes after the completion event.
Reported == Published(current, TRUE)

ReportStatus ==
  /\ thread = "report"
  /\ announced' = announced \cup {current}
  /\ pipe' = Reported
  /\ thread' = "ready"
  /\ UNCHANGED <<phase, owner, ended, current, state, channel,
                 loop, pool, pc, job, gone>>

-----------------------------------------------------------------------------
\* What the server does for a request: steps that only decide how it goes on, ...
Decides(r) ==
  \/ HealthProbe(r) \/ Look(r)
  \/ AccessTask(r) \/ AccessDecided(r) \/ CheckActive(r)
  \/ SubmitPermission(r) \/ RefuseOrigin(r) \/ AcceptWebsocket(r) \/ SubmitRefused(r)
  \/ Disconnected(r) \/ SetState(r) \/ Forbid(r) \/ Reply(r)

\* ... and steps that read or change something.
Serve(r) ==
  \/ Decides(r) /\ UNCHANGED <<workerVars, pool, pipe, gone>>
  \/ GetTasks(r) \/ ListTasks(r) \/ GetTask(r) \/ ClearTask(r)
  \/ BeginTask(r) \/ SubmitTask(r) \/ ForwardEvent(r)
  \/ ReadActive(r) \/ Pause(r) \/ Resume(r) \/ Cancel(r)

WorkerThread == TakeTask \/ CycleEnd \/ ReportStatus

Clients(r) ==
  \/ Arrive(r) \/ ClientLeaves(r)
  \/ Unauthenticated(r) /\ UNCHANGED <<workerVars, pool, pipe, gone>>

Next == \/ \E r \in Requests : Clients(r) \/ Serve(r)
        \/ WorkerThread \/ PlanStops

Spec == Init /\ [][Next]_vars

(***************************************************************************)
(* Fairness.  The loop serves what is ready in the order it became ready   *)
(* and the pool its calls in the order they came, so a step that is        *)
(* possible again and again is taken (SF).  The worker thread runs.  That  *)
(* plans stop is an assumption about the plans.                            *)
(***************************************************************************)
ServerFairness == (\A r \in Requests : SF_vars(Serve(r))) /\ WF_vars(WorkerThread)

FairSpec == Spec /\ ServerFairness /\ WF_vars(PlanStops)

\* Plans may go on for ever.
ServerSpec == Spec /\ ServerFairness

-----------------------------------------------------------------------------
(* Properties.                                                             *)

\* Who may see and begin or delete a task, as the authorization is meant.
Entitled(u, t) == u \in Admins \/ owner[t] = u

\* A response tells what happened, although it is sent several calls after the
\* checks: 200 of PUT /worker/task is sent when the worker has taken the task, and
\* a websocket is closed as finished when its task was announced as complete.
AnswersHonest ==
  [][\A r \in Requests :
       pc'[r] # pc[r] =>
         /\ job[r].op = "begin" /\ pc'[r] = "200" =>
              phase'[job[r].task] \notin {"absent", "pending"}
         /\ pc'[r] = "1000" => job[r].task \in announced]_vars

\* Users who are not admins are shown their own tasks only, although get_tasks
\* and access_task_permission read everybody's before they ask OPA.
OnlyOwnTasksShown ==
  \A r \in Requests :
    pc[r] = "reply" => \A t \in job[r].seen : Entitled(job[r].user, t)

\* The worker never has a second task on its hands: while begin_task waits for
\* the plan to start, nothing runs, and while a plan runs nothing is queued, even
\* though two requests may both have found the worker without an active task.
OneTaskAtATime ==
  channel # {} => /\ thread # "engine" /\ state = "IDLE"
                  /\ pool # NoRequest /\ pc[pool] = "starting"

\* Nobody waits for what will not come.  The call of a begin_task that waits has its
\* task in the channel of a worker thread that needs neither the loop nor the pool, a
\* call that resumed a plan has one that is not over, and a websocket has the completion
\* in its pipe or a task that the worker has not done with, unless that was deleted.
NobodyForgotten ==
  \A r \in Requests :
    /\ pc[r] = "starting" => pool = r /\ job[r].task \in channel /\ thread # "engine"
    /\ pc[r] = "resuming" => pool = r /\ state \in {"RUNNING", "PAUSING", "CANCELLING"}
    /\ pc[r] = "stream" => \/ "complete" \in pipe[r]
                           \/ current = job[r].task /\ thread # "ready"
                           \/ phase[job[r].task] = "dropped"

\* A task is begun or deleted only for its owner or an admin (the check is made
\* in access_task_permission, the deed later by another handler on a thread).
OnlyOwnersAct ==
  [][\A t \in Tasks :
       phase'[t] # phase[t] /\ phase'[t] \in {"running", "dropped"} =>
         \E r \in Requests : /\ pc[r] # pc'[r]
                             /\ job[r].task = t /\ Entitled(job[r].user, t)]_vars

Lifecycle == INSTANCE TaskLifecycle WITH Tasks <- Tasks, phase <- phase,
                                         announced <- announced

\* The service keeps the promise of the worker, TaskLifecycle.
ImplementsLifecycle == Lifecycle!Spec

\* Every request is answered, and every websocket closed, when plans stop.  A
\* websocket whose task was deleted while it ran is the exception: its completion
\* is never published.
Answered ==
  \A r \in Requests :
    pc[r] \in Locations ~>
      pc[r] \in Codes \/ (pc[r] = "stream" /\ phase[job[r].task] = "dropped")

\* A websocket whose client stays is told of the end of its plan.
EndTold ==
  \A r \in Requests :
    pc[r] = "stream" ~> \/ pc[r] = "1000" \/ r \in gone
                        \/ pc[r] = "stream" /\ phase[job[r].task] = "dropped"

\* "If able to serve this, server is live and ready for requests": the health
\* probe is answered, whatever the plans do.
HealthAnswered ==
  \A r \in Requests : At(r, "arrive", {"health"}) ~> pc[r] = "200"
=============================================================================
