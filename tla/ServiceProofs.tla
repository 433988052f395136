---------------------------- MODULE ServiceProofs ----------------------------
(***************************************************************************)
(* Proofs about the REST application, for any number of users, tasks and   *)
(* concurrent requests: who is shown and may act on which task, that the   *)
(* worker has one task at a time, that answers tell what happened, and     *)
(* that the service implements TaskLifecycle.                              *)
(*                                                                         *)
(* EngineInv says who occupies the worker and how the tasks stand to it,   *)
(* RequestsInv what has been checked for a request by the place it has     *)
(* reached (a check stays true: tasks neither become absent nor change     *)
(* their owner), PipeInv what is in the pipe of a websocket.               *)
(***************************************************************************)
EXTENDS Service, TLAPS

\* The task is there and the request's user is its owner or an admin.
MayAct(r) ==
  /\ job[r].task \in Tasks /\ phase[job[r].task] # "absent"
  /\ Allowed(job[r].user, job[r].task)

EngineInv ==
  /\ thread = "engine" =>
       /\ state \in {"RUNNING", "PAUSING", "CANCELLING"}
       /\ \A r \in Requests : pc[r] # "resuming"
  /\ \A r \in Requests :
       /\ pc[r] \in {"starting", "resuming"} => pool = r
       /\ pc[r] = "starting" =>
            channel = {job[r].task} /\ state = "IDLE" /\ thread # "engine"
  /\ channel # {} => pool # NoRequest /\ pc[pool] = "starting"

PhaseInv ==
  /\ thread # "ready" =>
       current \in Tasks /\ phase[current] \in {"running", "complete", "dropped"}
  /\ thread = "report" => phase[current] # "running"
  /\ \A t \in Tasks : phase[t] = "running" => current = t /\ thread \in {"engine", "over"}
  /\ \A t \in ended : phase[t] \in {"complete", "dropped"}

RequestOK(r) ==
  /\ pc[r] = "admin" =>
       /\ job[r].op \in {"list"} \cup OfTask
       /\ job[r].op = "list" => \A t \in job[r].seen : phase[t] # "absent"
       /\ job[r].op # "list" => job[r].task \in Tasks /\ phase[job[r].task] # "absent"
  /\ pc[r] = "reply" =>
       /\ job[r].op \in {"list", "read"}
       /\ \A t \in job[r].seen : phase[t] # "absent" /\ Allowed(job[r].user, t)
  /\ pc[r] = "thread" => job[r].op \in OfTask
  /\ pc[r] \in {"begin", "starting"} => job[r].op \in {"begin", "run_plan"}
  /\ pc[r] \in {"check", "stream"} => job[r].op = "run_plan"
  /\ pc[r] \in {"thread", "begin", "starting", "check", "stream"} => MayAct(r)

RequestsInv == \A r \in Requests : RequestOK(r)

PipeInv ==
  \A r \in Requests :
    /\ pc[r] \in {"arrive", "admitted"} => pipe[r] = {}
    /\ r \in Piped /\ "complete" \in pipe[r] => job[r].task \in announced

ServiceInv == TypeOK /\ EngineInv /\ PhaseInv /\ RequestsInv /\ PipeInv

\* TypeOK in two halves.
Jobs == [op: Operations, user: Users \cup {Anonymous}, task: Tasks \cup {NoTask},
         seen: SUBSET Tasks]

LoopPlaces == {"check", "begin", "starting", "active", "resuming", "leaving"}

ServerTypes ==
  /\ {loop, pool} \subseteq Requests \cup {NoRequest}
  /\ pc \in [Requests -> Locations \cup Codes] /\ job \in [Requests -> Jobs]
  /\ pool # NoRequest => pc[pool] \in {"starting", "resuming"}
  /\ loop # NoRequest => pc[loop] \in LoopPlaces

WorkerTypes ==
  /\ phase \in [Tasks -> {"absent", "pending", "running", "complete", "dropped"}]
  /\ owner \in [Tasks -> Users \cup {Anonymous}]
  /\ announced \subseteq Tasks /\ ended \subseteq Tasks
  /\ current \in Tasks \cup {NoTask}
  /\ state \in {"IDLE", "RUNNING", "PAUSING", "PAUSED", "CANCELLING"}
  /\ channel \subseteq Tasks
  /\ thread \in {"ready", "engine", "over", "report"}
  /\ pipe \in [Requests -> SUBSET {"update", "complete"}]
  /\ gone \subseteq Requests

\* The types of the worker and those of the server.
LEMMA Halves == TypeOK <=> WorkerTypes /\ ServerTypes
BY DEF TypeOK, WorkerTypes, ServerTypes, Jobs, LoopPlaces

\* A request moves to l and gives up the loop or, at the right places, keeps it.
MovesTo(r, l) ==
  /\ pc' = [pc EXCEPT ![r] = l]
  /\ loop' \in {loop, r, NoRequest} /\ (loop' = r => l \in LoopPlaces)
  /\ pool' \in {pool, r, NoRequest} /\ (pool' = r => l \in {"starting", "resuming"})

\* Such a move keeps the types, if the job has the right form.
LEMMA MoveKeepsTypes ==
  ASSUME ServerTypes, NEW r \in Requests, NEW l \in Locations \cup Codes, MovesTo(r, l),
         job' \in [Requests -> Jobs]
  PROVE  ServerTypes'
BY ServiceAssumption DEF ServerTypes, MovesTo

\* GET /healthz.
LEMMA HealthProbeKeeps ==
  ASSUME ServiceInv, NEW r \in Requests, HealthProbe(r),
         UNCHANGED <<workerVars, pool, pipe, gone>>
  PROVE  ServiceInv'
<1> USE ServiceAssumption DEF ServiceInv, HealthProbe, At, OnLoop, Calls, Arrived, Answer,
   Await, Yield, Keep, workerVars, taskVars
<1>1. TypeOK'
  BY DEF TypeOK, NoJob, Operations, Control, OfTask, Locations, Codes
<1>2. EngineInv'
  BY DEF EngineInv, Codes, Locations, TypeOK
<1>3. PhaseInv'
  BY DEF PhaseInv, TypeOK
<1>4. RequestsInv'
  BY DEF RequestsInv, RequestOK, MayAct, Allowed, OfTask, Codes, Locations, NoJob, TypeOK
<1>5. PipeInv'
  BY DEF PipeInv, Piped, OfTask, Codes, Locations, NoJob, TypeOK
<1> QED
  BY <1>1, <1>2, <1>3, <1>4, <1>5

\* What every user may read.
LEMMA LookKeeps ==
  ASSUME ServiceInv, NEW r \in Requests, Look(r),
         UNCHANGED <<workerVars, pool, pipe, gone>>
  PROVE  ServiceInv'
<1> USE ServiceAssumption DEF ServiceInv, Look, At, OnLoop, Calls, Arrived, Answer, Await,
   Yield, Keep, workerVars, taskVars
<1>1. TypeOK'
  BY DEF TypeOK, NoJob, Operations, Control, OfTask, Locations, Codes
<1>2. EngineInv'
  BY DEF EngineInv, Codes, Locations, TypeOK
<1>3. PhaseInv'
  BY DEF PhaseInv, TypeOK
<1>4. RequestsInv'
  BY DEF RequestsInv, RequestOK, MayAct, Allowed, OfTask, Codes, Locations, NoJob, TypeOK
<1>5. PipeInv'
  BY DEF PipeInv, Piped, OfTask, Codes, Locations, NoJob, TypeOK
<1> QED
  BY <1>1, <1>2, <1>3, <1>4, <1>5

\* access_task_permission looks the task up.
LEMMA AccessTaskKeeps ==
  ASSUME ServiceInv, NEW r \in Requests, AccessTask(r),
         UNCHANGED <<workerVars, pool, pipe, gone>>
  PROVE  ServiceInv'
<1> USE ServiceAssumption DEF ServiceInv, AccessTask, At, OnLoop, Calls, Arrived, Answer,
   Await, Yield, Keep, workerVars, taskVars
<1>1. TypeOK'
  <2> WorkerTypes /\ ServerTypes
    BY Halves
  <2>1. WorkerTypes'
    BY DEF Known, WorkerTypes
  <2>2. job' \in [Requests -> Jobs]
    BY DEF Known, ServerTypes, NoJob, Jobs, Operations
  <2>3. \E l \in Locations \cup Codes : MovesTo(r, l)
    BY DEF Known, MovesTo, LoopPlaces, ServerTypes, Locations, Codes, OfTask, Control
  <2>4. ServerTypes'
    BY <2>2, <2>3, MoveKeepsTypes
  <2> QED
    BY <2>1, <2>4 DEF TypeOK, WorkerTypes, ServerTypes, Jobs, LoopPlaces
<1>2. EngineInv'
  BY DEF Known, EngineInv, Codes, Locations, TypeOK
<1>3. PhaseInv'
  BY DEF Known, PhaseInv, TypeOK
<1>4. RequestsInv'
  BY DEF Known, RequestsInv, RequestOK, MayAct, Allowed, OfTask, Codes, Locations, NoJob,
     TypeOK
<1>5. PipeInv'
  BY DEF Known, PipeInv, Piped, OfTask, Codes, Locations, NoJob, TypeOK
<1> QED
  BY <1>1, <1>2, <1>3, <1>4, <1>5

\* OPA answers it.
LEMMA AccessDecidedKeeps ==
  ASSUME ServiceInv, NEW r \in Requests, AccessDecided(r),
         UNCHANGED <<workerVars, pool, pipe, gone>>
  PROVE  ServiceInv'
<1> USE ServiceAssumption DEF ServiceInv, AccessDecided, At, OnLoop, Calls, Arrived, Answer,
   Await, Yield, Keep, workerVars, taskVars
<1>1. TypeOK'
  BY DEF Permitted, Allowed, TypeOK, NoJob, Operations, Control, OfTask, Locations, Codes
<1>2. EngineInv'
  BY DEF Permitted, Allowed, EngineInv, Codes, Locations, TypeOK
<1>3. PhaseInv'
  BY DEF Permitted, Allowed, PhaseInv, TypeOK
<1>4. RequestsInv'
  BY DEF Permitted, Allowed, RequestsInv, RequestOK, MayAct, OfTask, Codes, Locations, NoJob,
     TypeOK
<1>5. PipeInv'
  BY DEF Permitted, Allowed, PipeInv, Piped, OfTask, Codes, Locations, NoJob, TypeOK
<1> QED
  BY <1>1, <1>2, <1>3, <1>4, <1>5

\* get_active_task before begin_task.
LEMMA CheckActiveKeeps ==
  ASSUME ServiceInv, NEW r \in Requests, CheckActive(r),
         UNCHANGED <<workerVars, pool, pipe, gone>>
  PROVE  ServiceInv'
<1> USE ServiceAssumption DEF ServiceInv, CheckActive, At, OnLoop, Calls, Arrived, Answer,
   Await, Yield, Keep, workerVars, taskVars
<1>1. TypeOK'
  BY DEF Busy, TypeOK, NoJob, Operations, Control, OfTask, Locations, Codes
<1>2. EngineInv'
  BY DEF Busy, EngineInv, Codes, Locations, TypeOK
<1>3. PhaseInv'
  BY DEF Busy, PhaseInv, TypeOK
<1>4. RequestsInv'
  BY DEF Busy, RequestsInv, RequestOK, MayAct, Allowed, OfTask, Codes, Locations, NoJob, TypeOK
<1>5. PipeInv'
  BY DEF Busy, PipeInv, Piped, OfTask, Codes, Locations, NoJob, TypeOK
<1> QED
  BY <1>1, <1>2, <1>3, <1>4, <1>5

\* submit_permission.
LEMMA SubmitPermissionKeeps ==
  ASSUME ServiceInv, NEW r \in Requests, SubmitPermission(r),
         UNCHANGED <<workerVars, pool, pipe, gone>>
  PROVE  ServiceInv'
<1> USE ServiceAssumption DEF ServiceInv, SubmitPermission, At, OnLoop, Calls, Arrived,
   Answer, Await, Yield, Keep, workerVars, taskVars
<1>1. TypeOK'
  <2> WorkerTypes /\ ServerTypes
    BY Halves
  <2>1. WorkerTypes'
    BY DEF WorkerTypes
  <2>2. job' \in [Requests -> Jobs]
    BY DEF ServerTypes, NoJob, Jobs, Operations
  <2>3. \E l \in Locations \cup Codes : MovesTo(r, l)
    BY DEF MovesTo, LoopPlaces, ServerTypes, Locations, Codes, OfTask, Control
  <2>4. ServerTypes'
    BY <2>2, <2>3, MoveKeepsTypes
  <2> QED
    BY <2>1, <2>4 DEF TypeOK, WorkerTypes, ServerTypes, Jobs, LoopPlaces
<1>2. EngineInv'
  BY DEF EngineInv, Codes, Locations, TypeOK
<1>3. PhaseInv'
  BY DEF PhaseInv, TypeOK
<1>4. RequestsInv'
  BY DEF RequestsInv, RequestOK, MayAct, Allowed, OfTask, Codes, Locations, NoJob, TypeOK
<1>5. PipeInv'
  BY DEF PipeInv, Piped, OfTask, Codes, Locations, NoJob, TypeOK
<1> QED
  BY <1>1, <1>2, <1>3, <1>4, <1>5

\* WebsocketOriginCheck.
LEMMA RefuseOriginKeeps ==
  ASSUME ServiceInv, NEW r \in Requests, RefuseOrigin(r),
         UNCHANGED <<workerVars, pool, pipe, gone>>
  PROVE  ServiceInv'
<1> USE ServiceAssumption DEF ServiceInv, RefuseOrigin, At, OnLoop, Calls, Arrived, Answer,
   Await, Yield, Keep, workerVars, taskVars
<1>1. TypeOK'
  BY DEF TypeOK, NoJob, Operations, Control, OfTask, Locations, Codes
<1>2. EngineInv'
  BY DEF EngineInv, Codes, Locations, TypeOK
<1>3. PhaseInv'
  BY DEF PhaseInv, TypeOK
<1>4. RequestsInv'
  BY DEF RequestsInv, RequestOK, MayAct, Allowed, OfTask, Codes, Locations, NoJob, TypeOK
<1>5. PipeInv'
  BY DEF PipeInv, Piped, OfTask, Codes, Locations, NoJob, TypeOK
<1> QED
  BY <1>1, <1>2, <1>3, <1>4, <1>5

\* run_plan up to the answer of OPA.
LEMMA AcceptWebsocketKeeps ==
  ASSUME ServiceInv, NEW r \in Requests, AcceptWebsocket(r),
         UNCHANGED <<workerVars, pool, pipe, gone>>
  PROVE  ServiceInv'
<1> USE ServiceAssumption DEF ServiceInv, AcceptWebsocket, At, OnLoop, Calls, Arrived,
   Answer, Await, Yield, Keep, workerVars, taskVars
<1>1. TypeOK'
  <2> WorkerTypes /\ ServerTypes
    BY Halves
  <2>1. WorkerTypes'
    BY DEF WorkerTypes
  <2>2. job' \in [Requests -> Jobs]
    BY DEF ServerTypes, NoJob, Jobs, Operations
  <2>3. \E l \in Locations \cup Codes : MovesTo(r, l)
    BY DEF MovesTo, LoopPlaces, ServerTypes, Locations, Codes, OfTask, Control
  <2>4. ServerTypes'
    BY <2>2, <2>3, MoveKeepsTypes
  <2> QED
    BY <2>1, <2>4 DEF TypeOK, WorkerTypes, ServerTypes, Jobs, LoopPlaces
<1>2. EngineInv'
  BY DEF EngineInv, Codes, Locations, TypeOK
<1>3. PhaseInv'
  BY DEF PhaseInv, TypeOK
<1>4. RequestsInv'
  BY DEF RequestsInv, RequestOK, MayAct, Allowed, OfTask, Codes, Locations, NoJob, TypeOK
<1>5. PipeInv'
  BY DEF PipeInv, Piped, OfTask, Codes, Locations, NoJob, TypeOK
<1> QED
  BY <1>1, <1>2, <1>3, <1>4, <1>5

\* submit_task refuses.
LEMMA SubmitRefusedKeeps ==
  ASSUME ServiceInv, NEW r \in Requests, SubmitRefused(r),
         UNCHANGED <<workerVars, pool, pipe, gone>>
  PROVE  ServiceInv'
<1> USE ServiceAssumption DEF ServiceInv, SubmitRefused, At, OnLoop, Calls, Arrived, Answer,
   Await, Yield, Keep, workerVars, taskVars
<1>1. TypeOK'
  <2> WorkerTypes /\ ServerTypes
    BY Halves
  <2>1. WorkerTypes'
    BY DEF WorkerTypes
  <2>2. job' \in [Requests -> Jobs]
    BY DEF ServerTypes, NoJob, Jobs, Operations
  <2>3. \E l \in Locations \cup Codes : MovesTo(r, l)
    BY DEF MovesTo, LoopPlaces, ServerTypes, Locations, Codes, OfTask, Control
  <2>4. ServerTypes'
    BY <2>2, <2>3, MoveKeepsTypes
  <2> QED
    BY <2>1, <2>4 DEF TypeOK, WorkerTypes, ServerTypes, Jobs, LoopPlaces
<1>2. EngineInv'
  BY DEF EngineInv, Codes, Locations, TypeOK
<1>3. PhaseInv'
  BY DEF PhaseInv, TypeOK
<1>4. RequestsInv'
  BY DEF RequestsInv, RequestOK, MayAct, Allowed, OfTask, Codes, Locations, NoJob, TypeOK
<1>5. PipeInv'
  BY DEF PipeInv, Piped, OfTask, Codes, Locations, NoJob, TypeOK
<1> QED
  BY <1>1, <1>2, <1>3, <1>4, <1>5

\* A websocket turns out to be disconnected.
LEMMA DisconnectedKeeps ==
  ASSUME ServiceInv, NEW r \in Requests, Disconnected(r),
         UNCHANGED <<workerVars, pool, pipe, gone>>
  PROVE  ServiceInv'
<1> USE ServiceAssumption DEF ServiceInv, Disconnected, At, OnLoop, Calls, Arrived, Answer,
   Await, Yield, Keep, workerVars, taskVars
<1>1. TypeOK'
  BY DEF TypeOK, NoJob, Operations, Control, OfTask, Locations, Codes
<1>2. EngineInv'
  BY DEF EngineInv, Codes, Locations, TypeOK
<1>3. PhaseInv'
  BY DEF PhaseInv, TypeOK
<1>4. RequestsInv'
  BY DEF RequestsInv, RequestOK, MayAct, Allowed, OfTask, Codes, Locations, NoJob, TypeOK
<1>5. PipeInv'
  BY DEF PipeInv, Piped, OfTask, Codes, Locations, NoJob, TypeOK
<1> QED
  BY <1>1, <1>2, <1>3, <1>4, <1>5

\* set_state reads the state.
LEMMA SetStateKeeps ==
  ASSUME ServiceInv, NEW r \in Requests, SetState(r),
         UNCHANGED <<workerVars, pool, pipe, gone>>
  PROVE  ServiceInv'
<1> USE ServiceAssumption DEF ServiceInv, SetState, At, OnLoop, Calls, Arrived, Answer,
   Await, Yield, Keep, workerVars, taskVars
<1>1. TypeOK'
  <2> WorkerTypes /\ ServerTypes
    BY Halves
  <2>1. WorkerTypes'
    BY DEF WorkerTypes
  <2>2. job' \in [Requests -> Jobs]
    BY DEF ServerTypes, NoJob, Jobs, Operations
  <2>3. \E l \in Locations \cup Codes : MovesTo(r, l)
    BY DEF MovesTo, LoopPlaces, ServerTypes, Locations, Codes, OfTask, Control
  <2>4. ServerTypes'
    BY <2>2, <2>3, MoveKeepsTypes
  <2> QED
    BY <2>1, <2>4 DEF TypeOK, WorkerTypes, ServerTypes, Jobs, LoopPlaces
<1>2. EngineInv'
  BY DEF EngineInv, Codes, Locations, TypeOK
<1>3. PhaseInv'
  BY DEF PhaseInv, TypeOK
<1>4. RequestsInv'
  BY DEF RequestsInv, RequestOK, MayAct, Allowed, OfTask, Codes, Locations, NoJob, TypeOK
<1>5. PipeInv'
  BY DEF PipeInv, Piped, OfTask, Codes, Locations, NoJob, TypeOK
<1> QED
  BY <1>1, <1>2, <1>3, <1>4, <1>5

\* It refuses.
LEMMA ForbidKeeps ==
  ASSUME ServiceInv, NEW r \in Requests, Forbid(r),
         UNCHANGED <<workerVars, pool, pipe, gone>>
  PROVE  ServiceInv'
<1> USE ServiceAssumption DEF ServiceInv, Forbid, At, OnLoop, Calls, Arrived, Answer, Await,
   Yield, Keep, workerVars, taskVars
<1>1. TypeOK'
  BY DEF Forbidden, TypeOK, NoJob, Operations, Control, OfTask, Locations, Codes
<1>2. EngineInv'
  BY DEF Forbidden, EngineInv, Codes, Locations, TypeOK
<1>3. PhaseInv'
  BY DEF Forbidden, PhaseInv, TypeOK
<1>4. RequestsInv'
  BY DEF Forbidden, RequestsInv, RequestOK, MayAct, Allowed, OfTask, Codes, Locations, NoJob,
     TypeOK
<1>5. PipeInv'
  BY DEF Forbidden, PipeInv, Piped, OfTask, Codes, Locations, NoJob, TypeOK
<1> QED
  BY <1>1, <1>2, <1>3, <1>4, <1>5

\* Tasks are sent.
LEMMA ReplyKeeps ==
  ASSUME ServiceInv, NEW r \in Requests, Reply(r),
         UNCHANGED <<workerVars, pool, pipe, gone>>
  PROVE  ServiceInv'
<1> USE ServiceAssumption DEF ServiceInv, Reply, At, OnLoop, Calls, Arrived, Answer, Await,
   Yield, Keep, workerVars, taskVars
<1>1. TypeOK'
  BY DEF TypeOK, NoJob, Operations, Control, OfTask, Locations, Codes
<1>2. EngineInv'
  BY DEF EngineInv, Codes, Locations, TypeOK
<1>3. PhaseInv'
  BY DEF PhaseInv, TypeOK
<1>4. RequestsInv'
  BY DEF RequestsInv, RequestOK, MayAct, Allowed, OfTask, Codes, Locations, NoJob, TypeOK
<1>5. PipeInv'
  BY DEF PipeInv, Piped, OfTask, Codes, Locations, NoJob, TypeOK
<1> QED
  BY <1>1, <1>2, <1>3, <1>4, <1>5

\* A request without a valid token.
LEMMA UnauthenticatedKeeps ==
  ASSUME ServiceInv, NEW r \in Requests, Unauthenticated(r),
         UNCHANGED <<workerVars, pool, pipe, gone>>
  PROVE  ServiceInv'
<1> USE ServiceAssumption DEF ServiceInv, Unauthenticated, At, OnLoop, Calls, Arrived,
   Answer, Await, Yield, Keep, workerVars, taskVars
<1>1. TypeOK'
  BY DEF TypeOK, NoJob, Operations, Control, OfTask, Locations, Codes
<1>2. EngineInv'
  BY DEF EngineInv, Codes, Locations, TypeOK
<1>3. PhaseInv'
  BY DEF PhaseInv, TypeOK
<1>4. RequestsInv'
  BY DEF RequestsInv, RequestOK, MayAct, Allowed, OfTask, Codes, Locations, NoJob, TypeOK
<1>5. PipeInv'
  BY DEF PipeInv, Piped, OfTask, Codes, Locations, NoJob, TypeOK
<1> QED
  BY <1>1, <1>2, <1>3, <1>4, <1>5

\* A request arrives.
LEMMA ArriveKeeps ==
  ASSUME ServiceInv, NEW r \in Requests, Arrive(r)
  PROVE  ServiceInv'
<1> USE ServiceAssumption DEF ServiceInv, Arrive, At, OnLoop, Calls, Arrived, Answer, Await,
   Yield, Keep, workerVars, taskVars
<1>1. TypeOK'
  BY DEF Creating, TypeOK, NoJob, Operations, Control, OfTask, Locations, Codes
<1>2. EngineInv'
  BY DEF Creating, EngineInv, Codes, Locations, TypeOK
<1>3. PhaseInv'
  BY DEF Creating, PhaseInv, TypeOK
<1>4. RequestsInv'
  BY DEF Creating, RequestsInv, RequestOK, MayAct, Allowed, OfTask, Codes, Locations, NoJob,
     TypeOK
<1>5. PipeInv'
  BY DEF Creating, PipeInv, Piped, OfTask, Codes, Locations, NoJob, TypeOK
<1> QED
  BY <1>1, <1>2, <1>3, <1>4, <1>5

\* get_tasks reads the tasks.
LEMMA GetTasksKeeps ==
  ASSUME ServiceInv, NEW r \in Requests, GetTasks(r)
  PROVE  ServiceInv'
<1> USE ServiceAssumption DEF ServiceInv, GetTasks, At, OnLoop, Calls, Arrived, Answer,
   Await, Yield, Keep, workerVars, taskVars
<1>1. TypeOK'
  BY DEF Known, TypeOK, NoJob, Operations, Control, OfTask, Locations, Codes
<1>2. EngineInv'
  BY DEF Known, EngineInv, Codes, Locations, TypeOK
<1>3. PhaseInv'
  BY DEF Known, PhaseInv, TypeOK
<1>4. RequestsInv'
  BY DEF Known, RequestsInv, RequestOK, MayAct, Allowed, OfTask, Codes, Locations, NoJob,
     TypeOK
<1>5. PipeInv'
  BY DEF Known, PipeInv, Piped, OfTask, Codes, Locations, NoJob, TypeOK
<1> QED
  BY <1>1, <1>2, <1>3, <1>4, <1>5

\* It filters them.
LEMMA ListTasksKeeps ==
  ASSUME ServiceInv, NEW r \in Requests, ListTasks(r)
  PROVE  ServiceInv'
<1> USE ServiceAssumption DEF ServiceInv, ListTasks, At, OnLoop, Calls, Arrived, Answer,
   Await, Yield, Keep, workerVars, taskVars
<1>1. TypeOK'
  BY DEF Listed, Allowed, TypeOK, NoJob, Operations, Control, OfTask, Locations, Codes
<1>2. EngineInv'
  BY DEF Listed, Allowed, EngineInv, Codes, Locations, TypeOK
<1>3. PhaseInv'
  BY DEF Listed, Allowed, PhaseInv, TypeOK
<1>4. RequestsInv'
  BY DEF Listed, Allowed, RequestsInv, RequestOK, MayAct, OfTask, Codes, Locations, NoJob,
     TypeOK
<1>5. PipeInv'
  BY DEF Listed, Allowed, PipeInv, Piped, OfTask, Codes, Locations, NoJob, TypeOK
<1> QED
  BY <1>1, <1>2, <1>3, <1>4, <1>5

\* get_task.
LEMMA GetTaskKeeps ==
  ASSUME ServiceInv, NEW r \in Requests, GetTask(r)
  PROVE  ServiceInv'
<1> USE ServiceAssumption DEF ServiceInv, GetTask, At, OnLoop, Calls, Arrived, Answer, Await,
   Yield, Keep, workerVars, taskVars
<1>1. TypeOK'
  <2> WorkerTypes /\ ServerTypes
    BY Halves
  <2>1. WorkerTypes'
    BY DEF Known, WorkerTypes
  <2>2. job' \in [Requests -> Jobs]
    BY DEF Known, ServerTypes, NoJob, Jobs, Operations
  <2>3. \E l \in Locations \cup Codes : MovesTo(r, l)
    BY DEF Known, MovesTo, LoopPlaces, ServerTypes, Locations, Codes, OfTask, Control
  <2>4. ServerTypes'
    BY <2>2, <2>3, MoveKeepsTypes
  <2> QED
    BY <2>1, <2>4 DEF TypeOK, WorkerTypes, ServerTypes, Jobs, LoopPlaces
<1>2. EngineInv'
  BY DEF Known, EngineInv, Codes, Locations, TypeOK
<1>3. PhaseInv'
  BY DEF Known, PhaseInv, TypeOK
<1>4. RequestsInv'
  BY DEF Known, RequestsInv, RequestOK, MayAct, Allowed, OfTask, Codes, Locations, NoJob,
     TypeOK
<1>5. PipeInv'
  BY DEF Known, PipeInv, Piped, OfTask, Codes, Locations, NoJob, TypeOK
<1> QED
  BY <1>1, <1>2, <1>3, <1>4, <1>5

\* delete_submitted_task.
LEMMA ClearTaskKeeps ==
  ASSUME ServiceInv, NEW r \in Requests, ClearTask(r)
  PROVE  ServiceInv'
<1> USE ServiceAssumption DEF ServiceInv, ClearTask, At, OnLoop, Calls, Arrived, Answer,
   Await, Yield, Keep, workerVars, taskVars
<1>1. TypeOK'
  <2> WorkerTypes /\ ServerTypes
    BY Halves
  <2>1. WorkerTypes'
    BY DEF Known, WorkerTypes
  <2>2. job' \in [Requests -> Jobs]
    BY DEF Known, ServerTypes, NoJob, Jobs, Operations
  <2>3. \E l \in Locations \cup Codes : MovesTo(r, l)
    BY DEF Known, MovesTo, LoopPlaces, ServerTypes, Locations, Codes, OfTask, Control
  <2>4. ServerTypes'
    BY <2>2, <2>3, MoveKeepsTypes
  <2> QED
    BY <2>1, <2>4 DEF TypeOK, WorkerTypes, ServerTypes, Jobs, LoopPlaces
<1>2. EngineInv'
  BY DEF Known, EngineInv, Codes, Locations, TypeOK
<1>3. PhaseInv'
  BY DEF Known, PhaseInv, TypeOK
<1>4. RequestsInv'
  <2>1. \A t \in Tasks : phase[t] # "absent" => phase'[t] # "absent"
    BY DEF TypeOK
  <2>2. \A u \in Users \cup {Anonymous}, t \in Tasks : Allowed(u, t)' = Allowed(u, t)
    BY DEF Allowed
  <2>3. \A q \in Requests \ {r} : pc'[q] = pc[q] /\ job'[q] = job[q]
    BY DEF TypeOK
  <2>4. pc'[r] \in Codes
    BY DEF TypeOK, Codes
  <2>5. \A q \in Requests :
          /\ job[q].user \in Users \cup {Anonymous} /\ job[q].seen \subseteq Tasks
          /\ job[q].task \in Tasks \cup {NoTask}
    BY DEF TypeOK
  <2> SUFFICES ASSUME NEW q \in Requests \ {r}
               PROVE  RequestOK(q)'
    BY <2>4 DEF RequestsInv, RequestOK, MayAct, Codes
  <2> QED
    BY <2>1, <2>2, <2>3, <2>5 DEF RequestsInv, RequestOK, MayAct
<1>5. PipeInv'
  BY DEF Known, PipeInv, Piped, OfTask, Codes, Locations, NoJob, TypeOK
<1> QED
  BY <1>1, <1>2, <1>3, <1>4, <1>5

\* begin_task.
LEMMA BeginTaskKeeps ==
  ASSUME ServiceInv, NEW r \in Requests, BeginTask(r)
  PROVE  ServiceInv'
<1> USE ServiceAssumption DEF ServiceInv, BeginTask, At, OnLoop, Calls, Arrived, Answer,
   Await, Yield, Keep, workerVars, taskVars
<1>1. TypeOK'
  <2> WorkerTypes /\ ServerTypes
    BY Halves
  <2>1. WorkerTypes'
    <3>1. job[r].task \in Tasks
      BY DEF RequestsInv, RequestOK, MayAct
    <3> QED
      BY <3>1 DEF Refused, WorkerTypes
  <2>2. job' \in [Requests -> Jobs]
    BY DEF Refused, ServerTypes, NoJob, Jobs, Operations
  <2>3. \E l \in Locations \cup Codes : MovesTo(r, l)
    BY DEF Refused, MovesTo, LoopPlaces, ServerTypes, Locations, Codes, OfTask, Control
  <2>4. ServerTypes'
    BY <2>2, <2>3, MoveKeepsTypes
  <2> QED
    BY <2>1, <2>4 DEF TypeOK, WorkerTypes, ServerTypes, Jobs, LoopPlaces
<1>2. EngineInv'
  BY DEF Refused, EngineInv, Codes, Locations, TypeOK
<1>3. PhaseInv'
  BY DEF Refused, PhaseInv, TypeOK
<1>4. RequestsInv'
  BY DEF Refused, RequestsInv, RequestOK, MayAct, Allowed, OfTask, Codes, Locations, NoJob,
     TypeOK
<1>5. PipeInv'
  BY DEF Refused, PipeInv, Piped, OfTask, Codes, Locations, NoJob, TypeOK
<1> QED
  BY <1>1, <1>2, <1>3, <1>4, <1>5

\* submit_task.
LEMMA SubmitTaskKeeps ==
  ASSUME ServiceInv, NEW r \in Requests, SubmitTask(r)
  PROVE  ServiceInv'
<1> USE ServiceAssumption DEF ServiceInv, SubmitTask, At, OnLoop, Calls, Arrived, Answer,
   Await, Yield, Keep, workerVars, taskVars
<1>1. TypeOK'
  <2> WorkerTypes /\ ServerTypes
    BY Halves
  <2>1. WorkerTypes'
    <3>1. job[r].user \in Users \cup {Anonymous}
      BY DEF ServerTypes, Jobs
    <3> QED
      BY <3>1 DEF WorkerTypes
  <2>2. job' \in [Requests -> Jobs]
    BY DEF ServerTypes, NoJob, Jobs, Operations
  <2>3. \E l \in Locations \cup Codes : MovesTo(r, l)
    BY DEF MovesTo, LoopPlaces, ServerTypes, Locations, Codes, OfTask, Control
  <2>4. ServerTypes'
    BY <2>2, <2>3, MoveKeepsTypes
  <2> QED
    BY <2>1, <2>4 DEF TypeOK, WorkerTypes, ServerTypes, Jobs, LoopPlaces
<1>2. EngineInv'
  BY DEF EngineInv, Codes, Locations, TypeOK
<1>3. PhaseInv'
  BY DEF PhaseInv, TypeOK
<1>4. RequestsInv'
  BY DEF RequestsInv, RequestOK, MayAct, Allowed, OfTask, Codes, Locations, NoJob, TypeOK
<1>5. PipeInv'
  BY DEF PipeInv, Piped, OfTask, Codes, Locations, NoJob, TypeOK
<1> QED
  BY <1>1, <1>2, <1>3, <1>4, <1>5

\* run_plan sends an event.
LEMMA ForwardEventKeeps ==
  ASSUME ServiceInv, NEW r \in Requests, ForwardEvent(r)
  PROVE  ServiceInv'
<1> USE ServiceAssumption DEF ServiceInv, ForwardEvent, At, OnLoop, Calls, Arrived, Answer,
   Await, Yield, Keep, workerVars, taskVars
<1>1. TypeOK'
  <2> WorkerTypes /\ ServerTypes
    BY Halves
  <2>1. WorkerTypes'
    BY DEF IsComplete, WorkerTypes
  <2>2. job' \in [Requests -> Jobs]
    BY DEF IsComplete, ServerTypes, NoJob, Jobs, Operations
  <2>3. \E l \in Locations \cup Codes : MovesTo(r, l)
    BY DEF IsComplete, MovesTo, LoopPlaces, ServerTypes, Locations, Codes, OfTask, Control
  <2>4. ServerTypes'
    BY <2>2, <2>3, MoveKeepsTypes
  <2> QED
    BY <2>1, <2>4 DEF TypeOK, WorkerTypes, ServerTypes, Jobs, LoopPlaces
<1>2. EngineInv'
  BY DEF IsComplete, EngineInv, Codes, Locations, TypeOK
<1>3. PhaseInv'
  BY DEF IsComplete, PhaseInv, TypeOK
<1>4. RequestsInv'
  BY DEF IsComplete, RequestsInv, RequestOK, MayAct, Allowed, OfTask, Codes, Locations,
     NoJob, TypeOK
<1>5. PipeInv'
  BY DEF IsComplete, PipeInv, Piped, OfTask, Codes, Locations, NoJob, TypeOK
<1> QED
  BY <1>1, <1>2, <1>3, <1>4, <1>5

\* A client disconnects.
LEMMA ClientLeavesKeeps ==
  ASSUME ServiceInv, NEW r \in Requests, ClientLeaves(r)
  PROVE  ServiceInv'
<1> USE ServiceAssumption DEF ServiceInv, ClientLeaves, At, OnLoop, Calls, Arrived, Answer,
   Await, Yield, Keep, workerVars, taskVars
<1>1. TypeOK'
  BY DEF TypeOK, NoJob, Operations, Control, OfTask, Locations, Codes
<1>2. EngineInv'
  BY DEF EngineInv, Codes, Locations, TypeOK
<1>3. PhaseInv'
  BY DEF PhaseInv, TypeOK
<1>4. RequestsInv'
  BY DEF RequestsInv, RequestOK, MayAct, Allowed, OfTask, Codes, Locations, NoJob, TypeOK
<1>5. PipeInv'
  BY DEF PipeInv, Piped, OfTask, Codes, Locations, NoJob, TypeOK
<1> QED
  BY <1>1, <1>2, <1>3, <1>4, <1>5

\* set_state reads the active task.
LEMMA ReadActiveKeeps ==
  ASSUME ServiceInv, NEW r \in Requests, ReadActive(r)
  PROVE  ServiceInv'
<1> USE ServiceAssumption DEF ServiceInv, ReadActive, At, OnLoop, Calls, Arrived, Answer,
   Await, Yield, Keep, workerVars, taskVars
<1>1. TypeOK'
  <2>1. job' \in [Requests -> [op: Operations, user: Users \cup {Anonymous},
                              task: Tasks \cup {NoTask}, seen: SUBSET Tasks]]
    <3>1. {current} \ {NoTask} \subseteq Tasks
      BY DEF TypeOK
    <3> QED
      BY <3>1 DEF TypeOK
  <2>2. pc' \in [Requests -> Locations \cup Codes]
    BY DEF TypeOK, Locations
  <2> QED
    BY <2>1, <2>2 DEF TypeOK
<1>2. EngineInv'
  BY DEF EngineInv, Codes, Locations, TypeOK
<1>3. PhaseInv'
  BY DEF PhaseInv, TypeOK
<1>4. RequestsInv'
  BY DEF RequestsInv, RequestOK, MayAct, Allowed, OfTask, Codes, Locations, NoJob, TypeOK
<1>5. PipeInv'
  BY DEF PipeInv, Piped, OfTask, Codes, Locations, NoJob, TypeOK
<1> QED
  BY <1>1, <1>2, <1>3, <1>4, <1>5

\* It pauses.
LEMMA PauseKeeps ==
  ASSUME ServiceInv, NEW r \in Requests, Pause(r)
  PROVE  ServiceInv'
<1> USE ServiceAssumption DEF ServiceInv, Pause, At, OnLoop, Calls, Arrived, Answer, Await,
   Yield, Keep, workerVars, taskVars
<1>1. TypeOK'
  BY DEF Acts, OnStateChange, Published, TypeOK, NoJob, Operations, Control, OfTask,
     Locations, Codes
<1>2. EngineInv'
  BY DEF Acts, OnStateChange, Published, EngineInv, Codes, Locations, TypeOK
<1>3. PhaseInv'
  BY DEF Acts, OnStateChange, Published, PhaseInv, TypeOK
<1>4. RequestsInv'
  BY DEF Acts, OnStateChange, Published, RequestsInv, RequestOK, MayAct, Allowed, OfTask,
     Codes, Locations, NoJob, TypeOK
<1>5. PipeInv'
  BY DEF Acts, OnStateChange, Published, PipeInv, Piped, OfTask, Codes, Locations, NoJob,
     TypeOK
<1> QED
  BY <1>1, <1>2, <1>3, <1>4, <1>5

\* It resumes.
LEMMA ResumeKeeps ==
  ASSUME ServiceInv, NEW r \in Requests, Resume(r)
  PROVE  ServiceInv'
<1> USE ServiceAssumption DEF ServiceInv, Resume, At, OnLoop, Calls, Arrived, Answer, Await,
   Yield, Keep, workerVars, taskVars
<1>1. TypeOK'
  <2> WorkerTypes /\ ServerTypes
    BY Halves
  <2>1. WorkerTypes'
    BY DEF Acts, OnStateChange, Published, Occupy, WorkerTypes
  <2>2. job' \in [Requests -> Jobs]
    BY DEF Acts, OnStateChange, Published, Occupy, ServerTypes, NoJob, Jobs, Operations
  <2>3. \E l \in Locations \cup Codes : MovesTo(r, l)
    BY DEF Acts, OnStateChange, Published, Occupy, MovesTo, LoopPlaces, ServerTypes,
       Locations, Codes, OfTask, Control
  <2>4. ServerTypes'
    BY <2>2, <2>3, MoveKeepsTypes
  <2> QED
    BY <2>1, <2>4 DEF TypeOK, WorkerTypes, ServerTypes, Jobs, LoopPlaces
<1>2. EngineInv'
  BY DEF Acts, OnStateChange, Published, Occupy, EngineInv, Codes, Locations, TypeOK
<1>3. PhaseInv'
  BY DEF Acts, OnStateChange, Published, Occupy, PhaseInv, TypeOK
<1>4. RequestsInv'
  BY DEF Acts, OnStateChange, Published, Occupy, RequestsInv, RequestOK, MayAct, Allowed,
     OfTask, Codes, Locations, NoJob, TypeOK
<1>5. PipeInv'
  BY DEF Acts, OnStateChange, Published, Occupy, PipeInv, Piped, OfTask, Codes, Locations,
     NoJob, TypeOK
<1> QED
  BY <1>1, <1>2, <1>3, <1>4, <1>5

\* It cancels.
LEMMA CancelKeeps ==
  ASSUME ServiceInv, NEW r \in Requests, Cancel(r)
  PROVE  ServiceInv'
<1> USE ServiceAssumption DEF ServiceInv, Cancel, At, OnLoop, Calls, Arrived, Answer, Await,
   Yield, Keep, workerVars, taskVars
<1>1. TypeOK'
  <2> WorkerTypes /\ ServerTypes
    BY Halves
  <2>1. WorkerTypes'
    BY DEF Acts, OnStateChange, Published, Occupy, WorkerTypes
  <2>2. job' \in [Requests -> Jobs]
    BY DEF Acts, OnStateChange, Published, Occupy, ServerTypes, NoJob, Jobs, Operations
  <2>3. \E l \in Locations \cup Codes : MovesTo(r, l)
    BY DEF Acts, OnStateChange, Published, Occupy, MovesTo, LoopPlaces, ServerTypes,
       Locations, Codes, OfTask, Control
  <2>4. ServerTypes'
    BY <2>2, <2>3, MoveKeepsTypes
  <2> QED
    BY <2>1, <2>4 DEF TypeOK, WorkerTypes, ServerTypes, Jobs, LoopPlaces
<1>2. EngineInv'
  BY DEF Acts, OnStateChange, Published, Occupy, EngineInv, Codes, Locations, TypeOK
<1>3. PhaseInv'
  BY DEF Acts, OnStateChange, Published, Occupy, PhaseInv, TypeOK
<1>4. RequestsInv'
  BY DEF Acts, OnStateChange, Published, Occupy, RequestsInv, RequestOK, MayAct, Allowed,
     OfTask, Codes, Locations, NoJob, TypeOK
<1>5. PipeInv'
  BY DEF Acts, OnStateChange, Published, Occupy, PipeInv, Piped, OfTask, Codes, Locations,
     NoJob, TypeOK
<1> QED
  BY <1>1, <1>2, <1>3, <1>4, <1>5

\* _cycle takes the task.
LEMMA TakeTaskKeeps ==
  ASSUME ServiceInv, TakeTask
  PROVE  ServiceInv'
<1> USE ServiceAssumption DEF ServiceInv, TakeTask, At, OnLoop, Calls, Arrived, Answer,
   Await, Yield, Keep, workerVars, taskVars
<1>0. PICK t \in channel, r \in Requests :
        /\ r = pool /\ current' = t
        /\ phase' = [phase EXCEPT ![t] = IF @ = "pending" THEN "running" ELSE @]
        /\ state' = "RUNNING"
        /\ pipe' = Published(t, t \in ended)
        /\ announced' = announced \cup ({t} \cap ended)
        /\ \/ pc' = [pc EXCEPT ![r] = "200"] /\ job' = [job EXCEPT ![r] = NoJob]
           \/ pc' = [pc EXCEPT ![r] = "stream"] /\ UNCHANGED job
        /\ loop' = IF loop = r THEN NoRequest ELSE loop
        /\ channel' = {} /\ pool' = NoRequest /\ thread' = "engine" /\ thread = "ready"
        /\ UNCHANGED <<owner, ended, gone>>
  OBVIOUS
<1>1. TypeOK'
  <2> WorkerTypes /\ ServerTypes
    BY Halves
  <2>1. WorkerTypes'
    BY <1>0 DEF Published, WorkerTypes
  <2>2. job' \in [Requests -> Jobs]
    BY <1>0 DEF ServerTypes, NoJob, Jobs, Operations
  <2>3. \E l \in Locations \cup Codes : MovesTo(r, l)
    BY <1>0 DEF MovesTo, Locations, Codes
  <2>4. ServerTypes'
    BY <2>2, <2>3, MoveKeepsTypes
  <2> QED
    BY <2>1, <2>4 DEF TypeOK, WorkerTypes, ServerTypes, Jobs, LoopPlaces
<1>2. EngineInv'
  <2>1. pc[r] = "starting" /\ \A q \in Requests \ {r} : pc[q] \notin {"starting", "resuming"}
    BY <1>0 DEF EngineInv
  <2>2. \A q \in Requests : pc'[q] \notin {"starting", "resuming"}
    BY <1>0, <2>1 DEF TypeOK
  <2> QED
    BY <1>0, <2>2 DEF EngineInv
<1>3. PhaseInv'
  BY <1>0 DEF Published, PhaseInv, TypeOK, EngineInv, RequestsInv, RequestOK, MayAct
<1>4. RequestsInv'
  BY <1>0 DEF Published, RequestsInv, RequestOK, MayAct, Allowed, OfTask, Codes, Locations,
     NoJob, TypeOK, EngineInv
<1>5. PipeInv'
  BY <1>0 DEF Published, PipeInv, Piped, OfTask, Codes, Locations, NoJob, TypeOK, EngineInv,
     RequestsInv, RequestOK, MayAct
<1> QED
  BY <1>1, <1>2, <1>3, <1>4, <1>5

\* The plan is over or paused.
LEMMA PlanStopsKeeps ==
  ASSUME ServiceInv, PlanStops
  PROVE  ServiceInv'
<1> USE ServiceAssumption DEF ServiceInv, PlanStops, At, OnLoop, Calls, Arrived, Answer,
   Await, Yield, Keep, workerVars, taskVars
<1>1. TypeOK'
  <2> WorkerTypes /\ ServerTypes
    BY Halves
  <2>1. WorkerTypes'
    BY DEF OnStateChange, Published, WorkerTypes
  <2>2. CASE UNCHANGED <<pool, loop, pc, job>>
    BY <2>1, <2>2 DEF TypeOK, WorkerTypes
  <2>3. ASSUME NEW r \in Requests, pc[r] = "resuming", r = pool, pool' = NoRequest,
               NEW c \in {"lost", "500", "202"}, Answer(r, c)
        PROVE  TypeOK'
    <3>1. job' \in [Requests -> Jobs]
      BY <2>3 DEF ServerTypes, NoJob, Jobs, Operations
    <3>2. MovesTo(r, c) /\ c \in Locations \cup Codes
      BY <2>3 DEF MovesTo, Codes
    <3>3. ServerTypes'
      BY <3>1, <3>2, MoveKeepsTypes
    <3> QED
      BY <2>1, <3>3 DEF TypeOK, WorkerTypes, ServerTypes, Jobs, LoopPlaces
  <2> QED
    BY <2>2, <2>3
<1>2. EngineInv'
  BY DEF OnStateChange, Published, EngineInv, Codes, Locations, TypeOK
<1>3. PhaseInv'
  BY DEF OnStateChange, Published, PhaseInv, TypeOK, EngineInv
<1>4. RequestsInv'
  BY DEF OnStateChange, Published, RequestsInv, RequestOK, MayAct, Allowed, OfTask, Codes,
     Locations, NoJob, TypeOK
<1>5. PipeInv'
  BY DEF OnStateChange, Published, PipeInv, Piped, OfTask, Codes, Locations, NoJob, TypeOK
<1> QED
  BY <1>1, <1>2, <1>3, <1>4, <1>5

\* The end of _cycle.
LEMMA CycleEndKeeps ==
  ASSUME ServiceInv, CycleEnd
  PROVE  ServiceInv'
<1> USE ServiceAssumption DEF ServiceInv, CycleEnd, At, OnLoop, Calls, Arrived, Answer,
   Await, Yield, Keep, workerVars, taskVars
<1>1. TypeOK'
  <2>1. current \in Tasks
    BY DEF PhaseInv
  <2> QED
    BY <2>1 DEF TypeOK, Locations, Codes
<1>2. EngineInv'
  BY DEF EngineInv, Codes, Locations, TypeOK
<1>3. PhaseInv'
  BY DEF PhaseInv, TypeOK
<1>4. RequestsInv'
  BY DEF RequestsInv, RequestOK, MayAct, Allowed, OfTask, Codes, Locations, NoJob, TypeOK
<1>5. PipeInv'
  BY DEF PipeInv, Piped, OfTask, Codes, Locations, NoJob, TypeOK
<1> QED
  BY <1>1, <1>2, <1>3, <1>4, <1>5

\* The completion is published.
LEMMA ReportStatusKeeps ==
  ASSUME ServiceInv, ReportStatus
  PROVE  ServiceInv'
<1> USE ServiceAssumption DEF ServiceInv, ReportStatus, At, OnLoop, Calls, Arrived, Answer,
   Await, Yield, Keep, workerVars, taskVars
<1>1. TypeOK'
  <2>1. current \in Tasks
    BY DEF PhaseInv
  <2> QED
    BY <2>1 DEF TypeOK, Reported, Published
<1>2. EngineInv'
  BY DEF Reported, Published, EngineInv, Codes, Locations, TypeOK
<1>3. PhaseInv'
  BY DEF Reported, Published, PhaseInv, TypeOK
<1>4. RequestsInv'
  BY DEF Reported, Published, RequestsInv, RequestOK, MayAct, Allowed, OfTask, Codes,
     Locations, NoJob, TypeOK
<1>5. PipeInv'
  BY DEF Reported, Published, PipeInv, Piped, OfTask, Codes, Locations, NoJob, TypeOK
<1> QED
  BY <1>1, <1>2, <1>3, <1>4, <1>5

-----------------------------------------------------------------------------
(* All steps.                                                              *)

LEMMA DecidesKeeps ==
  ASSUME ServiceInv, NEW r \in Requests, Decides(r), UNCHANGED <<workerVars, pool, pipe, gone>>
  PROVE  ServiceInv'
BY HealthProbeKeeps, LookKeeps, AccessTaskKeeps, AccessDecidedKeeps, CheckActiveKeeps,
   SubmitPermissionKeeps, RefuseOriginKeeps, AcceptWebsocketKeeps, SubmitRefusedKeeps,
   DisconnectedKeeps, SetStateKeeps, ForbidKeeps, ReplyKeeps DEF Decides

\* A step preserves the invariant.
LEMMA ServiceInductive == ServiceInv /\ [Next]_vars => ServiceInv'
<1> SUFFICES ASSUME ServiceInv, [Next]_vars
             PROVE  ServiceInv'
  OBVIOUS
<1>1. CASE UNCHANGED vars
  BY <1>1 DEF vars, workerVars, ServiceInv, TypeOK, EngineInv, PhaseInv, RequestsInv,
     RequestOK,
              MayAct, Allowed, PipeInv, Piped
<1>2. ASSUME NEW r \in Requests, Clients(r) \/ Serve(r)
      PROVE  ServiceInv'
  BY <1>2, DecidesKeeps, UnauthenticatedKeeps, ArriveKeeps, GetTasksKeeps, ListTasksKeeps,
     GetTaskKeeps, ClearTaskKeeps, BeginTaskKeeps, SubmitTaskKeeps, ForwardEventKeeps,
     ClientLeavesKeeps, ReadActiveKeeps, PauseKeeps, ResumeKeeps, CancelKeeps DEF Clients, Serve
<1>3. CASE WorkerThread \/ PlanStops
  BY <1>3, TakeTaskKeeps, PlanStopsKeeps, CycleEndKeeps, ReportStatusKeeps DEF WorkerThread
<1> QED
  BY <1>1, <1>2, <1>3 DEF Next

\* The invariant of the service.
THEOREM ServiceInvariant == Spec => []ServiceInv
<1>1. ASSUME Init
      PROVE  ServiceInv
  <2> USE <1>1, ServiceAssumption DEF Init
  <2>1. TypeOK
    <3>1. NoJob \in [op: Operations, user: Users \cup {Anonymous}, task: Tasks \cup {NoTask},
                     seen: SUBSET Tasks]
      BY DEF NoJob, Operations
    <3> QED
      BY <3>1 DEF TypeOK, Codes
  <2>2. EngineInv /\ PhaseInv /\ RequestsInv /\ PipeInv
    BY DEF EngineInv, PhaseInv, RequestsInv, RequestOK, PipeInv, Piped
  <2> QED
    BY <2>1, <2>2 DEF ServiceInv
<1> QED
  BY <1>1, ServiceInductive, PTL DEF Spec

\* service/main.py: requests, the worker and its tasks are of the kind the code
\* expects, and whoever keeps the event loop or the subprocess is in a call.
THEOREM ServiceTypes == Spec => []TypeOK
<1>1. ServiceInv => TypeOK
  BY DEF ServiceInv
<1> QED
  BY <1>1, ServiceInvariant, PTL

\* get_tasks and access_task_permission: nobody is shown another user's task,
\* whatever happens between reading the tasks and the answer of OPA.
THEOREM OwnTasksShown == Spec => []OnlyOwnTasksShown
<1>1. ServiceInv => OnlyOwnTasksShown
  BY DEF ServiceInv, RequestsInv, RequestOK, OnlyOwnTasksShown, Entitled, Allowed
<1> QED
  BY <1>1, ServiceInvariant, PTL

\* set_active_task, run_plan and begin_task: the worker never has a second task.
THEOREM WorkerHasOneTask == Spec => []OneTaskAtATime
<1>1. ServiceInv => OneTaskAtATime
  BY ServiceAssumption DEF ServiceInv, TypeOK, EngineInv, OneTaskAtATime
<1> QED
  BY <1>1, ServiceInvariant, PTL

-----------------------------------------------------------------------------
(* Nobody is forgotten: a wait is kept by what will end it.                *)

\* A websocket whose task is complete has the completion in its pipe, or the worker is
\* about to publish it; one that streams has a task that was taken; and a plan that was
\* resumed by a call is not over while the call lasts.
ToldInv ==
  \A r \in Requests :
    /\ r \in Piped /\ phase[job[r].task] = "complete" =>
         "complete" \in pipe[r] \/ (thread = "report" /\ current = job[r].task)
    /\ pc[r] = "stream" => phase[job[r].task] \notin {"absent", "pending"}
    /\ pc[r] = "resuming" => state \in {"RUNNING", "PAUSING", "CANCELLING"}

\* What only moves r, to no place where it waits, and completes no task.
LEMMA OthersAreTold ==
  ASSUME ServiceInv, ToldInv, NEW r \in Requests, UNCHANGED <<current, thread, state>>,
         \A q \in Requests \ {r} : pc'[q] = pc[q] /\ job'[q] = job[q] /\ pipe'[q] = pipe[q],
         \A t \in Tasks :
           /\ phase'[t] = "complete" => phase[t] = "complete"
           /\ phase'[t] \in {"absent", "pending"} => phase[t] \in {"absent", "pending"},
         r \in Piped' =>
           /\ job'[r].task \in Tasks
           /\ \/ phase'[job'[r].task] # "complete"
              \/ /\ r \in Piped /\ job'[r].task = job[r].task
                 /\ "complete" \in pipe[r] => "complete" \in pipe'[r],
         pc'[r] = "stream" => pc[r] = "stream" /\ job'[r].task = job[r].task,
         pc'[r] # "resuming"
  PROVE  ToldInv'
<1> SUFFICES ASSUME NEW q \in Requests
             PROVE  /\ q \in Piped' /\ phase'[job'[q].task] = "complete" =>
                         \/ "complete" \in pipe'[q]
                         \/ thread' = "report" /\ current' = job'[q].task
                    /\ pc'[q] = "stream" => phase'[job'[q].task] \notin {"absent", "pending"}
                    /\ pc'[q] = "resuming" => state' \in {"RUNNING", "PAUSING", "CANCELLING"}
  BY DEF ToldInv
<1>1. CASE q = r
  BY <1>1 DEF ToldInv, Piped, ServiceInv, RequestsInv, RequestOK, MayAct
<1>2. CASE q # r
  <2>1. q \in Piped \/ pc[q] = "stream" => job[q].task \in Tasks
    BY DEF Piped, ServiceInv, RequestsInv, RequestOK, MayAct
  <2>2. q \in Piped' <=> q \in Piped
    BY <1>2 DEF Piped
  <2> QED
    BY <1>2, <2>1, <2>2 DEF ToldInv
<1> QED
  BY <1>1, <1>2

\* The steps that decide how a request goes on, and those that only read.
LEMMA DecidesTold ==
  ASSUME ServiceInv, ToldInv, NEW r \in Requests,
         \/ Decides(r) /\ UNCHANGED <<workerVars, pool, pipe, gone>>
         \/ GetTasks(r) \/ ListTasks(r) \/ GetTask(r) \/ BeginTask(r) \/ ReadActive(r)
         \/ Arrive(r) \/ ClientLeaves(r)
         \/ Unauthenticated(r) /\ UNCHANGED <<workerVars, pool, pipe, gone>>
  PROVE  ToldInv'
<1> DEFINE ends == Codes \cup {"arrive", "admin", "thread", "reply", "admitted", "active",
                               "decide", "leaving"}
<1>1. /\ UNCHANGED <<current, thread, state, phase>>
      /\ pipe' = pipe \/ \E s : pipe' = [pipe EXCEPT ![r] = s] /\ pc' = [pc EXCEPT ![r] = "arrive"]
  BY DEF Decides, HealthProbe, Look, AccessTask, AccessDecided, CheckActive, SubmitPermission,
     RefuseOrigin, AcceptWebsocket, SubmitRefused, Disconnected, SetState, Forbid, Reply,
     GetTasks, ListTasks, GetTask, BeginTask, ReadActive, Arrive, ClientLeaves,
     Unauthenticated, workerVars
<1>2. /\ pc' = pc \/ \E l : pc' = [pc EXCEPT ![r] = l]
      /\ job' = job \/ \E j : job' = [job EXCEPT ![r] = j]
  BY DEF Decides, HealthProbe, Look, AccessTask, AccessDecided, CheckActive, SubmitPermission,
     RefuseOrigin, AcceptWebsocket, SubmitRefused, Disconnected, SetState, Forbid, Reply,
     GetTasks, ListTasks, GetTask, BeginTask, ReadActive, Arrive, ClientLeaves,
     Unauthenticated, Answer, Await, Yield, Keep
<1>3. \/ pc'[r] \in ends
      \/ pc'[r] = "begin" /\ pc[r] \in {"check", "thread"} /\ UNCHANGED job
      \/ pc'[r] = "starting" /\ pc[r] = "begin" /\ UNCHANGED job
      \/ UNCHANGED <<pc, job>>
  BY DEF Decides, HealthProbe, Look, AccessTask, AccessDecided, CheckActive, SubmitPermission,
     RefuseOrigin, AcceptWebsocket, SubmitRefused, Disconnected, SetState, Forbid, Reply,
     GetTasks, ListTasks, GetTask, BeginTask, ReadActive, Arrive, ClientLeaves,
     Unauthenticated, Answer, Await, Yield, Keep, At, Arrived, Codes, ServiceInv, TypeOK
<1>4. /\ \A q \in Requests \ {r} : pc'[q] = pc[q] /\ job'[q] = job[q] /\ pipe'[q] = pipe[q]
      /\ pc'[r] # "arrive" => pipe' = pipe
  BY <1>1, <1>2 DEF ServiceInv, TypeOK
<1>5. pc'[r] # "resuming"
  <2>1. ~ (pc[r] = "resuming" /\ UNCHANGED pc)
    BY DEF Decides, HealthProbe, Look, AccessTask, AccessDecided, CheckActive, SubmitPermission,
     RefuseOrigin, AcceptWebsocket, SubmitRefused, Disconnected, SetState, Forbid, Reply,
     GetTasks, ListTasks, GetTask, BeginTask, ReadActive, Arrive, ClientLeaves,
     Unauthenticated, Answer, Await, Yield, Keep, At, Arrived, Codes, ServiceInv, TypeOK
  <2> QED
    BY <1>3, <2>1 DEF Codes
<1>6. r \in Piped' => /\ r \in Piped /\ job'[r].task = job[r].task /\ job[r].task \in Tasks
                      /\ pipe' = pipe
  BY <1>3, <1>4 DEF Piped, Codes, OfTask, ServiceInv, RequestsInv, RequestOK, MayAct
<1>7. pc'[r] = "stream" => pc[r] = "stream" /\ job'[r].task = job[r].task
  BY <1>3 DEF Codes
<1> QED
  BY <1>1, <1>4, <1>5, <1>6, <1>7, OthersAreTold DEF ToldInv

\* A task is removed, created, or one of its events sent.
LEMMA ChangesTold ==
  ASSUME ServiceInv, ToldInv, NEW r \in Requests,
         ClearTask(r) \/ SubmitTask(r) \/ ForwardEvent(r)
  PROVE  ToldInv'
<1> USE DEF Answer, Await, Yield, Keep, At
<1>1. CASE ClearTask(r)
  <2>1. /\ UNCHANGED <<current, thread, state, pipe>>
        /\ \E c \in Codes : pc' = [pc EXCEPT ![r] = c]
        /\ job' = [job EXCEPT ![r] = NoJob]
        /\ phase' = phase \/ phase' = [phase EXCEPT ![job[r].task] = "dropped"]
    BY <1>1 DEF ClearTask, Codes
  <2>2. r \notin Piped' /\ pc'[r] \notin {"stream", "resuming"}
    BY <2>1 DEF Piped, Codes, ServiceInv, TypeOK
  <2> QED
    BY <2>1, <2>2, OthersAreTold DEF ServiceInv, TypeOK
<1>2. CASE SubmitTask(r)
  <2>1. PICK t \in Tasks :
          /\ phase[t] = "absent" /\ phase' = [phase EXCEPT ![t] = "pending"]
          /\ \/ pc' = [pc EXCEPT ![r] = "201"] /\ job' = [job EXCEPT ![r] = NoJob]
             \/ pc' = [pc EXCEPT ![r] = "check"] /\ job' = [job EXCEPT ![r].task = t]
          /\ UNCHANGED <<current, thread, state, pipe>>
    BY <1>2 DEF SubmitTask
  <2>2. r \in Piped' => job'[r].task = t
    BY <2>1 DEF Piped, ServiceInv, TypeOK
  <2>3. phase'[t] = "pending"
    BY <2>1 DEF ServiceInv, TypeOK
  <2> QED
    BY <2>1, <2>2, <2>3, OthersAreTold DEF ServiceInv, TypeOK
<1>3. CASE ForwardEvent(r)
  <2>1. PICK e \in pipe[r] :
          /\ pipe' = [pipe EXCEPT ![r] = @ \ {e}]
          /\ \/ e = "complete" /\ pc' = [pc EXCEPT ![r] = "1000"] /\ job' = [job EXCEPT ![r] = NoJob]
             \/ e # "complete" /\ pc' = [pc EXCEPT ![r] = "stream"] /\ UNCHANGED job
          /\ pc[r] = "stream" /\ UNCHANGED <<phase, current, thread, state>>
    BY <1>3 DEF ForwardEvent, IsComplete, workerVars
  <2>2. r \in Piped' => /\ job' = job /\ r \in Piped /\ job[r].task \in Tasks
                        /\ "complete" \in pipe[r] => "complete" \in pipe'[r]
    BY <2>1 DEF Piped, ServiceInv, TypeOK, RequestsInv, RequestOK, MayAct
  <2>3. pc'[r] = "stream" => job' = job
    BY <2>1 DEF ServiceInv, TypeOK
  <2>4. pc'[r] # "resuming"
    BY <2>1 DEF ServiceInv, TypeOK
  <2> QED
    BY <2>1, <2>2, <2>3, <2>4, OthersAreTold DEF ServiceInv, TypeOK
<1> QED
  BY <1>1, <1>2, <1>3

\* set_state: a call that resumes a plan has it run, and nobody else is in such a call.
LEMMA ControlTold ==
  ASSUME ServiceInv, ToldInv, NEW r \in Requests, Pause(r) \/ Resume(r) \/ Cancel(r)
  PROVE  ToldInv'
<1>1. /\ UNCHANGED <<phase, current, thread>> /\ pool = NoRequest
      /\ pc[r] \in {"decide", "leaving"}
  BY DEF Pause, Resume, Cancel, Acts, At, Calls, taskVars
<1>2. \A q \in Requests : pc[q] # "resuming"
  BY <1>1, ServiceAssumption DEF ServiceInv, EngineInv
<1>3. \/ \E c \in Codes : pc' = [pc EXCEPT ![r] = c] /\ job' = [job EXCEPT ![r] = NoJob]
      \/ /\ pc' = [pc EXCEPT ![r] = "resuming"] /\ UNCHANGED job
         /\ state' \in {"RUNNING", "CANCELLING"}
  BY DEF Pause, Resume, Cancel, Acts, At, OnStateChange, Occupy, Answer, Yield, Keep, Codes
<1>4. pipe' = pipe \/ pipe' = Published(current, current \in ended)
  BY DEF Pause, Resume, Cancel, OnStateChange
<1>5. \A q \in Requests : "complete" \in pipe[q] => "complete" \in pipe'[q]
  BY <1>4 DEF Published
<1>6. \A q \in Requests \ {r} : pc'[q] = pc[q] /\ job'[q] = job[q]
  BY <1>3 DEF ServiceInv, TypeOK
<1>7. /\ pc'[r] \in Codes \cup {"resuming"}
      /\ pc'[r] = "resuming" => state' \in {"RUNNING", "CANCELLING"}
  BY <1>3 DEF ServiceInv, TypeOK, Codes
<1>8. \A q \in Requests : q \in Piped' => q # r /\ q \in Piped /\ job'[q] = job[q]
  BY <1>6, <1>7 DEF Piped, Codes
<1> QED
  BY <1>1, <1>2, <1>5, <1>6, <1>7, <1>8 DEF ToldInv, Codes

\* The worker takes a task: the call of begin_task that waited for that is answered.
LEMMA TakeTaskTold ==
  ASSUME ServiceInv, ToldInv, TakeTask
  PROVE  ToldInv'
<1>1. PICK t \in channel, r \in Requests :
        /\ r = pool /\ thread = "ready"
        /\ phase' = [phase EXCEPT ![t] = IF @ = "pending" THEN "running" ELSE @]
        /\ pipe' = Published(t, t \in ended)
        /\ \/ pc' = [pc EXCEPT ![r] = "200"] /\ job' = [job EXCEPT ![r] = NoJob]
           \/ pc' = [pc EXCEPT ![r] = "stream"] /\ UNCHANGED job
  BY DEF TakeTask, Answer, Await, Yield
<1>2. /\ pc[r] = "starting" /\ t = job[r].task /\ t \in Tasks /\ phase[t] # "absent"
      /\ \A q \in Requests : pc[q] # "resuming"
  BY <1>1 DEF ServiceInv, EngineInv, RequestsInv, RequestOK, MayAct
<1>3. \A q \in Requests : "complete" \in pipe[q] => "complete" \in pipe'[q]
  BY <1>1 DEF Published
<1>4. /\ \A q \in Requests \ {r} : pc'[q] = pc[q] /\ job'[q] = job[q]
      /\ pc'[r] \in {"200", "stream"} /\ (pc'[r] = "stream" => job'[r] = job[r])
  BY <1>1 DEF ServiceInv, TypeOK
<1>5. \A x \in Tasks : /\ phase'[x] = "complete" => phase[x] = "complete"
                       /\ phase'[x] \in {"absent", "pending"} => phase'[x] = phase[x] /\ x # t
  BY <1>1, <1>2 DEF ServiceInv, TypeOK
<1>6. \A q \in Requests : q \in Piped' => q \in Piped /\ job'[q] = job[q]
  <2>1. r \in Piped' => r \in Piped /\ job'[r] = job[r]
    BY <1>2, <1>4 DEF Piped
  <2> QED
    BY <1>4, <2>1 DEF Piped
<1>7. \A q \in Piped : job[q].task \in Tasks
  BY DEF Piped, ServiceInv, RequestsInv, RequestOK, MayAct
<1>8. \A q \in Requests : pc'[q] = "stream" =>
        job'[q] = job[q] /\ job[q].task \in Tasks
        /\ (pc[q] = "stream" \/ job[q].task = t)
  BY <1>2, <1>4 DEF ServiceInv, RequestsInv, RequestOK, MayAct
<1>9. \A q \in Requests : pc'[q] # "resuming"
  BY <1>2, <1>4
<1> QED
  BY <1>1, <1>3, <1>5, <1>6, <1>7, <1>8, <1>9 DEF ToldInv

\* The plan stops, and with it the call that resumed it.
LEMMA PlanStopsTold ==
  ASSUME ServiceInv, ToldInv, PlanStops
  PROVE  ToldInv'
<1>1. /\ UNCHANGED <<phase, current>> /\ pipe' = Published(current, current \in ended)
      /\ thread = "report" => thread' = "report"
  BY DEF PlanStops, OnStateChange
<1>2. \A q \in Requests : "complete" \in pipe[q] => "complete" \in pipe'[q]
  BY <1>1 DEF Published
<1>3. \A q \in Requests : /\ pc'[q] \in Codes \/ (pc'[q] = pc[q] /\ job'[q] = job[q])
                          /\ pc'[q] # "resuming"
  <2>1. CASE thread = "engine" /\ UNCHANGED <<pc, job>>
    BY <2>1 DEF ServiceInv, EngineInv
  <2>2. ASSUME NEW r \in Requests, r = pool, pc[r] = "resuming", NEW c \in {"lost", "500", "202"},
               Answer(r, c)
        PROVE  \A q \in Requests : /\ pc'[q] \in Codes \/ (pc'[q] = pc[q] /\ job'[q] = job[q])
                                   /\ pc'[q] # "resuming"
    <3>1. \A q \in Requests \ {r} : pc[q] # "resuming" /\ pc'[q] = pc[q] /\ job'[q] = job[q]
      BY <2>2 DEF ServiceInv, TypeOK, EngineInv, Answer, Yield
    <3>2. pc'[r] = c
      BY <2>2 DEF ServiceInv, TypeOK, Answer, Yield
    <3> QED
      BY <3>1, <3>2 DEF Codes
  <2> QED
    BY <2>1, <2>2 DEF PlanStops
<1>4. \A q \in Requests : q \in Piped' => q \in Piped /\ job'[q] = job[q]
  BY <1>3 DEF Piped, Codes
<1> QED
  BY <1>1, <1>2, <1>3, <1>4 DEF ToldInv, Codes

\* The worker completes its task, and publishes that.
LEMMA CompletionTold ==
  ASSUME ServiceInv, ToldInv, CycleEnd \/ ReportStatus
  PROVE  ToldInv'
<1>1. UNCHANGED <<pc, job, current, state>> /\ Piped' = Piped
  BY DEF CycleEnd, ReportStatus, Piped
<1>2. \A q \in Requests : q \in Piped \/ pc[q] = "stream" => job[q].task \in Tasks
  BY DEF Piped, ServiceInv, RequestsInv, RequestOK, MayAct
<1>3. CASE CycleEnd
  <2>1. /\ UNCHANGED pipe /\ thread = "over"
        /\ \/ phase' = [phase EXCEPT ![current] = "complete"] /\ thread' = "report"
           \/ UNCHANGED phase
    BY <1>3 DEF CycleEnd
  <2>2. \A t \in Tasks : phase'[t] = phase[t] \/ (t = current /\ phase'[t] = "complete"
                                                  /\ thread' = "report")
    BY <2>1 DEF ServiceInv, TypeOK
  <2> QED
    BY <1>1, <1>2, <2>1, <2>2 DEF ToldInv
<1>4. CASE ReportStatus
  <2>1. UNCHANGED phase /\ pipe' = Published(current, TRUE)
    BY <1>4 DEF ReportStatus, Reported
  <2>2. \A q \in Requests : /\ "complete" \in pipe[q] => "complete" \in pipe'[q]
                            /\ q \in Piped /\ job[q].task = current => "complete" \in pipe'[q]
    BY <2>1 DEF Published
  <2> QED
    BY <1>1, <2>1, <2>2 DEF ToldInv
<1> QED
  BY <1>3, <1>4

\* A step preserves it.
LEMMA ToldInductive == ServiceInv /\ ToldInv /\ [Next]_vars => ToldInv'
<1> SUFFICES ASSUME ServiceInv, ToldInv, [Next]_vars
             PROVE  ToldInv'
  OBVIOUS
<1>1. CASE UNCHANGED vars
  BY <1>1 DEF vars, workerVars, ToldInv, Piped
<1>2. ASSUME NEW r \in Requests, Clients(r) \/ Serve(r)
      PROVE  ToldInv'
  BY <1>2, DecidesTold, ChangesTold, ControlTold DEF Clients, Serve
<1>3. CASE WorkerThread \/ PlanStops
  BY <1>3, TakeTaskTold, PlanStopsTold, CompletionTold DEF WorkerThread
<1> QED
  BY <1>1, <1>2, <1>3 DEF Next

\* run_plan and set_state: for any number of requests, a request waits only for what is
\* under way, in spite of an event loop and a subprocess that other requests occupy.
THEOREM NobodyIsForgotten == Spec => []NobodyForgotten
<1>1. Init => ToldInv
  BY DEF Init, ToldInv, Piped
<1>2. ServiceInv /\ ToldInv => NobodyForgotten
  <2> SUFFICES ASSUME ServiceInv, ToldInv, NEW r \in Requests
               PROVE  /\ pc[r] = "starting" =>
                           pool = r /\ job[r].task \in channel /\ thread # "engine"
                      /\ pc[r] = "resuming" =>
                           pool = r /\ state \in {"RUNNING", "PAUSING", "CANCELLING"}
                      /\ pc[r] = "stream" => \/ "complete" \in pipe[r]
                                             \/ current = job[r].task /\ thread # "ready"
                                             \/ phase[job[r].task] = "dropped"
    BY DEF NobodyForgotten
  <2>1. CASE pc[r] \in {"starting", "resuming"}
    BY <2>1 DEF ServiceInv, EngineInv, ToldInv
  <2>2. CASE pc[r] = "stream"
    <3>1. /\ job[r].task \in Tasks /\ r \in Piped
          /\ phase[job[r].task] \in {"running", "complete", "dropped"}
      BY <2>2 DEF ServiceInv, TypeOK, RequestsInv, RequestOK, MayAct, ToldInv, Piped
    <3> QED
      BY <2>2, <3>1 DEF ServiceInv, PhaseInv, ToldInv
  <2> QED
    BY <2>1, <2>2
<1> QED
  BY <1>1, <1>2, ToldInductive, ServiceInvariant, PTL DEF Spec

-----------------------------------------------------------------------------
(* What a step may never do.                                               *)

\* The steps that change the phase of a task.
LEMMA PhaseChanges ==
  ASSUME [Next]_vars
  PROVE  \/ UNCHANGED phase
         \/ \E r \in Requests : SubmitTask(r) \/ ClearTask(r)
         \/ TakeTask \/ CycleEnd
<1>1. ASSUME NEW r \in Requests, Clients(r)
      PROVE  UNCHANGED phase
  BY <1>1 DEF Clients, Arrive, ClientLeaves, workerVars
<1>2. ASSUME NEW r \in Requests, Serve(r)
      PROVE  UNCHANGED phase \/ SubmitTask(r) \/ ClearTask(r)
  BY <1>2 DEF Serve, GetTasks, ListTasks, GetTask, BeginTask, ForwardEvent, ReadActive, Pause,
              Resume, Cancel, workerVars, taskVars
<1>3. CASE PlanStops \/ ReportStatus
  BY <1>3 DEF PlanStops, ReportStatus
<1>4. CASE UNCHANGED vars
  BY <1>4 DEF vars, workerVars
<1> QED
  BY <1>1, <1>2, <1>3, <1>4 DEF Next, WorkerThread

\* A step that begins or deletes a task is one of a request entitled to it.
LEMMA OwnersActStep ==
  ASSUME ServiceInv, [Next]_vars,
         NEW t \in Tasks, phase'[t] # phase[t], phase'[t] \in {"running", "dropped"}
  PROVE  \E r \in Requests : /\ pc[r] # pc'[r]
                             /\ job[r].task = t /\ Entitled(job[r].user, t)
<1> USE DEF ServiceInv, TypeOK, RequestsInv, RequestOK, MayAct, Allowed, Entitled
<1>1. ASSUME NEW r \in Requests, SubmitTask(r)
      PROVE  FALSE
  BY <1>1 DEF SubmitTask
<1>2. ASSUME NEW r \in Requests, ClearTask(r)
      PROVE  job[r].task = t /\ pc[r] = "thread" /\ pc'[r] # "thread"
  BY <1>2 DEF ClearTask, At, Answer, Yield
<1>3. ASSUME TakeTask
      PROVE  \E r \in Requests : /\ pc[r] = "starting" /\ pc'[r] # "starting"
                                 /\ job[r].task = t
  BY <1>3 DEF TakeTask, EngineInv, Answer, Await, Yield
<1>4. ASSUME CycleEnd
      PROVE  FALSE
  BY <1>4 DEF CycleEnd
<1> QED
  BY <1>1, <1>2, <1>3, <1>4, PhaseChanges

\* PUT /worker/task, DELETE /tasks/{task_id} and run_plan: a task is begun or
\* deleted only on behalf of its owner or an admin.
THEOREM OwnersAct == Spec => OnlyOwnersAct
<1>1. ASSUME ServiceInv, [Next]_vars
      PROVE  [\A t \in Tasks :
                phase'[t] # phase[t] /\ phase'[t] \in {"running", "dropped"} =>
                  \E r \in Requests : /\ pc[r] # pc'[r]
                                      /\ job[r].task = t /\ Entitled(job[r].user, t)]_vars
  BY <1>1, OwnersActStep
<1> QED
  BY <1>1, ServiceInvariant, PTL DEF Spec, OnlyOwnersAct

\* What AnswersHonest says of a step.
Honest ==
  \A r \in Requests :
    pc'[r] # pc[r] =>
      /\ job[r].op = "begin" /\ pc'[r] = "200" =>
           phase'[job[r].task] \notin {"absent", "pending"}
      /\ pc'[r] = "1000" => job[r].task \in announced

\* Most answers are neither 200 to a PUT /worker/task nor 1000.
LEMMA OtherAnswers ==
  ASSUME TypeOK, NEW q \in Requests, NEW l, pc' = [pc EXCEPT ![q] = l],
         l = "200" => job[q].op # "begin", l # "1000"
  PROVE  Honest
BY DEF TypeOK, Honest

\* Steps that only decide answer neither 200 to a begin nor 1000.
LEMMA DecidesHonest ==
  ASSUME ServiceInv, NEW q \in Requests, Decides(q) \/ Unauthenticated(q)
  PROVE  Honest
<1> USE OtherAnswers DEF ServiceInv, At, Arrived, Answer, Await, Yield, Keep
<1>1. CASE HealthProbe(q)
  BY <1>1 DEF HealthProbe
<1>2. CASE Look(q)
  BY <1>2 DEF Look
<1>3. CASE AccessTask(q)
  BY <1>3 DEF AccessTask
<1>4. CASE AccessDecided(q)
  BY <1>4 DEF AccessDecided
<1>5. CASE CheckActive(q)
  BY <1>5 DEF CheckActive
<1>6. CASE SubmitPermission(q)
  BY <1>6 DEF SubmitPermission
<1>7. CASE RefuseOrigin(q)
  BY <1>7 DEF RefuseOrigin
<1>8. CASE AcceptWebsocket(q)
  BY <1>8 DEF AcceptWebsocket
<1>9. CASE SubmitRefused(q)
  BY <1>9 DEF SubmitRefused
<1>10. CASE Disconnected(q)
  BY <1>10 DEF Disconnected
<1>11. CASE SetState(q)
  BY <1>11 DEF SetState
<1>12. CASE Forbid(q)
  BY <1>12 DEF Forbid
<1>13. CASE Reply(q)
  BY <1>13 DEF Reply, RequestsInv, RequestOK
<1>14. CASE Unauthenticated(q)
  BY <1>14 DEF Unauthenticated
<1> QED
  BY <1>1, <1>2, <1>3, <1>4, <1>5, <1>6, <1>7, <1>8, <1>9, <1>10, <1>11, <1>12, <1>13,
     <1>14 DEF Decides

\* The other steps of requests: none answers a begin with 200, nor with 1000.
LEMMA ServesHonest ==
  ASSUME ServiceInv, NEW q \in Requests,
         \/ Arrive(q) \/ GetTasks(q) \/ ListTasks(q) \/ GetTask(q) \/ ClearTask(q) \/ BeginTask(q)
         \/ SubmitTask(q) \/ ReadActive(q) \/ Pause(q) \/ Resume(q) \/ Cancel(q)
  PROVE  Honest
<1> USE OtherAnswers DEF ServiceInv, At, Arrived, Answer, Await, Yield, Keep
<1>1. CASE Arrive(q)
  BY <1>1 DEF Arrive
<1>2. CASE GetTasks(q)
  BY <1>2 DEF GetTasks
<1>3. CASE ListTasks(q)
  BY <1>3 DEF ListTasks
<1>4. CASE GetTask(q)
  BY <1>4 DEF GetTask
<1>5. CASE ClearTask(q)
  BY <1>5 DEF ClearTask
<1>6. CASE BeginTask(q)
  BY <1>6 DEF BeginTask
<1>7. CASE SubmitTask(q)
  BY <1>7 DEF SubmitTask
<1>8. CASE ReadActive(q)
  BY <1>8 DEF ReadActive
<1>9. CASE Pause(q)
  BY <1>9 DEF Pause, Acts
<1>10. CASE Resume(q)
  BY <1>10 DEF Resume, Acts, Occupy
<1>11. CASE Cancel(q)
  BY <1>11 DEF Cancel, Acts, Occupy
<1> QED
  BY <1>1, <1>2, <1>3, <1>4, <1>5, <1>6, <1>7, <1>8, <1>9, <1>10, <1>11

\* A websocket closes with 1000 after the completion in its pipe, and the worker thread
\* that takes a task lets its begin_task answer 200.
LEMMA TellsHonest ==
  ASSUME ServiceInv, \/ \E q \in Requests : ForwardEvent(q)
                     \/ WorkerThread \/ PlanStops
  PROVE  Honest
<1> USE DEF ServiceInv, TypeOK
<1>1. ASSUME NEW q \in Requests, ForwardEvent(q)
      PROVE  Honest
  <2>1. pc[q] = "stream" /\ job[q].op = "run_plan"
    BY <1>1 DEF ForwardEvent, At
  <2>2. /\ \E l : pc' = [pc EXCEPT ![q] = l]
        /\ pc'[q] = "1000" => "complete" \in pipe[q]
    BY <1>1 DEF ForwardEvent, IsComplete, Answer, Await, Yield
  <2>3. "complete" \in pipe[q] => job[q].task \in announced
    BY <2>1 DEF PipeInv, Piped
  <2> QED
    BY <2>1, <2>2, <2>3 DEF Honest
<1>2. ASSUME TakeTask
      PROVE  Honest
  <2>1. PICK t \in channel, q \in Requests :
          /\ q = pool /\ \E l \in {"200", "stream"} : pc' = [pc EXCEPT ![q] = l]
          /\ phase' = [phase EXCEPT ![t] = IF @ = "pending" THEN "running" ELSE @]
    BY <1>2 DEF TakeTask, Answer, Await, Yield
  <2>2. job[q].task = t /\ phase[t] # "absent"
    BY <2>1 DEF EngineInv, RequestsInv, RequestOK, MayAct
  <2>3. phase'[t] \notin {"absent", "pending"}
    BY <2>1, <2>2
  <2> QED
    BY <2>1, <2>2, <2>3 DEF Honest
<1>3. CASE CycleEnd \/ ReportStatus
  BY <1>3 DEF CycleEnd, ReportStatus, Honest
<1>4. CASE PlanStops
  <2>1. \/ UNCHANGED pc
        \/ \E q \in Requests, l \in {"lost", "500", "202"} : pc' = [pc EXCEPT ![q] = l]
    BY <1>4 DEF PlanStops, Answer, Yield
  <2> QED
    BY <2>1, OtherAnswers DEF Honest
<1> QED
  BY <1>1, <1>2, <1>3, <1>4 DEF WorkerThread

\* Every step answers truthfully.
LEMMA StepsHonest ==
  ASSUME ServiceInv, [Next]_vars
  PROVE  Honest
<1>1. CASE UNCHANGED vars
  BY <1>1 DEF vars, Honest
<1>2. ASSUME NEW q \in Requests, Clients(q) \/ Serve(q)
      PROVE  Honest
  <2>1. CASE ClientLeaves(q)
    BY <2>1 DEF ClientLeaves, Honest
  <2> QED
    BY <1>2, <2>1, DecidesHonest, ServesHonest, TellsHonest DEF Clients, Serve
<1> QED
  BY <1>1, <1>2, TellsHonest DEF Next

\* set_active_task and run_plan: 200 means that the task was taken, and a websocket
\* is closed as finished when the completion was published.
THEOREM HonestAnswers == Spec => AnswersHonest
<1>1. ASSUME ServiceInv, [Next]_vars
      PROVE  [\A r \in Requests :
                pc'[r] # pc[r] =>
                  /\ job[r].op = "begin" /\ pc'[r] = "200" =>
                       phase'[job[r].task] \notin {"absent", "pending"}
                  /\ pc'[r] = "1000" => job[r].task \in announced]_vars
  BY <1>1, StepsHonest DEF Honest
<1> QED
  BY <1>1, ServiceInvariant, PTL DEF Spec, AnswersHonest

-----------------------------------------------------------------------------
(* The refinement of TaskLifecycle.                                        *)

\* A state change of the RunEngine announces nothing or a task that has ended.
LEMMA AnnounceStep ==
  ASSUME ServiceInv, UNCHANGED phase, NEW t, announced' = announced \cup ({t} \cap ended)
  PROVE  [Lifecycle!Next]_(Lifecycle!lifecycleVars)
<1>1. CASE t \in ended
  <2>1. t \in Tasks /\ phase[t] \in {"complete", "dropped"}
    BY <1>1 DEF ServiceInv, TypeOK, PhaseInv
  <2> QED
    BY <1>1, <2>1 DEF Lifecycle!Next, Lifecycle!Announce
<1>2. CASE t \notin ended
  BY <1>2 DEF Lifecycle!lifecycleVars
<1> QED
  BY <1>1, <1>2

\* The steps of requests that change a task.
LEMMA RequestStepsLifecycle ==
  ASSUME ServiceInv, NEW r \in Requests, Clients(r) \/ Serve(r)
  PROVE  [Lifecycle!Next]_(Lifecycle!lifecycleVars)
<1>1. CASE SubmitTask(r)
  BY <1>1 DEF SubmitTask, Lifecycle!Next, Lifecycle!Submit
<1>2. CASE ClearTask(r)
  <2>1. job[r].task \in Tasks
    BY <1>2 DEF ClearTask, At, ServiceInv, RequestsInv, RequestOK, MayAct
  <2>2. CASE job[r].task \in Known
    BY <1>2, <2>1, <2>2 DEF ClearTask, Known, Lifecycle!Next, Lifecycle!Drop
  <2>3. CASE job[r].task \notin Known
    BY <1>2, <2>3 DEF ClearTask, Lifecycle!lifecycleVars
  <2> QED
    BY <2>2, <2>3
<1>3. CASE Pause(r) \/ Resume(r) \/ Cancel(r)
  <2>1. UNCHANGED phase
    BY <1>3 DEF Pause, Resume, Cancel, taskVars
  <2>2. UNCHANGED announced \/ announced' = announced \cup ({current} \cap ended)
    BY <1>3 DEF Pause, Resume, Cancel, OnStateChange
  <2> QED
    BY <2>1, <2>2, AnnounceStep DEF Lifecycle!lifecycleVars
<1>4. CASE GetTasks(r) \/ ListTasks(r) \/ GetTask(r) \/ BeginTask(r) \/ ForwardEvent(r) \/ ReadActive(r)
  BY <1>4 DEF GetTasks, ListTasks, GetTask, BeginTask, ForwardEvent, ReadActive, workerVars,
              Lifecycle!lifecycleVars
<1>5. CASE Clients(r) \/ UNCHANGED <<workerVars, pool, pipe, gone>>
  BY <1>5 DEF Clients, Arrive, ClientLeaves, workerVars, Lifecycle!lifecycleVars
<1> QED
  BY <1>1, <1>2, <1>3, <1>4, <1>5 DEF Serve

\* The worker that takes a task begins it.
LEMMA TakeTaskLifecycle ==
  ASSUME ServiceInv, TakeTask
  PROVE  [Lifecycle!Next]_(Lifecycle!lifecycleVars)
<1>1. PICK t \in channel :
        /\ phase' = [phase EXCEPT ![t] = IF @ = "pending" THEN "running" ELSE @]
        /\ announced' = announced \cup ({t} \cap ended)
  BY DEF TakeTask
<1>2. t \in Tasks
  BY DEF ServiceInv, TypeOK
<1>3. CASE phase[t] = "pending"
  <2>1. UNCHANGED announced
    BY <1>1, <1>3 DEF ServiceInv, PhaseInv
  <2>2. \A u \in Tasks : phase[u] # "running"
    BY DEF ServiceInv, PhaseInv, TakeTask
  <2>3. phase' = [phase EXCEPT ![t] = "running"]
    BY <1>1, <1>3
  <2> QED
    BY <1>2, <1>3, <2>1, <2>2, <2>3 DEF Lifecycle!Next, Lifecycle!Begin
<1>4. CASE phase[t] # "pending"
  <2>1. UNCHANGED phase
    BY <1>1, <1>2, <1>4 DEF ServiceInv, TypeOK
  <2> QED
    BY <1>1, <2>1, AnnounceStep
<1> QED
  BY <1>3, <1>4

\* Every step is one of TaskLifecycle or invisible.
LEMMA StepsLifecycle ==
  ServiceInv /\ [Next]_vars => [Lifecycle!Next]_(Lifecycle!lifecycleVars)
<1> SUFFICES ASSUME ServiceInv, [Next]_vars
             PROVE  [Lifecycle!Next]_(Lifecycle!lifecycleVars)
  OBVIOUS
<1>1. CASE CycleEnd
  <2>1. current \in Tasks
    BY <1>1 DEF CycleEnd, ServiceInv, PhaseInv
  <2> QED
    BY <1>1, <2>1 DEF CycleEnd, Lifecycle!Next, Lifecycle!End, Lifecycle!lifecycleVars
<1>2. CASE ReportStatus
  <2>1. current \in Tasks /\ phase[current] \in {"complete", "dropped"}
    BY <1>2 DEF ReportStatus, ServiceInv, PhaseInv
  <2> QED
    BY <1>2, <2>1 DEF ReportStatus, Lifecycle!Next, Lifecycle!Announce
<1>3. CASE PlanStops
  BY <1>3, AnnounceStep DEF PlanStops, OnStateChange
<1>4. CASE UNCHANGED vars
  BY <1>4 DEF vars, workerVars, Lifecycle!lifecycleVars
<1> QED
  BY <1>1, <1>2, <1>3, <1>4, RequestStepsLifecycle, TakeTaskLifecycle DEF Next, WorkerThread

\* What the clients of the service see of a task is a behaviour of TaskLifecycle,
\* for every number of tasks, users and requests.
THEOREM ServiceImplementsLifecycle == Spec => ImplementsLifecycle
<1>1. Init => Lifecycle!Init
  BY DEF Init, Lifecycle!Init
<1> QED
  BY <1>1, StepsLifecycle, ServiceInvariant, PTL DEF Spec, ImplementsLifecycle, Lifecycle!Spec
==============================================================================
