-------------------------- MODULE EnvironmentReload --------------------------
(***************************************************************************)
(* Reloading the worker environment: service/runner.py's WorkerDispatcher, *)
(* the handlers of /environment in service/main.py and the client's        *)
(* reload_environment, over the Pool of multiprocessing.                   *)
(*                                                                         *)
(* A DELETE of the environment schedules WorkerDispatcher.reload in a      *)
(* thread of the server: it tears the subprocess down and starts another.  *)
(* Nothing prevents two reloads from overlapping, and the handlers of      *)
(* other requests go on calling run meanwhile.  The client polls the       *)
(* status until it shows another environment.                              *)
(*                                                                         *)
(* An environment is the pool with the one process that start creates for  *)
(* it, and is named by the environment_id that start draws.                *)
(***************************************************************************)
EXTENDS Naturals, Sequences

CONSTANTS
  Envs,        \* the environment ids that may be drawn (a bound)
  FirstEnv,    \* the one of setup_runner, when the server started
  Clients,     \* those who reload; each with the thread of its reload
  Handlers,    \* threads that serve other requests
  Overlap,     \* may a reload be asked for while another is in progress?
  MayTimeOut   \* do clients give a timeout?

ASSUME EnvsAssumption == FirstEnv \in Envs
ASSUME ThreadsAssumption == Clients \cap Handlers = {}
ASSUME SwitchesAssumption == Overlap \in BOOLEAN /\ MayTimeOut \in BOOLEAN

VARIABLES
  \* Fields of the WorkerDispatcher
  subprocess,      \* _subprocess
  environment_id,  \* _state.environment_id
  status,          \* _state: initialized, error (an error_message), or neither
  \* The pools (external) and what their process holds
  pool,            \* none, run, close (closed, the process is ending) or gone
  cached,          \* the processes in which interface.worker() is cached
  queue,           \* calls a process has to execute: pairs <<thread, function>>
  \* The reload threads
  pc,              \* where each thread is
  old,             \* environment_id of stop
  new,             \* environment_id of start
  joined,          \* the pool that stop waits for
  \* Other threads of the server
  request,         \* idle, or waiting for the answer of the subprocess
  \* The clients
  client,          \* what reload_environment is doing, or how it ended
  previous,        \* previous_environment_id
  \* History
  used             \* the ids drawn so far

dispatcherVars == <<subprocess, environment_id, status>>
poolVars == <<pool, cached, queue>>
threadVars == <<pc, old, new, joined>>
clientVars == <<client, previous>>

vars == <<dispatcherVars, poolVars, threadVars, clientVars, request, used>>

Threads == Clients \cup Handlers

\* A call of the subprocess and the thread of the server that waits for it.
Calls == (Clients \X {"setup", "teardown"}) \cup (Handlers \X {"request"})

\* idle; stop, teardown (waiting for run(teardown)), close, join, joining; stopped,
\* stopFailed; start, setup (about to run), setting (waiting), started, startFailed.
Locations ==
  {"idle", "stop", "apply", "teardown", "close", "join", "joining", "stopped",
   "stopFailed", "start", "setup", "setting", "started", "startFailed"}

TypeOK ==
  /\ subprocess \in Envs /\ environment_id \in Envs
  /\ status \in {"initialized", "error", "neither"}
  /\ pool \in [Envs -> {"none", "run", "close", "gone"}]
  /\ cached \subseteq Envs /\ used \subseteq Envs
  /\ queue \in [Envs -> Seq(Calls)]
  /\ pc \in [Clients -> Locations]
  /\ old \in [Clients -> Envs] /\ new \in [Clients -> Envs]
  /\ joined \in [Clients -> Envs]
  /\ request \in [Handlers -> {"idle", "waiting"}]
  /\ client \in [Clients -> {"idle", "polling", "returned", "raised", "timed out"}]
  /\ previous \in [Clients -> Envs]
  /\ pool[subprocess] # "none"

\* setup_runner has run start, which succeeded or not.
Init ==
  /\ subprocess = FirstEnv /\ environment_id = FirstEnv
  /\ status \in {"initialized", "error"}
  /\ pool = [e \in Envs |-> IF e = FirstEnv THEN "run" ELSE "none"]
  /\ cached = IF status = "initialized" THEN {FirstEnv} ELSE {}
  /\ queue = [e \in Envs |-> <<>>]
  /\ pc = [c \in Clients |-> "idle"]
  /\ old = [c \in Clients |-> FirstEnv] /\ new = [c \in Clients |-> FirstEnv]
  /\ joined = [c \in Clients |-> FirstEnv]
  /\ request = [h \in Handlers |-> "idle"]
  /\ client = [c \in Clients |-> "idle"]
  /\ previous = [c \in Clients |-> FirstEnv]
  /\ used = {FirstEnv}

-----------------------------------------------------------------------------
(* WorkerDispatcher.                                                       *)

InProgress == {c \in Clients : pc[c] # "idle"}

\* run, up to the wait of Pool.apply: a pool that is not running refuses.
Run(thread, function) ==
  /\ pool[subprocess] = "run"
  /\ queue' = [queue EXCEPT ![subprocess] = Append(@, <<thread, function>>)]

RunRefused == pool[subprocess] # "run" /\ UNCHANGED queue

Goto(c, from, to) == pc[c] = from /\ pc' = [pc EXCEPT ![c] = to]

\* stop reads the id ...
Stop(c) ==
  /\ Goto(c, "stop", "apply")
  /\ old' = [old EXCEPT ![c] = environment_id]
  /\ UNCHANGED <<dispatcherVars, poolVars, new, joined>>

\* ... and runs teardown in whatever is the subprocess by then.
RunTeardown(c) ==
  /\ \/ Goto(c, "apply", "teardown") /\ Run(c, "teardown")
     \/ Goto(c, "apply", "stopFailed") /\ RunRefused
  /\ UNCHANGED <<dispatcherVars, pool, cached, old, new, joined>>

\* Fault: the pool is terminated, not closed.
ClosePoolTerminates(c) ==
  /\ Goto(c, "close", "join")
  /\ pool' = [pool EXCEPT ![subprocess] = "gone"]
  /\ UNCHANGED <<dispatcherVars, cached, queue, old, new, joined>>

\* Teardown succeeded.  close and join each read _subprocess again.
ClosePool(c) ==
  /\ Goto(c, "close", "join")
  /\ pool' = [pool EXCEPT ![subprocess] = IF @ = "run" THEN "close" ELSE @]
  /\ UNCHANGED <<dispatcherVars, cached, queue, old, new, joined>>

\* join of a pool that is running raises.
JoinPool(c) ==
  /\ \/ /\ pool[subprocess] # "run"
        /\ Goto(c, "join", "joining")
        /\ joined' = [joined EXCEPT ![c] = subprocess]
     \/ /\ pool[subprocess] = "run"
        /\ Goto(c, "join", "stopFailed")
        /\ UNCHANGED joined
  /\ UNCHANGED <<dispatcherVars, poolVars, old, new>>

Joined(c) ==
  /\ pool[joined[c]] = "gone"
  /\ Goto(c, "joining", "stopped")
  /\ UNCHANGED <<dispatcherVars, poolVars, old, new, joined>>

\* What stop makes of the status: it keeps an error message.
StatusStopped == IF status = "error" THEN "error" ELSE "neither"

\* stop ends: the environment is no longer initialized.
Stopped(c) ==
  /\ Goto(c, "stopped", "start")
  /\ environment_id' = old[c] /\ status' = StatusStopped
  /\ UNCHANGED <<subprocess, poolVars, old, new, joined>>

\* stop catches an exception; the pool, if it was not closed, is left running.
StopFailed(c) ==
  /\ Goto(c, "stopFailed", "start")
  /\ environment_id' = old[c] /\ status' = "error"
  /\ UNCHANGED <<subprocess, poolVars, old, new, joined>>

\* start draws an id and creates a pool, or fails to.
Start(c) ==
  /\ \/ /\ Goto(c, "start", "setup")
        /\ subprocess' = new[c]
        /\ pool' = [pool EXCEPT ![new[c]] = "run"]
     \/ /\ Goto(c, "start", "startFailed")
        /\ UNCHANGED <<subprocess, pool>>
  /\ UNCHANGED <<environment_id, status, cached, queue, old, new, joined>>

\* It runs setup in whatever is the subprocess by then.
RunSetup(c) ==
  /\ \/ Goto(c, "setup", "setting") /\ Run(c, "setup")
     \/ Goto(c, "setup", "startFailed") /\ RunRefused
  /\ UNCHANGED <<dispatcherVars, pool, cached, old, new, joined>>

\* Fault: the status keeps the id of the old environment.
StartedOldId(c) ==
  /\ Goto(c, "started", "idle")
  /\ environment_id' = old[c] /\ status' = "initialized"
  /\ UNCHANGED <<subprocess, poolVars, old, new, joined>>

\* start ends.
Started(c) ==
  /\ Goto(c, "started", "idle")
  /\ environment_id' = new[c] /\ status' = "initialized"
  /\ UNCHANGED <<subprocess, poolVars, old, new, joined>>

\* Fault: start forgets the error message.
StartFailedSilently(c) ==
  /\ Goto(c, "startFailed", "idle")
  /\ environment_id' = new[c] /\ status' = "neither"
  /\ UNCHANGED <<subprocess, poolVars, old, new, joined>>

\* start catches an exception.
StartFailed(c) ==
  /\ Goto(c, "startFailed", "idle")
  /\ environment_id' = new[c] /\ status' = "error"
  /\ UNCHANGED <<subprocess, poolVars, old, new, joined>>

ReloadStep(c) ==
  \/ Stop(c) \/ RunTeardown(c) \/ ClosePool(c) \/ JoinPool(c) \/ Joined(c)
  \/ Stopped(c) \/ StopFailed(c) \/ Start(c) \/ RunSetup(c) \/ Started(c)
  \/ StartFailed(c)

Reload == \E c \in Clients : ReloadStep(c) /\ UNCHANGED <<clientVars, request, used>>

-----------------------------------------------------------------------------
(* The subprocess: interface.py and the pool.                              *)

Reply(thread, answer) ==
  IF thread \in Clients
    THEN pc' = [pc EXCEPT ![thread] = answer] /\ UNCHANGED request
    ELSE request' = [request EXCEPT ![thread] = "idle"] /\ UNCHANGED pc

\* Fault: the caches are not cleared.
CachedAfterTeardownKept(p) == cached

\* teardown clears the cache of worker().
CachedAfterTeardown(p) == cached \ {p}

\* The process executes the next call: setup and most requests create and start a
\* worker unless there is one, and so does teardown, to stop it.  Each may raise.
Execute(p) ==
  /\ pool[p] \in {"run", "close"} /\ queue[p] # <<>>
  /\ queue' = [queue EXCEPT ![p] = Tail(@)]
  /\ LET thread == Head(queue[p])[1]
         function == Head(queue[p])[2]
     IN \/ /\ function = "setup"
           /\ \/ Reply(thread, "started") /\ cached' = cached \cup {p}
              \/ Reply(thread, "startFailed") /\ cached' \in {cached, cached \cup {p}}
        \/ /\ function = "teardown"
           /\ \/ Reply(thread, "close") /\ cached' = CachedAfterTeardown(p)
              \/ Reply(thread, "stopFailed") /\ cached' \in {cached, cached \cup {p}}
        \/ /\ function = "request"
           /\ Reply(thread, "idle")
           /\ cached' \in {cached, cached \cup {p}}
  /\ UNCHANGED <<pool, old, new, joined>>

\* A closed pool ends when its process has nothing to execute and exits, for which
\* the interpreter waits for the thread of a worker that was not stopped.
ProcessExits(p) ==
  /\ pool[p] = "close" /\ queue[p] = <<>> /\ p \notin cached
  /\ pool' = [pool EXCEPT ![p] = "gone"]
  /\ UNCHANGED <<cached, queue, threadVars, request>>

\* A pool that nobody refers to any longer terminates its process.
PoolDropped(p) ==
  /\ pool[p] \in {"run", "close"} /\ p # subprocess /\ queue[p] = <<>>
  /\ \A c \in Clients : ~ (pc[c] = "joining" /\ joined[c] = p)
  /\ pool' = [pool EXCEPT ![p] = "gone"]
  /\ cached' = cached \ {p}
  /\ UNCHANGED <<queue, threadVars, request>>

ProcessStep(p) ==
  /\ Execute(p) \/ ProcessExits(p) \/ PoolDropped(p)
  /\ UNCHANGED <<dispatcherVars, clientVars, used>>

\* Any other request of the REST API; one that is refused has no effect.
Request(h) ==
  /\ request[h] = "idle"
  /\ Run(h, "request")
  /\ request' = [request EXCEPT ![h] = "waiting"]
  /\ UNCHANGED <<dispatcherVars, pool, cached, threadVars, clientVars, used>>

-----------------------------------------------------------------------------
(* DELETE /environment, and the client that sent it.                       *)

\* The condition of delete_environment.
NeedsReload == status # "neither"

\* reload_environment: the handler answers with the id and schedules the reload,
\* which will draw the id e.
DeleteEnvironment(c) ==
  /\ client[c] # "polling" /\ pc[c] = "idle"
  /\ Overlap \/ InProgress = {}
  /\ client' = [client EXCEPT ![c] = "polling"]
  /\ previous' = [previous EXCEPT ![c] = environment_id]
  /\ IF NeedsReload
       THEN \E e \in Envs \ used :
              /\ used' = used \cup {e}
              /\ new' = [new EXCEPT ![c] = e]
              /\ pc' = [pc EXCEPT ![c] = "stop"]
       ELSE UNCHANGED <<used, new, pc>>
  /\ UNCHANGED <<dispatcherVars, poolVars, old, joined, request>>

\* Fault: the client does not compare the ids.
WaitForReloadAnyId(c) ==
  /\ client[c] = "polling"
  /\ status # "neither"
  /\ client' = [client EXCEPT ![c] = IF status = "error" THEN "raised" ELSE "returned"]
  /\ UNCHANGED <<dispatcherVars, poolVars, threadVars, previous, request, used>>

\* One turn of the loop of _wait_for_reload that ends it, or its timeout.
WaitForReload(c) ==
  /\ client[c] = "polling"
  /\ \/ status = "error" /\ client' = [client EXCEPT ![c] = "raised"]
     \/ /\ status = "initialized" /\ environment_id # previous[c]
        /\ client' = [client EXCEPT ![c] = "returned"]
     \/ MayTimeOut /\ client' = [client EXCEPT ![c] = "timed out"]
  /\ UNCHANGED <<dispatcherVars, poolVars, threadVars, previous, request, used>>

-----------------------------------------------------------------------------
Next ==
  \/ Reload
  \/ \E p \in Envs : ProcessStep(p)
  \/ \E h \in Handlers : Request(h)
  \/ \E c \in Clients : DeleteEnvironment(c) \/ WaitForReload(c)

Spec == Init /\ [][Next]_vars

\* The threads of the server and the processes are scheduled, clients go on
\* polling; nobody is obliged to ask for anything.
Fairness ==
  /\ \A p \in Envs : WF_vars(ProcessStep(p))
  /\ \A c \in Clients :
       /\ WF_vars(ReloadStep(c) /\ UNCHANGED <<clientVars, request, used>>)
       /\ WF_vars(WaitForReload(c))

FairSpec == Spec /\ Fairness

-----------------------------------------------------------------------------
(* Properties that hold whatever the callers do.                           *)

\* A status that is neither initialized nor an error is never final: a reload is in
\* progress, so delete_environment (line 258) may leave it to that one and its
\* client, which waits without a timeout, is not left waiting.
ReloadUnderway == status = "neither" => InProgress # {}

\* Nobody waits for a process that is not there: every call that a thread waits for
\* is in the queue of a process that has not ended.
NoCallLost ==
  \A t \in Threads :
    \/ t \in Clients /\ pc[t] \in {"teardown", "setting"}
    \/ t \in Handlers /\ request[t] = "waiting"
    => \E p \in Envs :
         /\ pool[p] \in {"run", "close"}
         /\ \E i \in 1 .. Len(queue[p]) : queue[p][i][1] = t

-----------------------------------------------------------------------------
(* Properties that hold when reloads do not overlap.                       *)

\* When the status says initialized and no reload is in progress, the subprocess
\* accepts calls, has its worker and is the environment of that id.
StatusHonest ==
  status = "initialized" /\ InProgress = {} =>
    /\ pool[subprocess] = "run" /\ subprocess \in cached
    /\ environment_id = subprocess

\* When reload_environment returns, the reload it asked for is over, so the
\* environment it returns is not torn down by it.
ReloadOver == \A c \in Clients : client[c] = "returned" => pc[c] = "idle"

\* The ids that /environment has shown.
Shown == used \ {new[c] : c \in InProgress}

Lifecycle == INSTANCE EnvironmentLifecycle WITH
  Ids <- Envs, FirstId <- FirstEnv, environment <- environment_id, health <- status,
  reloading <- InProgress # {}, past <- Shown,
  renewed <- {c \in Clients : client[c] = "polling" /\ environment_id # previous[c]}

\* To its clients the dispatcher is an EnvironmentLifecycle: an id that has been shown
\* never comes back, the environment is taken away only for who asked and then replaced,
\* and reload_environment, which only compares ids, returns for a new one.
ImplementsEnvironment == Lifecycle!Spec

\* Every reload ends, and the client that waits for it gets an answer.
ReloadEnds == \A c \in Clients : pc[c] # "idle" ~> pc[c] = "idle"
ClientAnswered == \A c \in Clients : client[c] = "polling" ~> client[c] # "polling"
=============================================================================
