# A TLA+ model of blueapi

blueapi runs [bluesky](https://blueskyproject.io) plans on behalf of remote
clients. This directory holds TLA+ modules that model the parts of it in which
several threads, processes or clients meet, the TLC configurations that check
them on small instances, and TLAPS proofs for instances of any size.

Contents: [the system](#the-system), [modules](#modules), [runs](#runs),
[fairness](#fairness), [proofs](#proofs), [what was found](#what-was-found),
[what is not modelled](#what-is-not-modelled), [plan](#plan).

## The system

    client / CLI --HTTP, websocket--> REST server --pool of 1 process--> subprocess
      |  ^                            (main.py,                          (interface.py,
      |  |                             runner.py)                         task_worker.py,
      |  +------------ message broker (STOMP) <-------------------------- RunEngine)
      +--- OIDC provider, cache file               numtracker, Tiled <----+

| Component | State | Operations | Modelled in |
|---|---|---|---|
| `worker/task_worker.py` `TaskWorker` | dictionaries of pending and completed tasks, one-place channel, current task, state, errors, trace context, three `Event`s | `submit_task`, `clear_task`, `begin_task`, `cancel_active_task`, `pause`, `resume`, `start`, `stop`, `get_tasks`; the loop of its thread; hooks of the RunEngine | `TaskWorker` |
| the same, status monitor | status snapshot, completed statuses | `_waiting_hook`, `_monitor_status` with its two callbacks | `PlanOutput` |
| `service/runner.py` `WorkerDispatcher` | the pool, the status of the environment | `start`, `stop`, `reload`, `run` | `EnvironmentReload` |
| event pipes of `runner.py`, `interface.py` | the subscriptions of a pipe | enter, read, exit | `EventStreams` |
| `core/event.py` `EventPublisher` | subscriptions by token | subscribe, unsubscribe, publish | `EventStreams`, `PlanOutput` |
| `service/interface.py` | caches of context, worker and STOMP client; Tiled subscriptions | `setup`, `teardown`, `begin_task`, `pipe_events` | `EnvironmentReload`, `PlanOutput`, `EventStreams` |
| `service/main.py` | the event loop, the dispatcher | REST handlers, websocket `run_plan` | `Service`; `/environment` in `EnvironmentReload` |
| `service/authorization.py`, `middleware.py` | none | questions to OPA, the check of a websocket's origin | `Service` |
| `service/authentication.py` (client side), `cli login`, `logout` | the cache file of the tokens | login, refresh, save, logout | `SessionTokens` |
| `client/` | cached plans | `run_task`, `run_blocking`, `reload_environment`, calls of plans | `EventStreams`, `EnvironmentReload`, `PlanCatalogue` |
| `core/context.py`, `device_lookup.py` | registered plans and devices | loading, lookup, validation of parameters | `PlanCatalogue` |
| `utils/path_provider.py`, `numtracker.py` | stack of start documents, headers | `run_start`, `run_stop`, `set_headers`, a scan per run | `PlanOutput` |
| RunEngine, `Pool`, broker, OIDC provider, OPA, Tiled | external | | from how the code uses them |
| other commands of the CLI, scratch area, configuration, logging, helm | none shared | sequential | not modelled |

What is hard here, and what makes each part correct:

* **Three threads share the worker without a lock.** The RPC thread checks
  `state` and `is_complete` before it puts a task; the worker thread moves the
  task's record from one dictionary to the other statement by statement; the
  RunEngine's hook changes `state` from a third thread, before the worker thread
  knows that the plan is over. Correct means: a task's plan is executed once, its
  record is never lost or double, its completion is published and tells the
  truth, `begin_task` returns when its task is the active one.
* **Waits that expire.** `begin_task` gives up after 5 s and `stop` after 30 s;
  neither takes back what it has put in the channel.
* **Callers that do not wait.** A task may be cleared, paused, cancelled or begun
  again at any moment; the worker may be stopped and started again.
* **Reloads.** Two may overlap; other requests go on using the pool meanwhile; the
  client polls a status that is assigned without a lock.
* **One event loop, one subprocess.** Handlers check in one call what they do in
  another, await OPA between a check and its use, and hold the loop while they call
  a subprocess that may be busy for as long as a plan. Correct means: users see and
  touch their own tasks, answers are true when they are given, everybody is
  answered.
* **Events on two ways.** A client must be subscribed before its plan can end, and
  what it unsubscribes must be its own.
* **State that outlives a task.** The path provider, the headers of numtracker, the
  Tiled writers and the statuses belong to a plan but are kept in the subprocess.
  Plans fail with runs open, pause, and go on in another call.
* **A file that several processes replace**, by deleting it and creating it anew,
  while a refresh token is good for one use only.
* **Two validations of a call**, by a client that caches what the server may have
  replaced.

`PROJECT.json` lists the hazards at their lines, with the properties that cover them.

## Modules

| Module | Models | Proofs in |
|---|---|---|
| `TaskLifecycle` | abstract specification: what a client may see of a task (absent, pending, running, complete, dropped) and of its announcement | |
| `TaskWorker` | the worker, its thread, the RPC thread and the RunEngine as seen from them; implements `TaskLifecycle` | `TaskWorkerProofs`, `OrderlyProofs` |
| `EnvironmentLifecycle` | abstract specification: what a client may see of the environment and of its own `reload_environment` | |
| `EnvironmentReload` | the dispatcher, `/environment`, `setup` and `teardown`, the client's `reload_environment`, over a pool; implements `EnvironmentLifecycle` when reloads do not overlap | `ReloadProofs` |
| `Service` | the REST application and the websocket: event loop, subprocess and worker as shared resources; implements `TaskLifecycle` | `ServiceProofs` |
| `EventStreams` | publisher, pipes and message bus, up to the clients' `run_task` and `run_blocking` | `StreamProofs` |
| `PlanOutput` | `interface.begin_task`, path provider, numtracker, Tiled writers and the status monitor, against plans that fail, pause and resume | `OutputProofs` |
| `SessionTokens` | the login of a user: cache file, refresh, login, logout by several processes | `TokenProofs` |
| `PlanCatalogue` | registered plans and devices, their lookup, the client's cache of plans and both validations of a call | `CatalogueProofs` |
| `MC...` | instances for TLC: symmetry sets, a view, values of constants | |

Each module looks at the worker at the grain its questions need. `TaskWorker` has every
statement that another thread can come between. `Service` takes `begin_task` as a call
that occupies the subprocess until the plan starts and `_cycle`'s end as two steps, and
both are shown to implement the same `TaskLifecycle`: what a client can rely on is the
same promise, seen from inside the subprocess and from the REST interface.
`PlanOutput` and `EventStreams` have the order of `_cycle` and leave out what
`TaskWorker` has already.

Operators whose comment begins with *Fault* are faulty versions of the operator that
follows them. No specification uses them; they are there to see that each property
can fail.

### TaskWorker

Variables keep the names of the fields. The dictionaries are sets of ids, and the
Boolean fields of the tasks are sets of the tasks that have them (`taken` is
`not is_pending`, `complete` is `is_complete`). `channel` is the `Queue(maxsize=1)`
as a set that `Room` keeps at one element. `flags` holds which of `_started`,
`_stopping` and `_stopped` are set. `errors` keeps which task was current when an
error was added, `context` for which task the trace context was cached: only
whether they are empty matters to the code.

Threads are program counters: `wpc` for the worker thread (one location per
statement of the end of `_cycle`, because the RPC thread reads what each of them
writes), `rpc` for the RPC thread. There is one RPC thread because the pool has one
process: `begin_task`, `start`, `stop` and the blocking `resume` (or the abort of a
paused plan) keep every other call waiting. Calls that are refused before they
change anything have no action. `get_tasks` without a status reads the two
dictionaries one after the other, so it is two steps, and the worker thread may
move a record between them (`listed` is what the first has read).

The RunEngine is external and is modelled from its use: a plan is started only by an
idle RunEngine, ends by itself or when it was asked to, may raise, may pause itself;
a pause ends in `PAUSED`, or in an abort where there is no checkpoint; a call that
was interrupted raises `RunEngineInterrupted`. Every change of its state is
`_on_state_change`. `SUSPENDING`, `HALTING`, `PANICKED` are never asked for by
blueapi and left out.

Three constants say what callers do: `MayTimeOut` (the waits may expire),
`RepeatBegin` (a task may be begun after it was put in the channel once),
`ClearBegun` (a begun task may be cleared before it is complete). With all of them
`TRUE` the callers are arbitrary. `submitted`, `begun`, `cleared`, `runs` and
`announced` are history.

### EnvironmentReload

An environment is a pool and its process, named by the id that `start` draws. A
reload is a thread with one location per access to the shared fields: `stop` reads
the id, runs `teardown` in whatever is `_subprocess` then, closes and joins whatever
is `_subprocess` by that time, and so on. `queue` holds the calls a process has to
execute, in order, each with the thread that waits for it. `cached` says in which
processes `interface.worker()` is cached; a call that finds it empty creates and
starts a worker.

The pool is external: a closed pool refuses calls, executes those it has and ends
when its process exits, for which the interpreter waits for the thread of a worker
that was not stopped (it belongs to a `ThreadPoolExecutor`); a pool that nobody
refers to terminates its process.

`Overlap` says whether a reload may be asked for while another is in progress. The
id that `start` will draw is chosen when the reload is scheduled; this only names it.

Without overlap it implements `EnvironmentLifecycle`, which has no threads, pools or
processes: there a reload that was asked for takes the environment away once and ends
with another, of an id never shown before; and a client that polls is told of an error
or of an environment that came after it asked. The mapping takes an id as seen when
`start` has published it (`Shown`), and a reload as over when its thread is idle. The
client of the code only compares ids; that this is enough is what the refinement shows.

### Service

A request is a program counter `pc` and a `job` (operation, user, task, and what it
has read). Its locations are the points where it can be overtaken: the awaits of
`async def` code and the calls of the subprocess. `loop` is the request that holds the
event loop between two awaits, `pool` the one whose call occupies the subprocess;
handlers written `def` run on threads and need only the second. At its end `pc` is the
status code or the close code of the websocket. Nothing is dropped that decides
between two codes; conditions on data (a malformed instrument session, parameters
that do not validate) are a choice.

OPA answers each question truthfully (`Admins`, `owner`) but late. `phase` stands for
the worker's dictionaries as a client sees them. `run_plan` is modelled with all its
exits, its pipe as the set of the events of its own task, and the client that leaves,
which only the next send notices.

### EventStreams

Each client runs one task, named after it, over a websocket (`Sockets`) or over the
message bus. `subs` maps tokens to subscribers as `_subscriptions` does, and `count` is
the counter the tokens come from; it starts again in the subprocess of a reload. The
forwarder to the broker has token 0. `inbox` is what lies in a pipe or has arrived on a
connection; the broker keeps the order and forgets what nobody is subscribed to.

A reload while a websocket is open is excluded: then the token of its pipe names
another subscription of the new publisher, or none, and the pipe gets no more events.
This is a limit of the code that `SubscriptionsKept` does not hold beyond.

### PlanOutput

A request goes from the check for an active task to `interface.begin_task` (headers,
Tiled subscriptions, `worker.begin_task`, the `except` clause that takes them back) to
the first event of its task. The worker is the cycle of four places that decides when
metadata is applied and a completion is published. Runs are opened inside each other
and closed by plans in any order; when a plan ends the RunEngine closes what it left
open, in any order. The stack `docs` is compared with `open`. A paused plan ends the
cycle with an error and goes on, when resumed, inside a call.

Statuses are reported from the devices' threads: the check of `_on_status_event` and
what follows are two steps, and so are the deletion from the snapshot and the addition
to the completed ones. A status may be updated again after it completed, which is what
`_completed_statuses` is there for until the end of a cycle clears it. `OneThread` is an
assumption on the device: it updates a status and calls its callbacks from one thread,
so that an update is never between its check and its effect while `on_complete` runs.
Watchers and callbacks of a device that uses several threads are outside
`ProgressSettled`.

### SessionTokens

A process is at one system call or request at a time: loading the file, the exchange
with the provider, and the deletion, creation, writing and `chmod` of `save_cache`. A
token set is the login it descends from and its number; `live` holds those whose
refresh token the provider accepts, each for one use. A file that is deleted while
another process has it open is written out of sight (`file.by`). A process may be
killed at any step, an answer may be lost with or without effect at the provider, and
the provider may refuse a refresh whose token it would accept (any status but 200, as 429
or 503), which deletes the cache. `refused` remembers that it did, or that the keys could
not be had; `excused` that processes overlapped, were killed or lost an answer. Neither
forgives more than it must: after a refusal `LoginKept` still demands that the cache is
gone or good.

### PlanCatalogue

A plan is a sequence of parameters (name, protocol, type argument, required), and an
environment a sequence of sources, loaded in order with the devices that fail to connect
left out. The last source that registers a name keeps it (`Keeps`), and a device that
replaces another takes the other's children away with it. What a device is made of is a
tree of nodes: devices with attributes, dictionaries with entries, and anything else.
`find_component` takes a step for each part of an address, through attributes or entries;
`find_device` splits the address at its dots first (`Parts`), so that a device whose own
name has a dot is not found by it. `IsCompatible` takes a type argument that extends the
one asked for. The client's `_build_args` and the server's validation are separate
definitions, over the plans each of them has; `fresh` tells whether the environment is
still the one the client fetched.

## Runs

| Run | Instance | Shows |
|---|---|---|
| `any_caller` | 2 tasks, arbitrary callers | `RecordsSettled`: records stay in one dictionary and completed ones carry an outcome; `EveryTaskListed`: what `get_tasks` reads one after the other misses no task but one being moved; `VerdictHonest`: the completion event agrees with outcome and errors; `RunsBounded`: no plan runs more than three times; `BegunIsCurrent`: `begin_task` returns when its task is the active one; `ImplementsLifecycle` |
| `orderly_caller` | 2 tasks, all switches `FALSE`, fairness | `NoQueue`, `CompletionReported`, `PlanIsCurrent`; `TracedAsOwn`: no documents under another task's trace; `CallsServed`: what a call waits for is on its way; `BegunCompletes`: a begun task is eventually announced; `CallsReturn`: no call blocks for ever |
| `run_twice` | 1 task, repeated begins | violation of `RunsAtMostOnce` |
| `reload_overlap` | 3 environments, 2 clients, 1 handler, overlapping reloads, timeouts | `ReloadUnderway`: a status that is neither initialized nor an error has a reload behind it; `NoCallLost`: nobody waits for a process that ended |
| `reload_alone` | 3 environments, 2 clients, no overlap, no other requests, fairness | `StatusHonest`: "initialized" names a subprocess that runs with its worker; `ImplementsEnvironment`: what clients see is an `EnvironmentLifecycle`; `ReloadEnds`, `ClientAnswered` without timeouts |
| `service` | 2 users (one admin), 2 tasks, 2 requests at a time | `OnlyOwnTasksShown`, `OnlyOwnersAct`: who sees, begins and deletes which task, across the awaits; `OneTaskAtATime`: two requests that both found the worker free give no queue; `NobodyForgotten`: whoever waits for a plan has its start, its end or its completion to come; `AnswersHonest`: 200 and 1000 are sent when the task was taken or announced; `ImplementsLifecycle` |
| `service_live` | 1 user, 1 task, 2 requests, fairness, plans stop | `Answered`: every request is answered; `EndTold`: a websocket whose client stays is told the end of its plan |
| `health_blocked` | the same, plans may go on for ever | violation of `HealthAnswered` |
| `streams` | 2 websockets, 1 client of the bus, 1 reload, fairness | `CompletionOnTheWay`: who waits has the completion coming; `SubscriptionsKept`: a token names the pipe it was given for; `RunReturns`: `run_task` and `run_blocking` come back |
| `plan_output` | 3 requests, 2 tasks, 3 runs, 1 status | `PathsFollowRuns`: the path provider follows nested runs; `NoStrayWriter`, `WriterPresent`: a Tiled writer is there for its request's plan and for no other; `ScansCredited`: scans under the metadata and headers they may have; `ProgressSettled`: a completed status stays out of the progress, however late it is updated |
| `tokens` | 2 processes, 3 token sets, crashes, lost answers, refusals | `SpentIsReplaced`: spent tokens stay in the cache only while they are being replaced; `LoginKept`: processes one after the other keep the login, unless the provider refuses what it could serve, and then the cache is good or gone |
| `catalogue` | 3 environments, one with a device that replaces another, every call over 3 addresses and up to 2 positional arguments | `ValidationsAgree`: client and server judge the plan and the names of a call alike |

The largest are `service` and `plan_output`, with about two million distinct states each;
the other passing runs have between 7000 and 1.6 million. Whether a run could miss what it
is about was tested with faulty operators: each property of each passing run fails when one
operator of the code's model is replaced by its *Fault* version (`PROJECT.json`, "mutants").
Type invariants are not among the runs: `TypeOK` of each module, or the part of the
inductive invariant that says the same, is proved.

`CHECK_DEADLOCK FALSE`: in `any_caller` the system can stop, as `stop` waits for room
in the channel that the worker thread, already gone, will never make. In the runs of
`EnvironmentReload` no ids are left to draw after two reloads, and a reload can hang. In
`streams`, `plan_output` and `tokens` every client is served, every request made or
every token issued at the end. The other runs check for deadlock.

Bounds, and why they are enough:

* *Worker*: two tasks give every conflict there is: its channel has one place, one task
  is current, one begin is in progress, and these may be the same task or different ones.
  Everything but submitting may happen any number of times.
* *Reload*: three environments give two reloads, which may overlap or follow each
  other, each also after an environment that failed to load.
* *Service*: two requests at once, of an admin and of another user, with two tasks; a
  request that was answered may be followed by another, so two bounds the overlap and
  not the number of requests. Two requests suffice for one check-then-act to be overtaken
  by another. In the liveness runs one task and one user: what keeps a request from
  being answered is the loop, the pool and the plan, each of which one task occupies.
* *Streams*: two websockets and a client of the bus use every pair of ways at once;
  one reload makes tokens repeat.
* *Output*: two requests for one task and one for another; three runs, so that two can be
  stacked in a resumed plan after one that was left over; one status, since
  statuses share nothing but the two sets, which the proof covers for any number.
* *Tokens*: three token sets allow a login, a refresh and a refresh of what that gave, or
  a second login; two processes give every overlap of two.
* *Catalogue*: three environments, with plans that are redefined, imported or private,
  and a device with an axis in a dictionary and a plain attribute, which in another
  environment is replaced by one that has neither, and one whose name has a dot. Plans
  have two parameters, so two positional arguments and every choice of keywords give
  every way to bind them.

Symmetry: ids of tasks, requests, processes, runs and reloads' clients are
interchangeable, as no action tells them apart; the runs with symmetry have no liveness
property. The `VIEW` of `service` forgets the code, the pipe and the presence of requests
that were answered: no action reads them before `Arrive` sets them anew.

## Fairness

What callers ask for, and when, is never assumed: nobody has to submit, begin, reload or
log in.

* `TaskWorker!FairSpec`: weak fairness of the steps of a call in progress and of the
  worker thread, which the operating system schedules, and of the end of plans (they end,
  and honour a pause), which is an assumption on the plans.
* `EnvironmentReload!FairSpec`: weak fairness of each process, of each reload thread, which
  the server's thread pool runs to its end, and of each client that polls.
* `Service!ServerSpec`: strong fairness of every step of a request and weak fairness of the
  worker thread. The event loop serves callbacks in the order in which they became ready and
  the pool its calls in the order they came, so a request whose step is possible again and
  again, between steps of others, is served; weak fairness would let others keep the loop
  from it for ever. Clients need not leave, nor bring a token. `FairSpec` adds that plans
  stop; `health_blocked` does without, as a plan may last for hours.
* `EventStreams!FairSpec`: weak fairness of each client and its handler, of the broker's
  delivery and of the worker, again with plans that end.
* `PlanOutput`, `SessionTokens` and `PlanCatalogue` have no liveness properties: what they
  are about is where things are, not whether they come.

## Proofs

All proofs are for sets of tasks, users, requests, clients, processes, runs and statuses of
any size. Their assumptions are the named `ASSUME`s of the modules, which only say that
constants do not collide (`NoTask` is no task, clients are not handlers), that switches are
Boolean and bounds are numbers, and what the sources of a catalogue look like. Theorems that need more say so (`~Overlap`, `~RepeatBegin`).

**The worker, whatever callers do** (`TaskWorkerProofs`). None of the properties is
inductive: that completed tasks have an outcome depends on where the worker thread is, and
that on which task it took. `RecordInv` follows the record of a task through `_cycle`:
`Kept` (a submitted task is in one dictionary, or cleared, or in the hands of the worker
thread between two statements), `Begun` (what is in the channel was begun, and by the begin
in progress if there is one), `OneThread`, `Taken` (tasks are taken one at a time and marked
complete before the next), `NotBoth`, `Verdicts` (outcome and errors go together). From it:
`RecordsAreSettled`, `NoTaskIsLost`, `VerdictIsHonest`, `BegunBecomesCurrent`, and
`WorkerImplementsLifecycle`: submitting, clearing, taking and marking complete are the steps
of `TaskLifecycle` of the same meaning (or invisible, when a task is executed again or was
dropped), every event is an announcement of a task that has ended or invisible, and every
other step is invisible. `PlansRunThreeTimesAtMost` counts, beside the executions there
were, those that may still come (`FewInv`): of the task the worker thread has taken, of the
one in the channel, and of the one whose `begin_task` is past its checks. Before the task is
marked complete the first two are one; afterwards nothing passes the checks any more, and
there are places for three in all. `NoTaskIsLost` needs, beside `Kept`, what was read
first (`ListedInv`): a task in neither what was read nor the completed tasks is the one
that `_cycle` has taken out just now; tasks only move towards what is read last.

**The worker under restrictions** (`OrderlyProofs`). The proofs show which restriction each
property needs, which is less than the run assumes:

* `NothingIsQueued` and `PlanBelongsToCurrent`, `~RepeatBegin` and `~MayTimeOut`: a task
  about to be put was never in the channel, and one in the channel was never taken
  (`OnceInv`); a task in the channel, or taken and not started, belongs to the begin in
  progress, and the RunEngine is idle from its checks until its plan starts (`OneAtWorkInv`);
* `DocumentsTracedAsOwn`, from the same assumptions: the context cached by a `begin_task` is
  that of the task in the channel, then of the task taken, then of the plan, or it was reset
  (`TracedInv`);
* `CallsAreServed`, from the same assumptions as the last two: `Threads` says where the
  worker thread is when its Events are set and that a kill signal is read by a thread that
  is not ending, and that the task of a `begin_task` is still pending when `_cycle` pops it,
  so that its cycle ends with an event. With `RepeatBegin` it is false: a begin repeated
  during the first execution is taken when the task's record is gone, and if its plan then
  fails to start, no event comes and only the timeout of 5 s ends the call;
* `CompletionIsReported`, only `~ClearBegun`: a begun task stays in the channel until it is
  taken and pending until `_cycle` pops it (`ReportedInv`).

**Reload** (`ReloadProofs`). For overlapping reloads: `StatusIsNeverAbandoned` (the two steps
that leave a reload make the status final, and the subprocess never ends one) and
`CallsAreNeverLost`, for which `CallInv` says more than the property: the call of each
thread that waits *is* in the queue of a process that has not ended, and a process with
calls in its queue does not end. Under `~Overlap`, `StatusIsHonest` and `ReloadIsOver` rest
on `AloneInv`: `OneReload` (the others are at rest), `CallsAwaited` (a `setup` or `teardown`
in a queue has the reload waiting for it), `NotYetTold` (no client has seen a status of a
reload that is not over) and `NewSubprocess` (the subprocess of a reload that is under way
is the one it made, and it runs). Other requests and timeouts are allowed.
`DispatcherImplementsLifecycle` takes every step of the module to one of
`EnvironmentLifecycle` or to none: `delete_environment` is `Ask`, the end of `stop` is
`TakeAway` (or nothing, after a failed load), the end of `start` is `Renew`, the poll that
decides is `Answer`. It needs `LifecycleInv` (`stop` keeps the id it read, a drawn id is
not shown before its reload ends, no reload is initialized between `stop` and the end of
`start`) beside `AloneInv`. With `Overlap` a second reload can be asked for while the first
one is about to renew the environment, and TLC finds behaviours outside the specification.

**The service** (`ServiceProofs`). `ServiceInv` has four parts besides the types.
`RequestsInv` says what has been checked for a request at each place it can have reached;
checks stay true because tasks neither become absent again nor change their owner, which is
why the awaits between a check and its use do no harm there. `EngineInv` says who occupies
the worker: a request that waits for its plan to start has the subprocess, and the RunEngine
is idle. `PhaseInv` relates the tasks to the worker thread, `PipeInv` the pipe of a websocket
to what was announced. From these `OwnTasksShown`, `OwnersAct`, `WorkerHasOneTask`,
`HonestAnswers` and `ServiceImplementsLifecycle`. `NobodyIsForgotten` is the safety half of
`Answered` and `EndTold`: it needs `ToldInv`, which follows the completion of a task from the
step that makes it complete, through the report, into the pipe of every websocket for it,
and says that nobody streams a task that has not started.

**Events** (`StreamProofs`). `SubscriptionsAreKept` needs that a token is given once: every
open pipe has a token, every token an open pipe or the forwarder, and all are below the
counter. `CompletionIsOnTheWay` needs moreover that a client listens before its task can be
executed, and that a task is executed once.

**Output** (`OutputProofs`). Runs, statuses and requests do not disturb each other, so there
are three invariants. `RunsInv`: open runs differ. `StatusInv`: under `OneThread` a status
is not being updated when it completes, and an update after that is checked against the
completed ones, so that it is dropped until they are cleared. `CallsInv`: the subprocess serves one `begin_task`
at a time (`OneCall`), a task is no longer pending or is complete before another is taken
(`CycleInv`), writers and the callbacks that remove them come together and belong to a place
of their request (`WritersInv`), and whoever may still set the headers of an executing plan
came before it (`EarlyInv`).

**Tokens** (`TokenProofs`). `SpentIsReplaced` needs that a token set being saved was just
issued and that nobody else has it (`Fresh`), hence that it is different from all before
(`Numbered`). `LoginKept` only speaks of the time between calls; `Steadiness` says where the
tokens are in the middle of one, for a process nobody interferes with (`Sole`), and that
a refusal leads to the deletion of the cache.

**Catalogue** (`CatalogueProofs`). What a configuration loads is characterised without
going through it source by source: `LoadedPlans` says that each name is that of the last
source which has it (`KeeperExists` finds that source). With it `CatalogueInv` is
inductive: the parameters of a plan are in a sequence, as the sources have them
(`ContextInv`); the plans of a client which is up to date are the server's (`CacheInv`);
and what the last call was checked against still stands (`CallInv`). Then `BoundFit` and
`UnboundMismatch` compare `_build_args` with the validation of the server, for any
parameters, any keywords and any number of positional arguments, and give
`ValidationsAreOne`. It concerns the plan and the names of a call; whether values fit is
for the server alone to say. It assumes of the sources that their plans have sequences of
parameters (`SourcesAssumption`), and of the arguments that their number is bounded by a
number (`ArgumentsAssumption`).

Only model-checked: everything about liveness (`BegunCompletes`, `CallsReturn`, `ReloadEnds`,
`ClientAnswered`, `Answered`, `EndTold`, `RunReturns`), which the prover cannot do. What can
be proved of it is that there is always something to wait for: `CallsServed`,
`CompletionReported`, `ReloadUnderway`, `NoCallLost`, `NobodyForgotten` and
`CompletionOnTheWay` say so, and fairness, on which the runs rest, then makes it come.

## What was found

Two runs end with a counterexample to what the repository says; `PROJECT.json` quotes the
lines.

* `run_twice`: the worker is `IDLE` again before the task is marked complete; a repeated
  `begin_task` in between runs the plan again.
* `health_blocked`: `PUT /worker/state` that resumes a plan, or aborts a paused one, runs
  the rest of the plan while it holds the event loop, and the liveness probe is not answered.

The models show more. These are behaviours of the modules, each visible by dropping the
restriction or the exception named in brackets:

* *Worker.* Clearing the running task makes the end of `_cycle` raise, and its completion is
  never published (`ClearBegun`; the exception "dropped" of `Answered`). A `begin_task`
  that timed out leaves its task in the channel, which then is a queue (`MayTimeOut`). One
  that was repeated, and whose plan cannot start the second time, gets no event and can only
  time out (`RepeatBegin`). A
  pause ends the cycle and completes the task, with an error; the documents of the
  resumed plan carry the id of whatever task is current then, and have no trace context.
  `stop` puts its signal without a timeout, and waits for ever when the worker thread is
  gone; it leaves a paused plan in the RunEngine. A listing of all tasks may show a task
  twice, when it moves between the two reads, or miss one whose record is between the
  dictionaries (the exception in `EveryTaskListed`); the docstring of `get_tasks` says "If
  status is None return all tasks." A `begin_task` that passes its checks when the
  RunEngine has become idle, and caches its trace context before the cycle that ends has
  reset it (lines 472-474), loses it, and the documents of its plan are refused at line 596
  (`context = NoTask` in `TracedAsOwn`).
* *Reload.* With `Overlap`, `StatusHonest` and `ReloadOver` fail: the status may name an
  environment that was replaced, and a client may return with one that its own reload is
  about to tear down. A request that executes after `teardown` creates a worker in the
  process that should exit, and the reload never ends. After a failed load, a client can take
  the old error for that of its own reload. A reload under an open websocket makes its token
  name another subscription or none (the guard of `EventStreams!Reload`).
* *Service.* `set_state` checks the owner of the active task, asks OPA, and acts on the task
  that is active then; a websocket that is left cancels whatever is active. Neither begins
  nor deletes a task, so `OnlyOwnersAct` holds, but the plan that is paused or cancelled may
  be another user's.
* *Output.* When a plan fails with nested runs open, the RunEngine may close them in an order
  the path provider refuses; it then keeps stale documents for later plans (`rejected`). A
  resumed plan has no Tiled writer, and its scans are made with the headers of whichever
  request came last. A deleted running task leaves its writer subscribed (`cleared`). The
  statuses of an aborted plan stay in the snapshot. When a device completes a status in one
  thread and updates it from another (`OneThread = FALSE`), `ProgressSettled` fails: an
  update that was checked before line 625 brings the completed status back, against the
  comment at line 660, "Ensure completed statues are not re-added and published". From one
  thread too it comes back if the update is later than the end of the cycle, which
  clears what is remembered (line 483).
* *Tokens.* Two overlapping processes of one user can lose the login, as each deletes the
  file the other has written (`excused`). A network error while the keys are fetched
  deletes the cache, and so does any refusal of a refresh, also of a token that is still
  good: a busy provider ends the login (`refused`). A refresh that fails raises, where the docstring of
  `get_valid_access_token` speaks of an empty string.
* *Catalogue.* An address below an unknown device raises in the server. A device whose
  name has a dot is registered and listed, but an address with that name is split and does
  not find it. The client's plans are stale after another client's reload (`fresh`).

## What is not modelled

* Values: documents, results, the contents and signatures of tokens, the conversion of
  nested and composite parameters, the wording of messages, logging and tracing apart from
  the cached context.
* Subscribers that raise. `EventPublisher.publish` calls all the others and then raises in
  its caller, the RunEngine's hook or the worker thread. The handlers of pipes catch a
  broken pipe; it would take another failure of a pipe, of the broker or of Tiled.
* In `TaskWorker`, the wait of `start` that expires, after which a second `start` would
  create a second thread (lines 356-361), and `get_tasks` failing because a dictionary
  changes while a comprehension reads it (221-227).
* In `Service`, the wait of 5 s in `begin_task`, which `TaskWorker` has; the event pipe is
  not bounded, so that the worker thread never blocks in `send`.
* In `EventStreams`, the time the broker takes for a SUBSCRIBE frame: it is sent without a
  receipt, and the model takes it as served before the task is begun. Reloads under an open
  websocket (the guard of `Reload`).
* In `PlanOutput`, documents of a resumed plan that the worker refuses for want of a trace
  context: its run then stays open while its document is off the stack.
* In `SessionTokens`, that `login` asks for the server's configuration, with the token it
  has just found to be invalid, before it starts the device flow.
* In `PlanCatalogue`, fields that `SkipJsonSchema` hides from the client; `DeviceCache`, the
  client's own cache of devices; the enumerations of devices in schemas.
* The liveness runs of `Service` have one user and one task: what keeps a request waiting
  there is its own plan or another request for it, not another user's task.
* The stop of the dispatcher when the server shuts down.
* OpenAPI, redirects, CORS, version headers, `TiledAuth`.
* The callbacks and timeouts that users give to `run_task`.
* The CLI's other commands, which call the client once and print; the scratch area, a
  sequence of git and pip commands before the server starts; configuration; the helm chart.
  They are sequential, share no state with anything else, and consist of input and output.

## Plan

What would come next, in this order:

1. Reloads under open websockets: `EventStreams` without the guard of `Reload`, with a pipe
   whose reader or writer is gone.
2. Subscribers that raise, in `EventStreams` and at the end of `_cycle`.
3. Conversion of composite parameters in `PlanCatalogue`, by nesting types one level.
4. `EnvironmentReload` under `Service`: requests whose subprocess is replaced between two of
   their calls.
