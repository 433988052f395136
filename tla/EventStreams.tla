---------------------------- MODULE EventStreams ----------------------------
(***************************************************************************)
(* How the events of the worker reach the clients that run a plan and wait *)
(* for its end.  The worker publishes (core/event.py); two kinds of        *)
(* subscribers pass its events on:                                         *)
(*                                                                         *)
(*   - the STOMP client of the subprocess forwards them to a topic of a    *)
(*     message broker, to which BlueapiClient.run_task subscribes;         *)
(*   - a pipe per websocket (service/runner.py, service/interface.py),     *)
(*     which the handler of /api/v2/run_plan reads for                     *)
(*     BlueapiClient.run_blocking.                                         *)
(*                                                                         *)
(* A reload replaces the subprocess: its tasks, subscriptions and the      *)
(* counter their tokens come from start again, pipes and the broker stay.  *)
(* The three publishers of a worker are used alike, so only that of worker *)
(* events is here.  No running task is deleted: its end is not published   *)
(* (see TaskWorker).                                                       *)
(***************************************************************************)
EXTENDS Naturals, Sequences, Functions

CONSTANTS
  Clients,    \* the clients; each runs one task, named after it
  Sockets,    \* those that use a websocket; the others use the message bus
  NoClient,   \* no task
  MaxReloads  \* bound on the reloads of the environment

\* The subscriber that forwards to the broker, with token 0.
Forwarder == "stomp"

ASSUME StreamsAssumption ==
  /\ Sockets \subseteq Clients
  /\ {NoClient, Forwarder} \cap Clients = {}
  /\ MaxReloads \in Nat

VARIABLES
  \* The subprocess
  reloads,    \* reloads so far
  count,      \* _count of the publisher: the next token
  subs,       \* _subscriptions: token -> who gets the events
  known,      \* the tasks that are pending
  active,     \* the task that was begun last
  engine,     \* idle, running, or over: the end is not published yet
  \* Between
  topic,      \* messages in the broker
  listening,  \* the clients subscribed to the topic
  inbox,      \* what has arrived for each client: its pipe or its connection
  \* The clients and the handlers of their websockets
  pc,         \* where each client is
  handle,     \* the token of each websocket's pipe
  \* History
  reported    \* the tasks whose completion was published

subprocessVars == <<reloads, known, active, engine, reported>>
publisherVars  == <<count, subs>>
deliveryVars   == <<topic, inbox>>
clientVars     == <<listening, pc, handle>>
vars == <<subprocessVars, publisherVars, deliveryVars, clientVars>>

Events == [task: Clients, complete: BOOLEAN]

\* new; created: has a task; ready: and will get its events; waiting: the task
\* was begun; closing: the last event was read; returned or failed.
Locations == {"new", "created", "ready", "waiting", "closing", "returned", "failed"}

TypeOK ==
  /\ reloads \in 0 .. MaxReloads
  /\ count \in Nat
  /\ DOMAIN subs \subseteq 0 .. count - 1
  /\ \A i \in DOMAIN subs : subs[i] \in Sockets \cup {Forwarder}
  /\ known \subseteq Clients /\ active \in Clients \cup {NoClient}
  /\ engine \in {"idle", "running", "over"}
  /\ topic \in Seq(Events) /\ inbox \in [Clients -> Seq(Events)]
  /\ listening \subseteq Clients \ Sockets
  /\ pc \in [Clients -> Locations]
  /\ handle \in [Clients -> Nat]
  /\ reported \subseteq Clients

\* setup: a worker, and the STOMP client with its subscription.
Init ==
  /\ reloads = 0 /\ known = {} /\ active = NoClient /\ engine = "idle"
  /\ count = 1 /\ subs = [i \in {0} |-> Forwarder]
  /\ topic = <<>> /\ inbox = [c \in Clients |-> <<>>]
  /\ listening = {} /\ pc = [c \in Clients |-> "new"] /\ handle = [c \in Clients |-> 0]
  /\ reported = {}

-----------------------------------------------------------------------------
(* EventPublisher.                                                         *)

\* next(self._count)
Token == count

\* Fault: all subscriptions go.
UnsubscribeAll(i) == subs' = [j \in {} |-> Forwarder]

\* del self._subscriptions[subscription]
Unsubscribe(i) == subs' = Restrict(subs, DOMAIN subs \ {i})

\* publish calls every subscriber with the event.
Publish(e) ==
  /\ topic' = IF Forwarder \in Range(subs) THEN Append(topic, e) ELSE topic
  /\ inbox' = [c \in Clients |->
                 IF c \in Sockets /\ c \in Range(subs) THEN Append(inbox[c], e)
                                                       ELSE inbox[c]]

-----------------------------------------------------------------------------
(* The clients.                                                            *)

Goto(c, l) == pc' = [pc EXCEPT ![c] = l]

\* The with statement of the client ends: EventPipe.__exit__ closes and
\* unsubscribes the pipe, EventBusClient.__exit__ unsubscribes and disconnects.
Exit(c, l) ==
  /\ IF c \in Sockets THEN Unsubscribe(handle[c]) ELSE UNCHANGED subs
  /\ listening' = listening \ {c}
  /\ inbox' = [inbox EXCEPT ![c] = <<>>]
  /\ handle' = [handle EXCEPT ![c] = 0]
  /\ Goto(c, l)
  /\ UNCHANGED <<subprocessVars, count, topic>>

\* create_task, or the first half of run_plan: the task is accepted or refused.
CreateTask(c) ==
  /\ pc[c] = "new"
  /\ \/ Goto(c, "created") /\ known' = known \cup {c}
     \/ Goto(c, "failed") /\ UNCHANGED known
  /\ UNCHANGED <<reloads, active, engine, reported, publisherVars, deliveryVars,
                 listening, handle>>

\* run_task connects to the broker and subscribes to the topic; it may fail.
SubscribeToAllEvents(c) ==
  /\ c \notin Sockets /\ pc[c] = "created"
  /\ \/ Goto(c, "ready") /\ listening' = listening \cup {c}
     \/ Goto(c, "failed") /\ UNCHANGED listening
  /\ UNCHANGED <<subprocessVars, publisherVars, deliveryVars, handle>>

\* EventPipe.__enter__: pipe_events in the subprocess.
PipeEvents(c) ==
  /\ c \in Sockets /\ pc[c] = "created"
  /\ handle' = [handle EXCEPT ![c] = Token]
  /\ subs' = [i \in DOMAIN subs \cup {Token} |-> IF i = Token THEN c ELSE subs[i]]
  /\ count' = count + 1
  /\ Goto(c, "ready")
  /\ UNCHANGED <<subprocessVars, deliveryVars, listening>>

\* Fault: run_task begins the task before it listens.
CreatedIsReady(c) == pc[c] = "ready" \/ (pc[c] = "created" /\ c \notin Sockets)

\* The client has subscribed.
Ready(c) == pc[c] = "ready"

\* Fault: the response to update_worker_task is not looked at.
RefusalIgnored(c) ==
  Goto(c, "waiting") /\ UNCHANGED <<subprocessVars, publisherVars, deliveryVars,
                                    listening, handle>>

\* The exception for the response, or ServerBusy, ends run_task and run_plan.
Refused(c) == Exit(c, "failed")

\* update_worker_task, or run_plan's begin_task: a task lost in a reload or a
\* busy worker is refused, else begin_task subscribes until the plan starts.
BeginTask(c) ==
  /\ Ready(c)
  /\ IF c \in known /\ engine = "idle"
       THEN /\ known' = known \ {c} /\ active' = c /\ engine' = "running"
            /\ count' = count + 1
            /\ Publish([task |-> c, complete |-> FALSE])
            /\ Goto(c, "waiting")
            /\ UNCHANGED <<reloads, reported, listening, handle, subs>>
       ELSE Refused(c)

\* inner_on_event, or one turn of run_plan's loop and of run_blocking's: events
\* of other tasks are passed over, the completion ends the wait.
NextEvent(c) ==
  /\ pc[c] = "waiting" /\ inbox[c] # <<>>
  /\ inbox' = [inbox EXCEPT ![c] = Tail(@)]
  /\ IF Head(inbox[c]) = [task |-> c, complete |-> TRUE]
       THEN Goto(c, "closing") ELSE UNCHANGED pc
  /\ UNCHANGED <<subprocessVars, publisherVars, topic, listening, handle>>

Leave(c) == pc[c] = "closing" /\ Exit(c, "returned")

-----------------------------------------------------------------------------
(* The broker (external), the worker and the reload.                       *)

\* A message reaches the clients that are subscribed by now.
Deliver ==
  /\ topic # <<>>
  /\ topic' = Tail(topic)
  /\ inbox' = [c \in Clients |->
                 IF c \in listening THEN Append(inbox[c], Head(topic)) ELSE inbox[c]]
  /\ UNCHANGED <<subprocessVars, publisherVars, clientVars>>

\* The plan ends, a while before its completion is published.
PlanEnds ==
  /\ engine = "running" /\ engine' = "over"
  /\ UNCHANGED <<reloads, known, active, reported, publisherVars, deliveryVars, clientVars>>

ReportStatus ==
  /\ engine = "over" /\ engine' = "idle"
  /\ reported' = reported \cup {active}
  /\ Publish([task |-> active, complete |-> TRUE])
  /\ UNCHANGED <<reloads, known, active, publisherVars, clientVars>>

\* The websockets with a pipe.
Piped == {c \in Sockets : pc[c] \in {"ready", "waiting", "closing"}}

\* teardown waits for the plan and its completion, setup starts from scratch.  No
\* reload while a websocket is open: its token means something else afterwards.
Reload ==
  /\ reloads < MaxReloads /\ engine = "idle" /\ Piped = {}
  /\ reloads' = reloads + 1
  /\ known' = {} /\ active' = NoClient
  /\ count' = 1 /\ subs' = [i \in {0} |-> Forwarder]
  /\ UNCHANGED <<engine, reported, deliveryVars, clientVars>>

-----------------------------------------------------------------------------
Step(c) ==
  \/ SubscribeToAllEvents(c) \/ PipeEvents(c) \/ BeginTask(c) \/ NextEvent(c) \/ Leave(c)

Worker == PlanEnds \/ ReportStatus

Next == (\E c \in Clients : CreateTask(c) \/ Step(c)) \/ Deliver \/ Worker \/ Reload

Spec == Init /\ [][Next]_vars

\* Clients, handlers, worker and broker go on; plans end.  Nobody has to start a
\* task or a reload.
FairSpec ==
  /\ Spec
  /\ \A c \in Clients : WF_vars(Step(c))
  /\ WF_vars(Deliver) /\ WF_vars(Worker)

-----------------------------------------------------------------------------
(* Properties.                                                             *)

\* Nobody waits for an event that will not come: the completion of a task that
\* was published is in the inbox of the client that waits for it, or in the broker
\* with that client subscribed (run_task subscribes before it begins the task).
CompletionOnTheWay ==
  \A c \in reported :
    pc[c] = "waiting" =>
      LET e == [task |-> c, complete |-> TRUE]
      IN \/ e \in Range(inbox[c])
         \/ c \in listening /\ e \in Range(topic)

\* A subscription lives as long as its user: the token of an open websocket names
\* its own pipe, nobody else's, and the forwarder is never unsubscribed.
SubscriptionsKept ==
  /\ \A c \in Piped : handle[c] \in DOMAIN subs /\ subs[handle[c]] = c
  /\ \A i \in DOMAIN subs : subs[i] = Forwarder \/ subs[i] \in Piped
  /\ Forwarder \in Range(subs)

\* run_task and run_blocking come back, and after a task that was begun they do so
\* with its completion.
RunReturns ==
  \A c \in Clients :
    pc[c] = "created" ~> pc[c] = "failed" \/ (pc[c] = "returned" /\ c \in reported)
=============================================================================
