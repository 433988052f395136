---------------------------- MODULE StreamProofs -----------------------------
(***************************************************************************)
(* Proofs that the subscriptions of a worker live as long as their users,  *)
(* and that nobody waits for a completion that will not come.              *)
(*                                                                         *)
(* SubscriptionsKept needs that tokens are not used twice (Tokens).        *)
(* CompletionOnTheWay needs that a task is begun only after its client     *)
(* listens, and once (Listens, Begun).                                     *)
(***************************************************************************)
EXTENDS EventStreams, TLAPS

\* Between the entry and the exit of its with statement.
Joined(c) == pc[c] \in {"ready", "waiting", "closing"}

\* The tokens given out are those of the forwarder and of open pipes ...
Tokens ==
  /\ 0 \in DOMAIN subs /\ subs[0] = Forwarder
  /\ \A i \in DOMAIN subs :
       i # 0 => subs[i] \in Sockets /\ Joined(subs[i]) /\ handle[subs[i]] = i

\* ... and every open pipe has one.
Pipes ==
  \A c \in Sockets : Joined(c) => handle[c] \in DOMAIN subs /\ subs[handle[c]] = c

\* The clients of the message bus are subscribed before they begin their task.
Listens == \A c \in Clients \ Sockets : Joined(c) => c \in listening

\* A task that is executed, or was, is one that its client has begun.
Begun ==
  /\ engine # "idle" => active \in Clients
  /\ \A c \in Clients :
       c \in reported \/ (engine # "idle" /\ active = c) => pc[c] \notin {"new", "created", "ready"}

StreamsInv ==
  /\ TypeOK /\ Tokens /\ Pipes /\ Listens /\ Begun /\ CompletionOnTheWay

\* An event that is added to a queue is in it, and so are those before it.
LEMMA AppendKeeps ==
  ASSUME NEW s \in Seq(Events), NEW e \in Events
  PROVE  /\ Append(s, e) \in Seq(Events) /\ e \in Range(Append(s, e))
         /\ \A x \in Range(s) : x \in Range(Append(s, e))
<1>1. Append(s, e) \in Seq(Events)
  OBVIOUS
<1>2. Append(s, e)[Len(s) + 1] = e /\ Len(s) + 1 \in DOMAIN Append(s, e)
  OBVIOUS
<1>3. \A i \in DOMAIN s : i \in DOMAIN Append(s, e) /\ Append(s, e)[i] = s[i]
  OBVIOUS
<1> QED
  BY <1>1, <1>2, <1>3 DEF Range

\* What is taken from a queue was in it, and the rest stays.
LEMMA TailKeeps ==
  ASSUME NEW s \in Seq(Events), s # <<>>
  PROVE  /\ Tail(s) \in Seq(Events) /\ Head(s) \in Events
         /\ \A x \in Range(s) : x = Head(s) \/ x \in Range(Tail(s))
<1>1. Tail(s) \in Seq(Events) /\ Head(s) \in Events
  OBVIOUS
<1>2. \A i \in DOMAIN s : i # 1 => i - 1 \in DOMAIN Tail(s) /\ Tail(s)[i - 1] = s[i]
  OBVIOUS
<1>3. s[1] = Head(s)
  OBVIOUS
<1> QED
  BY <1>1, <1>2, <1>3 DEF Range

\* A client gets a task.
LEMMA CreateTaskKeeps ==
  ASSUME StreamsInv, NEW c \in Clients, CreateTask(c)
  PROVE  StreamsInv'
<1> USE StreamsAssumption DEF StreamsInv, TypeOK, CreateTask, Goto, subprocessVars,
   publisherVars,
        deliveryVars, clientVars
<1>1. TypeOK'
  BY DEF Locations, Events
<1>2. Tokens'
  <2>1. \A d \in Clients : Joined(d) => Joined(d)'
    BY DEF Joined
  <2>2. \A i \in DOMAIN subs : i # 0 => subs[i] \in Sockets /\ Joined(subs[i])'
    BY <2>1 DEF Tokens
  <2> QED
    BY <2>2 DEF Tokens
<1>3. Pipes'
  BY DEF Pipes, Tokens, Joined
<1>4. Listens'
  BY DEF Listens, Joined
<1>5. Begun'
  BY DEF Begun
<1>6. CompletionOnTheWay'
  BY DEF CompletionOnTheWay
<1> QED
  BY <1>1, <1>2, <1>3, <1>4, <1>5, <1>6

\* A client of the message bus listens.
LEMMA SubscribeToAllEventsKeeps ==
  ASSUME StreamsInv, NEW c \in Clients, SubscribeToAllEvents(c)
  PROVE  StreamsInv'
<1> USE StreamsAssumption DEF StreamsInv, TypeOK, SubscribeToAllEvents, Goto, subprocessVars,
   publisherVars,
        deliveryVars, clientVars
<1>1. TypeOK'
  BY DEF Locations, Events
<1>2. Tokens'
  <2>1. \A d \in Clients : Joined(d) => Joined(d)'
    BY DEF Joined
  <2>2. \A i \in DOMAIN subs : i # 0 => subs[i] \in Sockets /\ Joined(subs[i])'
    BY <2>1 DEF Tokens
  <2> QED
    BY <2>2 DEF Tokens
<1>3. Pipes'
  BY DEF Pipes, Tokens, Joined
<1>4. Listens'
  BY DEF Listens, Joined
<1>5. Begun'
  BY DEF Begun
<1>6. CompletionOnTheWay'
  BY DEF CompletionOnTheWay
<1> QED
  BY <1>1, <1>2, <1>3, <1>4, <1>5, <1>6

\* A websocket gets its pipe.
LEMMA PipeEventsKeeps ==
  ASSUME StreamsInv, NEW c \in Clients, PipeEvents(c)
  PROVE  StreamsInv'
<1> USE StreamsAssumption DEF StreamsInv, TypeOK, PipeEvents, Goto, subprocessVars,
   publisherVars,
        deliveryVars, clientVars
<1>1. TypeOK'
  BY DEF Token, Locations, Events
<1>2. Tokens'
  BY DEF Token, Tokens, Joined
<1>3. Pipes'
  BY DEF Token, Pipes, Tokens, Joined
<1>4. Listens'
  BY DEF Token, Listens, Joined
<1>5. Begun'
  BY DEF Token, Begun
<1>6. CompletionOnTheWay'
  BY DEF Token, CompletionOnTheWay
<1> QED
  BY <1>1, <1>2, <1>3, <1>4, <1>5, <1>6

\* A client leaves its with statement.
LEMMA ExitKeeps ==
  ASSUME StreamsInv, NEW c \in Clients, Joined(c), NEW l \in {"returned", "failed"},
         Exit(c, l)
  PROVE  StreamsInv'
<1> USE StreamsAssumption DEF StreamsInv, TypeOK, Exit, Goto, subprocessVars, publisherVars,
        deliveryVars, clientVars
<1>1. TypeOK'
  BY DEF Unsubscribe, Restrict, Locations, Events
<1>2. Tokens'
  <2>1. \A d \in Clients \ {c} : (Joined(d) => Joined(d)') /\ handle'[d] = handle[d]
    BY DEF Joined
  <2>2. CASE c \in Sockets
    <3>1. subs' = [i \in DOMAIN subs \ {handle[c]} |-> subs[i]]
      BY <2>2 DEF Unsubscribe, Restrict
    <3>2. handle[c] # 0
      BY <2>2 DEF Tokens, Pipes
    <3>3. \A i \in DOMAIN subs' : i # 0 => subs[i] \in Sockets \ {c} /\ handle[subs[i]] = i
      BY <2>2, <3>1 DEF Tokens
    <3>4. \A i \in DOMAIN subs' : i # 0 => Joined(subs[i])
      BY <3>1 DEF Tokens
    <3> QED
      BY <2>1, <3>1, <3>2, <3>3, <3>4 DEF Tokens
  <2>3. CASE c \notin Sockets
    <3>1. subs' = subs
      BY <2>3
    <3>2. \A i \in DOMAIN subs : i # 0 => subs[i] \in Clients \ {c}
      BY <2>3 DEF Tokens
    <3> QED
      BY <2>1, <3>1, <3>2 DEF Tokens
  <2> QED
    BY <2>2, <2>3
<1>3. Pipes'
  BY DEF Unsubscribe, Restrict, Pipes, Tokens, Joined
<1>4. Listens'
  BY DEF Unsubscribe, Restrict, Listens, Joined
<1>5. Begun'
  BY DEF Unsubscribe, Restrict, Begun
<1>6. CompletionOnTheWay'
  BY DEF Unsubscribe, Restrict, CompletionOnTheWay
<1> QED
  BY <1>1, <1>2, <1>3, <1>4, <1>5, <1>6

\* A task is begun, or refused.
LEMMA BeginTaskKeeps ==
  ASSUME StreamsInv, NEW c \in Clients, BeginTask(c)
  PROVE  StreamsInv'
<1> USE StreamsAssumption DEF StreamsInv, TypeOK, Ready
<1>1. CASE c \in known /\ engine = "idle"
  <2> DEFINE e == [task |-> c, complete |-> FALSE]
  <2>1. /\ pc[c] = "ready" /\ pc' = [pc EXCEPT ![c] = "waiting"]
        /\ known' = known \ {c} /\ active' = c /\ engine' = "running"
        /\ count' = count + 1 /\ Publish(e)
        /\ UNCHANGED <<reloads, reported, listening, handle, subs>>
    BY <1>1 DEF BeginTask, Goto
  <2>2. e \in Events
    BY DEF Events
  <2>3. topic' \in Seq(Events) /\ \A x \in Range(topic) : x \in Range(topic')
    BY <2>1, <2>2, AppendKeeps DEF Publish
  <2>4. inbox' \in [Clients -> Seq(Events)]
    BY <2>1, <2>2, AppendKeeps DEF Publish
  <2>5. \A d \in Clients : \A x \in Range(inbox[d]) : x \in Range(inbox'[d])
    BY <2>1, <2>2, AppendKeeps DEF Publish
  <2>6. TypeOK'
    <3>1. DOMAIN subs' \subseteq 0 .. count' - 1 /\ count' \in Nat
      BY <2>1
    <3> QED
      BY <2>1, <2>3, <2>4, <3>1 DEF Locations
  <2>7. Tokens' /\ Pipes' /\ Listens'
    BY <2>1 DEF Tokens, Pipes, Listens, Joined
  <2>8. Begun'
    BY <2>1 DEF Begun
  <2>9. CompletionOnTheWay'
    <3>1. c \notin reported
      BY <2>1 DEF Begun
    <3> SUFFICES ASSUME NEW d \in reported, pc'[d] = "waiting"
                 PROVE  LET f == [task |-> d, complete |-> TRUE]
                        IN f \in Range(inbox'[d]) \/ (d \in listening /\ f \in Range(topic'))
      BY <2>1 DEF CompletionOnTheWay
    <3>2. d \in Clients /\ pc[d] = "waiting"
      BY <2>1, <3>1
    <3> QED
      BY <2>3, <2>5, <3>2 DEF CompletionOnTheWay
  <2> QED
    BY <2>6, <2>7, <2>8, <2>9
<1>2. CASE ~(c \in known /\ engine = "idle")
  BY <1>2, ExitKeeps DEF BeginTask, Refused, Joined
<1> QED
  BY <1>1, <1>2

\* A client reads an event.
LEMMA NextEventKeeps ==
  ASSUME StreamsInv, NEW c \in Clients, NextEvent(c)
  PROVE  StreamsInv'
<1> USE StreamsAssumption DEF StreamsInv, TypeOK, NextEvent, Goto, subprocessVars,
   publisherVars,
        deliveryVars, clientVars
<1>1. TypeOK'
  BY TailKeeps DEF Locations, Events
<1>2. Tokens'
  <2>1. \A d \in Clients : Joined(d) => Joined(d)'
    BY DEF Joined
  <2>2. \A i \in DOMAIN subs : i # 0 => subs[i] \in Sockets /\ Joined(subs[i])'
    BY <2>1 DEF Tokens
  <2> QED
    BY <2>2 DEF Tokens
<1>3. Pipes'
  <2>1. \A d \in Clients : Joined(d)' => Joined(d)
    BY DEF Joined
  <2> QED
    BY <2>1 DEF Pipes
<1>4. Listens'
  BY DEF Listens, Joined
<1>5. Begun'
  BY DEF Begun
<1>6. CompletionOnTheWay'
  BY TailKeeps DEF CompletionOnTheWay
<1> QED
  BY <1>1, <1>2, <1>3, <1>4, <1>5, <1>6

\* The broker delivers a message.
LEMMA DeliverKeeps ==
  ASSUME StreamsInv, Deliver
  PROVE  StreamsInv'
<1> USE StreamsAssumption DEF StreamsInv, TypeOK, Deliver, Goto, subprocessVars, publisherVars,
        deliveryVars, clientVars
<1>1. TypeOK'
  BY AppendKeeps, TailKeeps DEF Locations, Events
<1>2. Tokens'
  BY DEF Tokens, Joined
<1>3. Pipes'
  BY DEF Pipes, Tokens, Joined
<1>4. Listens'
  BY DEF Listens, Joined
<1>5. Begun'
  BY DEF Begun
<1>6. CompletionOnTheWay'
  BY AppendKeeps, TailKeeps DEF CompletionOnTheWay
<1> QED
  BY <1>1, <1>2, <1>3, <1>4, <1>5, <1>6

\* A plan ends.
LEMMA PlanEndsKeeps ==
  ASSUME StreamsInv, PlanEnds
  PROVE  StreamsInv'
<1> USE StreamsAssumption DEF StreamsInv, TypeOK, PlanEnds, Goto, subprocessVars,
   publisherVars,
        deliveryVars, clientVars
<1>1. TypeOK'
  BY DEF Locations, Events
<1>2. Tokens'
  BY DEF Tokens, Joined
<1>3. Pipes'
  BY DEF Pipes, Tokens, Joined
<1>4. Listens'
  BY DEF Listens, Joined
<1>5. Begun'
  BY DEF Begun
<1>6. CompletionOnTheWay'
  BY DEF CompletionOnTheWay
<1> QED
  BY <1>1, <1>2, <1>3, <1>4, <1>5, <1>6

\* The completion is published.
LEMMA ReportStatusKeeps ==
  ASSUME StreamsInv, ReportStatus
  PROVE  StreamsInv'
<1> USE StreamsAssumption DEF StreamsInv, TypeOK, ReportStatus, Goto, subprocessVars,
   publisherVars,
        deliveryVars, clientVars
<1>1. TypeOK'
  <2>1. [task |-> active, complete |-> TRUE] \in Events
    BY DEF Begun, Events
  <2>2. topic' \in Seq(Events)
    BY <2>1, AppendKeeps DEF Publish
  <2>3. inbox' \in [Clients -> Seq(Events)]
    BY <2>1, AppendKeeps DEF Publish
  <2>4. reported' \subseteq Clients
    BY DEF Begun
  <2> QED
    BY <2>2, <2>3, <2>4
<1>2. Tokens'
  BY DEF Publish, Tokens, Joined
<1>3. Pipes'
  BY DEF Publish, Pipes, Tokens, Joined
<1>4. Listens'
  BY DEF Publish, Listens, Joined
<1>5. Begun'
  BY DEF Publish, Begun
<1>6. CompletionOnTheWay'
  <2> DEFINE e(c) == [task |-> c, complete |-> TRUE]
  <2>1. active \in Clients /\ e(active) \in Events
    BY DEF Begun, Events
  <2>2. Forwarder \in Range(subs)
    BY DEF Tokens, Range
  <2>3. topic' = Append(topic, e(active))
    BY <2>2 DEF Publish
  <2>4. \A c \in Clients : inbox'[c] = inbox[c] \/ inbox'[c] = Append(inbox[c], e(active))
    BY DEF Publish
  <2> SUFFICES ASSUME NEW c \in reported', pc[c] = "waiting"
               PROVE  \/ e(c) \in Range(inbox'[c])
                      \/ c \in listening /\ e(c) \in Range(topic')
    BY DEF CompletionOnTheWay
  <2>5. CASE c \in reported
    <3>1. c \in Clients
      BY <2>5
    <3>2. e(c) \in Range(inbox[c]) \/ (c \in listening /\ e(c) \in Range(topic))
      BY <2>5 DEF CompletionOnTheWay
    <3>3. CASE e(c) \in Range(inbox[c])
      BY <2>1, <2>4, <3>1, <3>3, AppendKeeps
    <3>4. CASE c \in listening /\ e(c) \in Range(topic)
      BY <2>1, <2>3, <3>4, AppendKeeps
    <3> QED
      BY <3>2, <3>3, <3>4
  <2>6. CASE c = active /\ c \in Sockets
    <3>1. c \in Range(subs)
      BY <2>6 DEF Pipes, Joined, Range
    <3>2. inbox'[c] = Append(inbox[c], e(c))
      BY <2>1, <2>6, <3>1 DEF Publish
    <3> QED
      BY <2>1, <2>6, <3>2, AppendKeeps
  <2>7. CASE c = active /\ c \notin Sockets
    <3>1. c \in listening
      BY <2>1, <2>7 DEF Listens, Joined
    <3> QED
      BY <2>1, <2>3, <2>7, <3>1, AppendKeeps
  <2> QED
    BY <2>5, <2>6, <2>7
<1> QED
  BY <1>1, <1>2, <1>3, <1>4, <1>5, <1>6

\* The subprocess starts again.
LEMMA ReloadKeeps ==
  ASSUME StreamsInv, Reload
  PROVE  StreamsInv'
<1> USE StreamsAssumption DEF StreamsInv, TypeOK, Reload, Goto, subprocessVars, publisherVars,
        deliveryVars, clientVars
<1>1. TypeOK'
  <2>1. reloads' \in 0 .. MaxReloads /\ count' = 1
    OBVIOUS
  <2>2. DOMAIN subs' = {0} /\ subs'[0] = Forwarder
    OBVIOUS
  <2>3. DOMAIN subs' \subseteq 0 .. count' - 1
    BY <2>1, <2>2
  <2>4. \A i \in DOMAIN subs' : subs'[i] \in Sockets \cup {Forwarder}
    BY <2>2
  <2> QED
    BY <2>1, <2>3, <2>4
<1>2. Tokens'
  BY DEF Tokens, Joined
<1>3. Pipes'
  <2>1. \A d \in Sockets : ~Joined(d)
    BY DEF Piped, Joined
  <2> QED
    BY <2>1 DEF Pipes, Joined
<1>4. Listens'
  BY DEF Listens, Joined
<1>5. Begun'
  BY DEF Begun
<1>6. CompletionOnTheWay'
  BY DEF CompletionOnTheWay
<1> QED
  BY <1>1, <1>2, <1>3, <1>4, <1>5, <1>6

\* A step preserves the invariant.
LEMMA StreamsInductive == StreamsInv /\ [Next]_vars => StreamsInv'
<1> SUFFICES ASSUME StreamsInv, [Next]_vars
             PROVE  StreamsInv'
  OBVIOUS
<1>1. CASE UNCHANGED vars
  BY <1>1 DEF vars, subprocessVars, publisherVars, deliveryVars, clientVars, StreamsInv,
     TypeOK,
              Tokens, Pipes, Listens, Joined, Begun, CompletionOnTheWay
<1>2. ASSUME NEW c \in Clients, Leave(c)
      PROVE  StreamsInv'
  BY <1>2, ExitKeeps DEF Leave, Joined
<1>3. CASE Next
  BY <1>2, <1>3, CreateTaskKeeps, SubscribeToAllEventsKeeps, PipeEventsKeeps, BeginTaskKeeps,
     NextEventKeeps, DeliverKeeps, PlanEndsKeeps, ReportStatusKeeps, ReloadKeeps
  DEF Next, Step, Worker
<1> QED
  BY <1>1, <1>3

\* The invariant of the streams.
THEOREM StreamsInvariant == Spec => []StreamsInv
<1>1. ASSUME Init
      PROVE  StreamsInv
  <2> USE <1>1, StreamsAssumption DEF Init
  <2>1. topic \in Seq(Events) /\ inbox \in [Clients -> Seq(Events)]
    OBVIOUS
  <2>2. TypeOK
    BY <2>1 DEF TypeOK, Locations
  <2>3. Tokens /\ Pipes /\ Listens /\ Begun /\ CompletionOnTheWay
    BY DEF Tokens, Pipes, Listens, Joined, Begun, CompletionOnTheWay
  <2> QED
    BY <2>2, <2>3 DEF StreamsInv
<1> QED
  BY <1>1, StreamsInductive, PTL DEF Spec

\* core/event.py, service/interface.py, service/runner.py and client/client.py:
\* subscribers, queues and clients are of the kind the code expects.
THEOREM StreamTypes == Spec => []TypeOK
<1>1. StreamsInv => TypeOK
  BY DEF StreamsInv
<1> QED
  BY <1>1, StreamsInvariant, PTL

\* pipe_events and unpipe_events, for any number of websockets and clients: a
\* subscription lives as long as its user and nobody removes another's.
THEOREM SubscriptionsAreKept == Spec => []SubscriptionsKept
<1>1. ASSUME StreamsInv
      PROVE  SubscriptionsKept
  <2>1. \A c \in Sockets : c \in Piped <=> Joined(c)
    BY DEF Piped, Joined
  <2>2. Piped \subseteq Sockets
    BY DEF Piped
  <2> QED
    BY <1>1, <2>1, <2>2 DEF StreamsInv, TypeOK, Tokens, Pipes, SubscriptionsKept, Range
<1> QED
  BY <1>1, StreamsInvariant, PTL

\* run_task and run_plan, for any number of clients: the completion of a task is
\* in the inbox of the client that waits for it, or on the way there.
THEOREM CompletionIsOnTheWay == Spec => []CompletionOnTheWay
<1>1. StreamsInv => CompletionOnTheWay
  BY DEF StreamsInv
<1> QED
  BY <1>1, StreamsInvariant, PTL
==============================================================================
