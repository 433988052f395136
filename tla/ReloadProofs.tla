---------------------------- MODULE ReloadProofs ----------------------------
(***************************************************************************)
(* Proofs about EnvironmentReload, for any number of clients, handlers and *)
(* environments and any overlap of reloads.                                *)
(***************************************************************************)
EXTENDS EnvironmentReload, SequenceTheorems, TLAPS

\* A type-correct state whose status is not final has a reload in progress.
UnderwayInv == TypeOK /\ ReloadUnderway

\* The initial state satisfies the invariant.
LEMMA InitUnderway == Init => UnderwayInv
  BY EnvsAssumption DEF Init, UnderwayInv, TypeOK, ReloadUnderway, Locations

\* Putting a call at the end of a process's queue gives a queue of calls.
LEMMA RunKeepsQueue ==
  ASSUME TypeOK, NEW t, NEW f, <<t, f>> \in Calls, Run(t, f)
  PROVE  queue' \in [Envs -> Seq(Calls)]
<1>1. queue[subprocess] \in Seq(Calls)
  BY DEF TypeOK
<1>2. Append(queue[subprocess], <<t, f>>) \in Seq(Calls)
  BY <1>1, AppendProperties
<1> QED
  BY <1>2 DEF TypeOK, Run

\* Every step of a reload preserves it: the steps that leave a reload, Started and
\* StartFailed, are those that make the status final.
LEMMA ReloadKeepsUnderway ==
  ASSUME UnderwayInv, NEW c \in Clients, ReloadStep(c),
         UNCHANGED <<clientVars, request, used>>
  PROVE  UnderwayInv'
<1> USE DEF UnderwayInv, TypeOK, ReloadUnderway, InProgress, Locations, Goto,
        dispatcherVars, poolVars, clientVars
<1>1. CASE Stop(c)
  BY <1>1 DEF Stop
<1>2. CASE RunTeardown(c)
  <2>1. queue' \in [Envs -> Seq(Calls)]
    <3>1. <<c, "teardown">> \in Calls
      BY DEF Calls
    <3> QED
      BY <1>2, <3>1, RunKeepsQueue DEF RunTeardown, RunRefused
  <2> QED
    BY <1>2, <2>1 DEF RunTeardown
<1>3. CASE ClosePool(c)
  BY <1>3 DEF ClosePool
<1>4. CASE JoinPool(c)
  BY <1>4 DEF JoinPool
<1>5. CASE Joined(c)
  BY <1>5 DEF Joined
<1>6. CASE Stopped(c)
  BY <1>6 DEF Stopped, StatusStopped
<1>7. CASE StopFailed(c)
  BY <1>7 DEF StopFailed
<1>8. CASE Start(c)
  <2>1. pc' \in [Clients -> Locations] /\ pc'[c] # "idle"
    BY <1>8 DEF Start
  <2>2. new[c] \in Envs
    OBVIOUS
  <2>3. subprocess' \in Envs
    BY <1>8, <2>2 DEF Start
  <2>4. pool' \in [Envs -> {"none", "run", "close", "gone"}]
    BY <1>8, <2>2 DEF Start
  <2> QED
    BY <1>8, <2>1, <2>3, <2>4 DEF Start
<1>9. CASE RunSetup(c)
  <2>1. queue' \in [Envs -> Seq(Calls)]
    <3>1. <<c, "setup">> \in Calls
      BY DEF Calls
    <3> QED
      BY <1>9, <3>1, RunKeepsQueue DEF RunSetup, RunRefused
  <2> QED
    BY <1>9, <2>1 DEF RunSetup
<1>10. CASE Started(c)
  BY <1>10 DEF Started
<1>11. CASE StartFailed(c)
  BY <1>11 DEF StartFailed
<1> QED
  BY <1>1, <1>2, <1>3, <1>4, <1>5, <1>6, <1>7, <1>8, <1>9, <1>10, <1>11 DEF ReloadStep

\* The subprocess never ends a reload: its answers only move one on.
LEMMA ProcessKeepsUnderway ==
  ASSUME UnderwayInv, NEW p \in Envs, ProcessStep(p)
  PROVE  UnderwayInv'
<1> USE DEF UnderwayInv, TypeOK, ReloadUnderway, InProgress, Locations, ProcessStep,
        dispatcherVars, clientVars, threadVars
<1>1. CASE Execute(p)
  <2> DEFINE thread == Head(queue[p])[1]
             function == Head(queue[p])[2]
  <2>1. Head(queue[p]) \in Calls /\ Tail(queue[p]) \in Seq(Calls)
    <3>1. queue[p] \in Seq(Calls) /\ queue[p] # <<>>
      BY <1>1 DEF Execute
    <3> QED
      BY <3>1, HeadTailProperties
  <2>2. queue' \in [Envs -> Seq(Calls)]
    BY <1>1, <2>1 DEF Execute
  <2>3. \/ thread \in Clients /\ function \in {"setup", "teardown"}
        \/ thread \in Handlers /\ function = "request"
    BY <2>1 DEF Calls
  <2>4. cached' \subseteq Envs
    BY <1>1, ZenonT(30) DEF Execute, CachedAfterTeardown
  <2>5. CASE thread \in Clients
    <3>1. PICK a \in {"started", "startFailed", "close", "stopFailed"} : Reply(thread, a)
      BY <1>1, <2>3, <2>5, ThreadsAssumption DEF Execute
    <3>2. pc' = [pc EXCEPT ![thread] = a] /\ UNCHANGED request
      BY <2>5, <3>1 DEF Reply
    <3>3. pc' \in [Clients -> Locations]
      BY <3>2
    <3>4. InProgress' # {}
      BY <2>5, <3>2
    <3> QED
      BY <1>1, <2>2, <2>4, <3>2, <3>3, <3>4 DEF Execute
  <2>6. CASE thread \in Handlers
    <3>1. request' = [request EXCEPT ![thread] = "idle"] /\ UNCHANGED pc
      BY <1>1, <2>6, ThreadsAssumption DEF Execute, Reply
    <3>2. request' \in [Handlers -> {"idle", "waiting"}]
      BY <3>1
    <3> QED
      BY <1>1, <2>2, <2>4, <3>1, <3>2, ZenonT(30) DEF Execute
  <2> QED
    BY <2>3, <2>5, <2>6
<1>2. CASE ProcessExits(p)
  BY <1>2 DEF ProcessExits
<1>3. CASE PoolDropped(p)
  BY <1>3 DEF PoolDropped
<1> QED
  BY <1>1, <1>2, <1>3 DEF ProcessStep

\* Every step preserves the invariant.
LEMMA NextUnderway == UnderwayInv /\ [Next]_vars => UnderwayInv'
<1> SUFFICES ASSUME UnderwayInv, [Next]_vars PROVE UnderwayInv'
  OBVIOUS
<1> USE DEF dispatcherVars, poolVars, threadVars, clientVars
<1>1. CASE Reload
  BY <1>1, ReloadKeepsUnderway DEF Reload
<1>2. ASSUME NEW p \in Envs, ProcessStep(p) PROVE UnderwayInv'
  BY <1>2, ProcessKeepsUnderway
<1>3. ASSUME NEW h \in Handlers, Request(h) PROVE UnderwayInv'
  <2>1. queue' \in [Envs -> Seq(Calls)]
    <3>1. <<h, "request">> \in Calls
      BY DEF Calls
    <3> QED
      BY <1>3, <3>1, RunKeepsQueue DEF UnderwayInv, Request
  <2> QED
    BY <1>3, <2>1 DEF UnderwayInv, TypeOK, ReloadUnderway, InProgress, Request
<1>4. ASSUME NEW c \in Clients, DeleteEnvironment(c) PROVE UnderwayInv'
  <2> USE <1>4 DEF UnderwayInv, TypeOK, DeleteEnvironment
  <2>1. /\ pc' \in [Clients -> Locations]
        /\ used' \subseteq Envs /\ new' \in [Clients -> Envs]
    <3>1. CASE NeedsReload
      <4>1. PICK e \in Envs \ used :
              /\ used' = used \cup {e}
              /\ new' = [new EXCEPT ![c] = e]
              /\ pc' = [pc EXCEPT ![c] = "stop"]
        BY <3>1
      <4> QED
        BY <4>1 DEF Locations
    <3>2. CASE ~ NeedsReload
      BY <3>2
    <3> QED
      BY <3>1, <3>2
  <2>2. client' \in [Clients -> {"idle", "polling", "returned", "raised", "timed out"}]
    OBVIOUS
  <2>3. previous' \in [Clients -> Envs]
    OBVIOUS
  <2>4. InProgress \subseteq InProgress'
    BY DEF InProgress
  <2> QED
    BY <2>1, <2>2, <2>3, <2>4 DEF ReloadUnderway
<1>5. ASSUME NEW c \in Clients, WaitForReload(c) PROVE UnderwayInv'
  BY <1>5 DEF UnderwayInv, TypeOK, ReloadUnderway, InProgress, WaitForReload
<1>6. CASE UNCHANGED vars
  BY <1>6 DEF vars, UnderwayInv, TypeOK, ReloadUnderway, InProgress
<1> QED
  BY <1>1, <1>2, <1>3, <1>4, <1>5, <1>6 DEF Next

\* service/runner.py and main.py: the environment, the pools and their callers are
\* of the kind the code expects, whatever overlaps.
THEOREM ReloadTypes == Spec => []TypeOK
<1>1. UnderwayInv => TypeOK
  BY DEF UnderwayInv
<1> QED
  BY <1>1, InitUnderway, NextUnderway, PTL DEF Spec

\* A DELETE that finds the environment neither initialized nor in error, and so
\* schedules nothing, is always answered by a reload that is in progress.
THEOREM StatusIsNeverAbandoned == Spec => []ReloadUnderway
<1>1. UnderwayInv => ReloadUnderway
  BY DEF UnderwayInv
<1> QED
  BY <1>1, InitUnderway, NextUnderway, PTL DEF Spec

-----------------------------------------------------------------------------
(* No call is lost: each step keeps the calls that threads wait for queued.*)

\* The thread waits for the answer of a process ...
Waits(t) ==
  \/ t \in Clients /\ pc[t] \in {"teardown", "setting"}
  \/ t \in Handlers /\ request[t] = "waiting"

\* ... and one that has not ended has its call.
Queued(t) ==
  \E p \in Envs :
    /\ pool[p] \in {"run", "close"}
    /\ \E i \in 1 .. Len(queue[p]) : queue[p][i][1] = t

CallInv == TypeOK /\ \A t \in Threads : Waits(t) => Queued(t)

\* Type-correctness is preserved, as proved above.
LEMMA TypesKept == TypeOK /\ ReloadUnderway /\ [Next]_vars => TypeOK'
  BY NextUnderway DEF UnderwayInv

\* A call that is put is queued, and those that were queued still are.
LEMMA RunQueues ==
  ASSUME TypeOK, NEW t, NEW f, <<t, f>> \in Calls, Run(t, f), UNCHANGED pool
  PROVE  Queued(t)' /\ \A u \in Threads : Queued(u) => Queued(u)'
<1> DEFINE s == queue[subprocess]
           n == Append(s, <<t, f>>)
<1>1. s \in Seq(Calls) /\ Len(s) \in Nat
  <2>1. s \in Seq(Calls)
    BY DEF TypeOK
  <2> QED
    BY <2>1, LenProperties
<1>2. queue' = [queue EXCEPT ![subprocess] = n] /\ subprocess \in Envs
      /\ pool[subprocess] = "run" /\ DOMAIN queue = Envs
  BY DEF Run, TypeOK
<1>3. /\ Len(n) = Len(s) + 1 /\ n[Len(s) + 1] = <<t, f>>
      /\ \A i \in 1 .. Len(s) : n[i] = s[i]
  BY <1>1, AppendProperties
<1>4. Queued(t)'
  <2>1. Len(s) + 1 \in 1 .. Len(n) /\ n[Len(s) + 1][1] = t
    BY <1>1, <1>3
  <2>2. queue'[subprocess] = n /\ pool'[subprocess] = "run"
    BY <1>2
  <2> HIDE DEF n, s
  <2> QED
    BY <1>2, <2>1, <2>2 DEF Queued
<1>5. ASSUME NEW u \in Threads, Queued(u) PROVE Queued(u)'
  <2>1. PICK p \in Envs : /\ pool[p] \in {"run", "close"}
                          /\ \E i \in 1 .. Len(queue[p]) : queue[p][i][1] = u
    BY <1>5 DEF Queued
  <2>2. PICK i \in 1 .. Len(queue[p]) : queue[p][i][1] = u
    BY <2>1
  <2>3. CASE p = subprocess
    <3>1. i \in 1 .. Len(n) /\ n[i][1] = u
      BY <1>1, <1>3, <2>2, <2>3
    <3>2. queue'[p] = n /\ pool'[p] \in {"run", "close"}
      BY <1>2, <2>1, <2>3
    <3> HIDE DEF n, s
    <3> QED
      BY <3>1, <3>2 DEF Queued
  <2>4. CASE p # subprocess
    <3>1. queue'[p] = queue[p] /\ pool'[p] = pool[p]
      BY <1>2, <2>4
    <3> QED
      BY <2>1, <2>2, <3>1 DEF Queued
  <2> QED
    BY <2>3, <2>4
<1> QED
  BY <1>4, <1>5

\* Nobody else's wait begins or ends when one thread moves to where it does not wait.
LEMMA StaysQueued ==
  ASSUME CallInv, NEW c \in Clients, NEW a, a \notin {"teardown", "setting"},
         pc' = [pc EXCEPT ![c] = a], UNCHANGED <<queue, request>>,
         \A p \in Envs : pool[p] \in {"run", "close"} => pool'[p] \in {"run", "close"}
  PROVE  \A t \in Threads : Waits(t)' => Queued(t)'
<1>1. ASSUME NEW t \in Threads, Waits(t)' PROVE Waits(t)
  BY <1>1 DEF CallInv, TypeOK, Waits
<1>2. ASSUME NEW t \in Threads, Queued(t) PROVE Queued(t)'
  BY <1>2 DEF Queued
<1> QED
  BY <1>1, <1>2 DEF CallInv

\* A step of a reload waits for the call that it puts, if it puts one.
LEMMA ReloadKeepsCalls ==
  ASSUME CallInv, NEW c \in Clients, ReloadStep(c),
         UNCHANGED <<clientVars, request, used>>
  PROVE  \A t \in Threads : Waits(t)' => Queued(t)'
<1> USE DEF Goto, dispatcherVars, poolVars
<1>1. CASE \/ Stop(c) \/ JoinPool(c) \/ Joined(c) \/ Stopped(c) \/ StopFailed(c)
           \/ Started(c) \/ StartFailed(c)
  <2>1. /\ \E a \in Locations \ {"teardown", "setting"} : pc' = [pc EXCEPT ![c] = a]
        /\ UNCHANGED <<pool, queue>>
    BY <1>1 DEF Stop, JoinPool, Joined, Stopped, StopFailed, Started, StartFailed, Locations
  <2> QED
    BY <2>1, StaysQueued
<1>2. CASE ClosePool(c)
  <2>1. /\ pc' = [pc EXCEPT ![c] = "join"] /\ UNCHANGED queue
        /\ \A p \in Envs : pool[p] \in {"run", "close"} => pool'[p] \in {"run", "close"}
    BY <1>2 DEF ClosePool, CallInv, TypeOK
  <2> QED
    BY <2>1, StaysQueued
<1>3. CASE Start(c)
  <2>1. /\ \E a \in {"setup", "startFailed"} : pc' = [pc EXCEPT ![c] = a]
        /\ UNCHANGED queue
        /\ \A p \in Envs : pool[p] \in {"run", "close"} => pool'[p] \in {"run", "close"}
    BY <1>3 DEF Start, CallInv, TypeOK
  <2> QED
    BY <2>1, StaysQueued
<1>4. CASE RunTeardown(c) \/ RunSetup(c)
  <2>1. CASE UNCHANGED queue
    <3>1. /\ \E a \in {"stopFailed", "startFailed"} : pc' = [pc EXCEPT ![c] = a]
          /\ UNCHANGED <<pool, queue>>
      <4>1. CASE RunRefused
        BY <1>4, <2>1, <4>1 DEF RunTeardown, RunSetup, RunRefused, Run
      <4>2. ASSUME NEW f \in {"setup", "teardown"}, Run(c, f) PROVE FALSE
        <5>1. queue[subprocess] \in Seq(Calls) /\ <<c, f>> \in Calls
          BY DEF CallInv, TypeOK, Calls
        <5>2. Append(queue[subprocess], <<c, f>>) = queue[subprocess]
          BY <2>1, <4>2 DEF CallInv, TypeOK, Run
        <5> QED
          BY <5>1, <5>2, AppendProperties
      <4> QED
        BY <1>4, <4>1, <4>2 DEF RunTeardown, RunSetup
    <3> QED
      BY <3>1, StaysQueued
  <2>2. CASE queue' # queue
    <3>1. PICK f \in {"setup", "teardown"} :
            /\ Run(c, f) /\ UNCHANGED pool
            /\ \E a \in {"teardown", "setting"} : pc' = [pc EXCEPT ![c] = a]
      BY <1>4, <2>2 DEF RunTeardown, RunSetup, RunRefused
    <3>2. <<c, f>> \in Calls
      BY DEF Calls
    <3>3. Queued(c)' /\ \A u \in Threads : Queued(u) => Queued(u)'
      BY <3>1, <3>2, RunQueues DEF CallInv
    <3>4. \A u \in Threads : Waits(u)' => u = c \/ Waits(u)
      BY <3>1 DEF CallInv, TypeOK, Waits
    <3> QED
      BY <3>3, <3>4 DEF CallInv
  <2> QED
    BY <2>1, <2>2
<1> QED
  BY <1>1, <1>2, <1>3, <1>4 DEF ReloadStep

\* A process answers the call that it takes from its queue, and ends with none left.
LEMMA ProcessKeepsCalls ==
  ASSUME CallInv, NEW p \in Envs, ProcessStep(p)
  PROVE  \A t \in Threads : Waits(t)' => Queued(t)'
<1>1. CASE Execute(p)
  <2> DEFINE s == queue[p]
             thread == Head(s)[1]
  <2>1. s \in Seq(Calls) /\ s # <<>> /\ queue' = [queue EXCEPT ![p] = Tail(s)]
        /\ UNCHANGED pool
    BY <1>1 DEF Execute, CallInv, TypeOK
  <2>2. /\ Head(s) = s[1] /\ Len(Tail(s)) = Len(s) - 1 /\ Len(s) \in Nat \ {0}
        /\ \A i \in 1 .. Len(s) - 1 : Tail(s)[i] = s[i + 1]
        /\ Head(s) \in Calls
    BY <2>1, HeadTailProperties, EmptySeq
  <2>3. ASSUME NEW t \in Threads, Waits(t)' PROVE t # thread /\ Waits(t)
    <3>1. \/ thread \in Clients /\ \E a \in {"started", "startFailed", "close", "stopFailed"} :
                                     Reply(thread, a)
          \/ thread \in Handlers /\ thread \notin Clients /\ Reply(thread, "idle")
      BY <1>1, <2>2, ThreadsAssumption DEF Execute, Calls
    <3> QED
      BY <2>3, <3>1, ThreadsAssumption DEF Reply, Waits, CallInv, TypeOK
  <2>4. ASSUME NEW t \in Threads, t # thread, Queued(t) PROVE Queued(t)'
    <3>1. PICK q \in Envs : /\ pool[q] \in {"run", "close"}
                            /\ \E i \in 1 .. Len(queue[q]) : queue[q][i][1] = t
      BY <2>4 DEF Queued
    <3>2. PICK i \in 1 .. Len(queue[q]) : queue[q][i][1] = t
      BY <3>1
    <3>3. CASE q = p
      <4>1. i # 1
        BY <2>2, <2>4, <3>2, <3>3
      <4>2. i - 1 \in 1 .. Len(Tail(s)) /\ Tail(s)[i - 1] = s[i]
        BY <2>2, <3>2, <3>3, <4>1
      <4>3. queue'[q] = Tail(s) /\ pool'[q] = pool[q]
        BY <2>1, <3>3 DEF CallInv, TypeOK
      <4> QED
        BY <3>1, <3>2, <3>3, <4>2, <4>3 DEF Queued
    <3>4. CASE q # p
      <4>1. queue'[q] = queue[q] /\ pool'[q] = pool[q]
        BY <2>1, <3>4 DEF CallInv, TypeOK
      <4> QED
        BY <3>1, <3>2, <4>1 DEF Queued
    <3> QED
      BY <3>3, <3>4
  <2> QED
    BY <2>3, <2>4 DEF CallInv
<1>2. CASE ProcessExits(p) \/ PoolDropped(p)
  <2>1. /\ UNCHANGED <<queue, pc, request>> /\ queue[p] = <<>>
        /\ \A q \in Envs \ {p} : pool'[q] = pool[q]
    BY <1>2 DEF ProcessExits, PoolDropped, threadVars, CallInv, TypeOK
  <2>2. \A t \in Threads : Queued(t) => Queued(t)'
    BY <2>1 DEF Queued
  <2> QED
    BY <2>1, <2>2 DEF Waits, CallInv
<1> QED
  BY <1>1, <1>2 DEF ProcessStep

\* Every step preserves the invariant.
LEMMA NextKeepsCalls ==
  ASSUME CallInv, ReloadUnderway, [Next]_vars
  PROVE  CallInv'
<1>1. TypeOK'
  BY TypesKept DEF CallInv
<1>2. CASE Reload
  BY <1>1, <1>2, ReloadKeepsCalls DEF Reload, CallInv
<1>3. ASSUME NEW p \in Envs, ProcessStep(p) PROVE CallInv'
  BY <1>1, <1>3, ProcessKeepsCalls DEF CallInv
<1>4. ASSUME NEW h \in Handlers, Request(h) PROVE CallInv'
  <2>1. Run(h, "request") /\ <<h, "request">> \in Calls /\ UNCHANGED <<pool, pc>>
        /\ request' = [request EXCEPT ![h] = "waiting"]
    BY <1>4 DEF Request, Calls, threadVars
  <2>2. Queued(h)' /\ \A u \in Threads : Queued(u) => Queued(u)'
    BY <2>1, RunQueues DEF CallInv
  <2>3. \A u \in Threads : Waits(u)' => u = h \/ Waits(u)
    BY <2>1 DEF CallInv, TypeOK, Waits
  <2> QED
    BY <1>1, <2>2, <2>3 DEF CallInv
<1>5. ASSUME NEW c \in Clients, DeleteEnvironment(c) \/ WaitForReload(c) PROVE CallInv'
  <2>1. UNCHANGED <<pool, queue, request>>
    BY <1>5 DEF DeleteEnvironment, WaitForReload, poolVars
  <2>2. \A d \in Clients : pc'[d] # pc[d] => pc'[d] = "stop"
    BY <1>5 DEF DeleteEnvironment, WaitForReload, threadVars, CallInv, TypeOK
  <2> QED
    BY <1>1, <2>1, <2>2 DEF CallInv, Waits, Queued
<1>6. CASE UNCHANGED vars
  BY <1>1, <1>6 DEF vars, poolVars, threadVars, CallInv, Waits, Queued
<1> QED
  BY <1>2, <1>3, <1>4, <1>5, <1>6 DEF Next

\* WorkerDispatcher.run against the pools that stop closes: whatever reloads and
\* requests overlap, no thread waits for the answer of a process that ended.
THEOREM CallsAreNeverLost == Spec => []NoCallLost
<1>1. Init => CallInv
  BY InitUnderway DEF Init, CallInv, UnderwayInv, Waits, Queued
<1>2. CallInv /\ ReloadUnderway /\ [Next]_vars => CallInv'
  BY NextKeepsCalls
<1>3. CallInv => NoCallLost
  BY DEF CallInv, NoCallLost, Waits, Queued
<1> QED
  BY <1>1, <1>2, <1>3, StatusIsNeverAbandoned, PTL DEF Spec

-----------------------------------------------------------------------------
(* Reloads that do not overlap.                                            *)

OneReload ==
  \A c, d \in Clients : pc[c] # "idle" /\ pc[d] # "idle" => c = d

\* The queues hold one call of a reload at most, the one that it waits for.
CallIsAwaited(c, p, i) ==
  /\ \/ pc[c] = "teardown" /\ queue[p][i][2] = "teardown"
     \/ pc[c] = "setting" /\ queue[p][i][2] = "setup" /\ p = subprocess
  /\ \A q \in Envs : \A j \in 1 .. Len(queue[q]) : queue[q][j][1] = c => q = p /\ j = i

CallsAwaited ==
  \A c \in Clients, p \in Envs : \A i \in 1 .. Len(queue[p]) :
    queue[p][i][1] = c => CallIsAwaited(c, p, i)

\* While its reload is in progress a client has not been told that it is over: the
\* status is initialized only before stop ended, and then it names the environment
\* that the client found.
NotYetTold ==
  \A c \in Clients : pc[c] # "idle" =>
    /\ client[c] # "returned"
    /\ status = "initialized" => environment_id = previous[c]

\* From the creation of the pool to the end of start, the subprocess is the one that
\* start created, it runs, and after setup it has its worker.
NewSubprocess ==
  \A c \in Clients :
    /\ pc[c] \in {"setup", "setting", "started"} =>
         subprocess = new[c] /\ pool[subprocess] = "run"
    /\ pc[c] = "started" => subprocess \in cached

AloneInv ==
  TypeOK /\ OneReload /\ CallsAwaited /\ NotYetTold /\ NewSubprocess /\ StatusHonest

\* The initial state satisfies the invariant.
LEMMA InitAlone == Init => AloneInv
<1> SUFFICES ASSUME Init PROVE AloneInv
  OBVIOUS
<1>1. TypeOK
  BY InitUnderway DEF UnderwayInv
<1>2. CallsAwaited
  BY DEF Init, CallsAwaited
<1> QED
  BY <1>1, <1>2, EnvsAssumption
  DEF Init, AloneInv, OneReload, NotYetTold, NewSubprocess, StatusHonest, InProgress

\* Queues that do not change hold awaited calls, unless one who waits moves.
LEMMA SameCallsAwaited ==
  ASSUME CallsAwaited, UNCHANGED queue,
         \A c \in Clients : pc[c] \in {"teardown", "setting"} => pc'[c] = pc[c],
         subprocess' = subprocess \/ \A c \in Clients : pc[c] # "setting"
  PROVE  CallsAwaited'
  BY DEF CallsAwaited, CallIsAwaited

\* A call that is put is awaited by the reload that puts it, or is another request.
LEMMA RunIsAwaited ==
  ASSUME TypeOK, CallsAwaited, NEW t \in Threads, NEW f, <<t, f>> \in Calls, Run(t, f),
         UNCHANGED subprocess,
         t \in Clients =>
           pc[t] \notin {"teardown", "setting"}
           /\ pc'[t] = (IF f = "teardown" THEN "teardown" ELSE "setting"),
         \A c \in Clients \ {t} : pc'[c] = pc[c]
  PROVE  CallsAwaited'
<1> DEFINE s == queue[subprocess]
           n == Append(s, <<t, f>>)
<1>1. s \in Seq(Calls) /\ Len(s) \in Nat
  <2>1. s \in Seq(Calls)
    BY DEF TypeOK
  <2> QED
    BY <2>1, LenProperties
<1>2. /\ queue' = [queue EXCEPT ![subprocess] = n] /\ subprocess \in Envs
      /\ DOMAIN queue = Envs
  BY DEF Run, TypeOK
<1>3. /\ Len(n) = Len(s) + 1 /\ n[Len(s) + 1] = <<t, f>>
      /\ \A i \in 1 .. Len(s) : n[i] = s[i]
  BY <1>1, AppendProperties
<1>4. ASSUME NEW p \in Envs, NEW i \in 1 .. Len(queue'[p])
      PROVE  \/ i \in 1 .. Len(queue[p]) /\ queue'[p][i] = queue[p][i]
             \/ p = subprocess /\ i = Len(s) + 1 /\ queue'[p][i] = <<t, f>>
  <2>1. CASE p = subprocess
    <3>1. queue'[p] = n /\ queue[p] = s
      BY <1>2, <2>1
    <3> QED
      BY <1>1, <1>3, <2>1, <3>1
  <2>2. CASE p # subprocess
    BY <1>2, <2>2
  <2> QED
    BY <2>1, <2>2
<1> HIDE DEF n, s
<1>5. ASSUME NEW c \in Clients, c # t, NEW p \in Envs, NEW i \in 1 .. Len(queue'[p]),
             queue'[p][i][1] = c
      PROVE  CallIsAwaited(c, p, i)'
  <2>1. i \in 1 .. Len(queue[p]) /\ queue'[p][i] = queue[p][i]
    BY <1>4, <1>5
  <2>2. CallIsAwaited(c, p, i)
    BY <1>5, <2>1 DEF CallsAwaited
  <2>3. ASSUME NEW q \in Envs, NEW j \in 1 .. Len(queue'[q]), queue'[q][j][1] = c
        PROVE  q = p /\ j = i
    <3>1. j \in 1 .. Len(queue[q]) /\ queue'[q][j] = queue[q][j]
      BY <1>4, <1>5, <2>3
    <3> QED
      BY <2>2, <2>3, <3>1 DEF CallIsAwaited
  <2> QED
    BY <1>5, <2>1, <2>2, <2>3 DEF CallIsAwaited
<1>6. ASSUME t \in Clients, NEW p \in Envs, NEW i \in 1 .. Len(queue'[p]),
             queue'[p][i][1] = t
      PROVE  CallIsAwaited(t, p, i)'
  <2>1. \A q \in Envs : \A j \in 1 .. Len(queue[q]) : queue[q][j][1] # t
    BY <1>6 DEF CallsAwaited, CallIsAwaited
  <2>2. \A q \in Envs : \A j \in 1 .. Len(queue'[q]) : queue'[q][j][1] = t =>
          q = subprocess /\ j = Len(s) + 1 /\ queue'[q][j] = <<t, f>>
    BY <1>4, <2>1
  <2>3. f \in {"setup", "teardown"}
    BY <1>6, ThreadsAssumption DEF Calls
  <2> QED
    BY <1>6, <2>2, <2>3 DEF CallIsAwaited
<1> QED
  BY <1>5, <1>6 DEF CallsAwaited

\* A process that takes a call from its queue leaves the others.
LEMMA ExecuteIsAwaited ==
  ASSUME TypeOK, CallsAwaited, NEW p \in Envs, Execute(p), UNCHANGED subprocess
  PROVE  /\ CallsAwaited'
         /\ \A c \in Clients : pc'[c] # pc[c] =>
              \/ pc[c] = "teardown" /\ pc'[c] \in {"close", "stopFailed"}
              \/ /\ pc[c] = "setting" /\ pc'[c] \in {"started", "startFailed"}
                 /\ p = subprocess /\ (pc'[c] = "started" => p \in cached')
         /\ (subprocess \in cached => subprocess \in cached')
              \/ \E c \in Clients : pc[c] = "teardown"
<1> DEFINE s == queue[p]
           thread == Head(s)[1]
           function == Head(s)[2]
<1>1. s \in Seq(Calls) /\ s # <<>> /\ queue' = [queue EXCEPT ![p] = Tail(s)]
  BY DEF Execute, TypeOK
<1>2. /\ Head(s) = s[1] /\ Len(Tail(s)) = Len(s) - 1 /\ Len(s) \in Nat \ {0}
      /\ \A i \in 1 .. Len(s) - 1 : Tail(s)[i] = s[i + 1]
      /\ Head(s) \in Calls
  BY <1>1, HeadTailProperties, EmptySeq
<1>3. ASSUME thread \in Clients
      PROVE  \/ pc[thread] = "teardown" /\ function = "teardown"
             \/ pc[thread] = "setting" /\ function = "setup" /\ p = subprocess
  <2>1. 1 \in 1 .. Len(s) /\ s[1][1] = thread
    BY <1>2
  <2> QED
    BY <1>2, <1>3, <2>1 DEF CallsAwaited, CallIsAwaited
<1>4. \A c \in Clients : pc'[c] # pc[c] => c = thread
  BY <1>2, ThreadsAssumption DEF Execute, Reply, Calls, TypeOK
<1>5. \A c \in Clients : pc'[c] # pc[c] =>
        \/ pc[c] = "teardown" /\ pc'[c] \in {"close", "stopFailed"}
        \/ /\ pc[c] = "setting" /\ pc'[c] \in {"started", "startFailed"}
           /\ p = subprocess /\ (pc'[c] = "started" => p \in cached')
  <2>1. CASE thread \in Clients
    BY <1>2, <1>3, <1>4, <2>1, ThreadsAssumption, ZenonT(30) DEF Execute, Reply, Calls, TypeOK
  <2>2. CASE thread \notin Clients
    BY <1>4, <2>2
  <2> QED
    BY <2>1, <2>2
<1>6. (subprocess \in cached => subprocess \in cached')
        \/ \E c \in Clients : pc[c] = "teardown"
  <2>1. function = "teardown" => thread \in Clients /\ pc[thread] = "teardown"
    BY <1>2, <1>3 DEF Calls
  <2>2. function # "teardown" => cached \subseteq cached'
    BY DEF Execute
  <2> QED
    BY <2>1, <2>2
<1>7. ASSUME NEW q \in Envs, NEW i \in 1 .. Len(queue'[q])
      PROVE  \E j \in 1 .. Len(queue[q]) :
               /\ queue'[q][i] = queue[q][j] /\ (q = p => j = i + 1) /\ (q # p => j = i)
  <2>1. CASE q = p
    <3>1. queue'[q] = Tail(s)
      BY <1>1, <2>1 DEF TypeOK
    <3>2. i \in 1 .. Len(s) - 1
      BY <1>2, <3>1
    <3>3. i + 1 \in 1 .. Len(queue[q]) /\ queue'[q][i] = queue[q][i + 1]
      BY <1>2, <2>1, <3>1, <3>2
    <3> QED
      BY <2>1, <3>3
  <2>2. CASE q # p
    <3>1. queue'[q] = queue[q]
      BY <1>1, <2>2 DEF TypeOK
    <3> QED
      BY <2>2, <3>1
  <2> QED
    BY <2>1, <2>2
<1>8. ASSUME NEW c \in Clients, NEW q \in Envs, NEW i \in 1 .. Len(queue'[q]),
             queue'[q][i][1] = c
      PROVE  CallIsAwaited(c, q, i)'
  <2>1. PICK j \in 1 .. Len(queue[q]) :
          /\ queue'[q][i] = queue[q][j] /\ (q = p => j = i + 1) /\ (q # p => j = i)
    BY <1>7
  <2>2. CallIsAwaited(c, q, j)
    BY <1>8, <2>1 DEF CallsAwaited
  <2>3. c # thread
    <3>1. thread # c \/ (q = p /\ j = 1)
      <4>1. 1 \in 1 .. Len(queue[p]) /\ thread = queue[p][1][1]
        BY <1>2
      <4> QED
        BY <2>2, <4>1 DEF CallIsAwaited
    <3> QED
      BY <2>1, <3>1
  <2>4. ASSUME NEW q2 \in Envs, NEW i2 \in 1 .. Len(queue'[q2]), queue'[q2][i2][1] = c
        PROVE  q2 = q /\ i2 = i
    <3>1. PICK j2 \in 1 .. Len(queue[q2]) : /\ queue'[q2][i2] = queue[q2][j2]
                                            /\ (q2 = p => j2 = i2 + 1) /\ (q2 # p => j2 = i2)
      BY <1>7
    <3>2. q2 = q /\ j2 = j
      BY <2>2, <2>4, <3>1 DEF CallIsAwaited
    <3> QED
      BY <2>1, <3>1, <3>2
  <2>5. pc'[c] = pc[c]
    BY <1>4, <2>3
  <2> QED
    BY <2>1, <2>2, <2>4, <2>5 DEF CallIsAwaited
<1> HIDE DEF s, thread, function
<1> QED
  BY <1>5, <1>6, <1>8 DEF CallsAwaited

\* The reload in progress: each of its steps keeps the invariant.
LEMMA ReloadKeepsAlone ==
  ASSUME AloneInv, TypeOK', NEW c \in Clients, ReloadStep(c),
         UNCHANGED <<clientVars, request, used>>
  PROVE  AloneInv'
<1> USE DEF Goto, dispatcherVars, poolVars, clientVars
<1>1. /\ pc[c] # "idle" /\ pc \in [Clients -> Locations]
      /\ \A d \in Clients \ {c} : pc[d] = "idle" /\ pc'[d] = "idle"
      /\ pc' = [pc EXCEPT ![c] = pc'[c]] /\ UNCHANGED new
  <2>1. pc \in [Clients -> Locations]
    BY DEF AloneInv, TypeOK
  <2>2. /\ pc[c] # "idle" /\ UNCHANGED new
        /\ \E a \in Locations : pc' = [pc EXCEPT ![c] = a]
    BY <2>1 DEF ReloadStep, Stop, RunTeardown, ClosePool, JoinPool, Joined, Stopped,
       StopFailed, Start, RunSetup, Started, StartFailed, Locations
  <2>3. \A d \in Clients \ {c} : pc[d] = "idle"
    BY <2>2 DEF AloneInv, OneReload
  <2> QED
    BY <2>1, <2>2, <2>3
<1>2. OneReload'
  BY <1>1 DEF OneReload
<1>3. CallsAwaited'
  <2>1. ASSUME UNCHANGED queue, pc[c] \notin {"teardown", "setting"} PROVE CallsAwaited'
    <3>1. \A d \in Clients : pc[d] \notin {"teardown", "setting"}
      BY <1>1, <2>1
    <3> QED
      BY <2>1, <3>1, SameCallsAwaited DEF AloneInv
  <2>2. ASSUME NEW f \in {"setup", "teardown"}, Run(c, f), UNCHANGED subprocess,
               pc[c] \notin {"teardown", "setting"},
               pc'[c] = IF f = "teardown" THEN "teardown" ELSE "setting"
        PROVE  CallsAwaited'
    <3>1. <<c, f>> \in Calls /\ c \in Threads
      BY DEF Calls, Threads
    <3>2. \A d \in Clients \ {c} : pc'[d] = pc[d]
      BY <1>1
    <3> QED
      BY <2>2, <3>1, <3>2, RunIsAwaited DEF AloneInv
  <2>3. \/ UNCHANGED queue /\ pc[c] \notin {"teardown", "setting"}
        \/ /\ Run(c, "teardown") /\ UNCHANGED subprocess
           /\ pc[c] = "apply" /\ pc'[c] = "teardown"
        \/ /\ Run(c, "setup") /\ UNCHANGED subprocess
           /\ pc[c] = "setup" /\ pc'[c] = "setting"
    BY <1>1 DEF ReloadStep, Stop, RunTeardown, ClosePool, JoinPool, Joined, Stopped,
       StopFailed, Start, RunSetup, Started, StartFailed, RunRefused
  <2> QED
    BY <2>1, <2>2, <2>3
<1>4. NotYetTold'
  <2>1. /\ client[c] # "returned"
        /\ status = "initialized" => environment_id = previous[c]
    BY <1>1 DEF AloneInv, NotYetTold
  <2>2. \/ UNCHANGED <<status, environment_id>>
        \/ status' # "initialized"
        \/ pc'[c] = "idle"
    BY <1>1 DEF ReloadStep, Stop, RunTeardown, ClosePool, JoinPool, Joined, Stopped,
       StopFailed, Start, RunSetup, Started, StartFailed, StatusStopped
  <2> QED
    BY <1>1, <2>1, <2>2 DEF NotYetTold
<1>5. NewSubprocess'
  <2>1. CASE pc'[c] \notin {"setup", "setting", "started"}
    BY <1>1, <2>1 DEF NewSubprocess
  <2>2. CASE pc'[c] \in {"setup", "setting", "started"}
    <3>1. pc'[c] = "setup" \/ pc'[c] = "setting"
      BY <1>1, <2>2 DEF ReloadStep, Stop, RunTeardown, ClosePool, JoinPool, Joined, Stopped,
         StopFailed, Start, RunSetup, Started, StartFailed
    <3>2. CASE pc'[c] = "setup"
      <4>1. subprocess' = new[c] /\ pool' = [pool EXCEPT ![new[c]] = "run"]
        BY <1>1, <3>2 DEF ReloadStep, Stop, RunTeardown, ClosePool, JoinPool, Joined,
           Stopped, StopFailed, Start, RunSetup, Started, StartFailed
      <4>2. new[c] \in Envs /\ DOMAIN pool = Envs
        BY DEF AloneInv, TypeOK
      <4> QED
        BY <1>1, <3>2, <4>1, <4>2 DEF NewSubprocess
    <3>3. CASE pc'[c] = "setting"
      <4>1. pc[c] = "setup" /\ UNCHANGED <<subprocess, pool>>
        BY <1>1, <3>3 DEF ReloadStep, Stop, RunTeardown, ClosePool, JoinPool, Joined,
           Stopped, StopFailed, Start, RunSetup, Started, StartFailed
      <4> QED
        BY <1>1, <3>3, <4>1 DEF AloneInv, NewSubprocess
    <3> QED
      BY <3>1, <3>2, <3>3
  <2> QED
    BY <2>1, <2>2
<1>6. StatusHonest'
  <2>1. CASE pc'[c] # "idle"
    BY <2>1 DEF StatusHonest, InProgress
  <2>2. CASE pc'[c] = "idle"
    <3>1. Started(c) \/ StartFailed(c)
      BY <1>1, <2>2 DEF ReloadStep, Stop, RunTeardown, ClosePool, JoinPool, Joined, Stopped,
         StopFailed, Start, RunSetup
    <3>2. CASE Started(c)
      <4>1. /\ subprocess = new[c] /\ pool[subprocess] = "run" /\ subprocess \in cached
        BY <3>2 DEF Started, AloneInv, NewSubprocess
      <4> QED
        BY <3>2, <4>1 DEF Started, StatusHonest
    <3>3. CASE StartFailed(c)
      BY <3>3 DEF StartFailed, StatusHonest
    <3> QED
      BY <3>1, <3>2, <3>3
  <2> QED
    BY <2>1, <2>2
<1> QED
  BY <1>2, <1>3, <1>4, <1>5, <1>6 DEF AloneInv

\* Only the reload in progress closes the subprocess, and it only takes its worker.
LEMMA ProcessKeepsAlone ==
  ASSUME AloneInv, TypeOK', NEW p \in Envs, ProcessStep(p)
  PROVE  AloneInv'
<1>1. UNCHANGED <<dispatcherVars, clientVars, new>>
  BY DEF ProcessStep, Execute, ProcessExits, PoolDropped, threadVars
<1>2. CASE Execute(p)
  <2>1. /\ CallsAwaited'
        /\ \A d \in Clients : pc'[d] # pc[d] =>
             \/ pc[d] = "teardown" /\ pc'[d] \in {"close", "stopFailed"}
             \/ /\ pc[d] = "setting" /\ pc'[d] \in {"started", "startFailed"}
                /\ p = subprocess /\ (pc'[d] = "started" => p \in cached')
        /\ (subprocess \in cached => subprocess \in cached')
             \/ \E d \in Clients : pc[d] = "teardown"
    BY <1>1, <1>2, ExecuteIsAwaited DEF AloneInv, dispatcherVars
  <2>2. \A d \in Clients : pc'[d] = "idle" <=> pc[d] = "idle"
    BY <2>1
  <2>3. OneReload' /\ NotYetTold' /\ InProgress' = InProgress
    BY <1>1, <2>2
    DEF AloneInv, OneReload, NotYetTold, InProgress, dispatcherVars, clientVars
  <2>4. UNCHANGED pool
    BY <1>2 DEF Execute
  <2>5. NewSubprocess'
    <3>1. ASSUME NEW d \in Clients, pc'[d] \in {"setup", "setting", "started"}
          PROVE  subprocess = new[d] /\ pool[subprocess] = "run"
      BY <2>1, <3>1 DEF AloneInv, NewSubprocess
    <3>2. ASSUME NEW d \in Clients, pc'[d] = "started" PROVE subprocess \in cached'
      BY <2>1, <3>2 DEF AloneInv, NewSubprocess, OneReload
    <3> QED
      BY <1>1, <2>4, <3>1, <3>2 DEF NewSubprocess, dispatcherVars
  <2>6. StatusHonest'
    <3>1. InProgress = {} /\ subprocess \in cached => subprocess \in cached'
      BY <2>1 DEF InProgress
    <3> QED
      BY <1>1, <2>3, <2>4, <3>1 DEF AloneInv, StatusHonest, dispatcherVars
  <2> QED
    BY <2>1, <2>3, <2>5, <2>6 DEF AloneInv
<1>3. CASE ProcessExits(p) \/ PoolDropped(p)
  <2>1. /\ UNCHANGED <<queue, pc>>
        /\ pool[subprocess] = "run" => pool'[subprocess] = "run"
        /\ pool[subprocess] = "run" /\ subprocess \in cached => subprocess \in cached'
    BY <1>3 DEF ProcessExits, PoolDropped, threadVars, AloneInv, TypeOK
  <2>2. CallsAwaited'
    BY <1>1, <2>1, SameCallsAwaited DEF AloneInv, dispatcherVars
  <2> QED
    BY <1>1, <2>1, <2>2 DEF AloneInv, OneReload, NotYetTold, NewSubprocess, StatusHonest,
       InProgress, dispatcherVars, clientVars
<1> QED
  BY <1>2, <1>3 DEF ProcessStep

\* Every step preserves the invariant, when no reload is asked for during another.
LEMMA NextAlone ==
  ASSUME ~ Overlap, AloneInv, ReloadUnderway, [Next]_vars
  PROVE  AloneInv'
<1>1. TypeOK'
  BY TypesKept DEF AloneInv
<1>2. CASE Reload
  BY <1>1, <1>2, ReloadKeepsAlone DEF Reload
<1>3. ASSUME NEW p \in Envs, ProcessStep(p) PROVE AloneInv'
  BY <1>1, <1>3, ProcessKeepsAlone
<1>4. ASSUME NEW h \in Handlers, Request(h) PROVE AloneInv'
  <2>1. /\ Run(h, "request") /\ <<h, "request">> \in Calls /\ h \in Threads
        /\ UNCHANGED <<pool, cached, pc, new, client, previous, subprocess>>
        /\ UNCHANGED <<environment_id, status>>
        /\ h \notin Clients
    BY <1>4, ThreadsAssumption
    DEF Request, Calls, Threads, threadVars, clientVars, dispatcherVars
  <2>2. CallsAwaited'
    BY <2>1, RunIsAwaited DEF AloneInv
  <2> QED
    BY <1>1, <2>1, <2>2
    DEF AloneInv, OneReload, NotYetTold, NewSubprocess, StatusHonest, InProgress
<1>5. ASSUME NEW c \in Clients, DeleteEnvironment(c) PROVE AloneInv'
  <2>1. /\ InProgress = {} /\ pc[c] = "idle"
        /\ client' = [client EXCEPT ![c] = "polling"]
        /\ previous' = [previous EXCEPT ![c] = environment_id]
        /\ pc' = pc \/ pc' = [pc EXCEPT ![c] = "stop"]
        /\ \A d \in Clients \ {c} : new'[d] = new[d]
        /\ UNCHANGED <<pool, cached, queue, subprocess, environment_id, status>>
    BY <1>5 DEF DeleteEnvironment, dispatcherVars, poolVars, AloneInv, TypeOK
  <2>2. \A d \in Clients : pc[d] = "idle" /\ (pc'[d] = "idle" \/ (d = c /\ pc'[d] = "stop"))
    <3>1. \A d \in Clients : pc[d] = "idle"
      BY <2>1 DEF InProgress
    <3>2. pc \in [Clients -> Locations]
      BY DEF AloneInv, TypeOK
    <3>3. CASE pc' = pc
      BY <3>1, <3>3
    <3>4. CASE pc' = [pc EXCEPT ![c] = "stop"]
      <4>1. pc'[c] = "stop" /\ \A d \in Clients \ {c} : pc'[d] = pc[d]
        BY <3>2, <3>4
      <4> QED
        BY <3>1, <4>1
    <3> QED
      BY <2>1, <3>3, <3>4
  <2>3. CallsAwaited'
    BY <2>1, <2>2, SameCallsAwaited DEF AloneInv
  <2>4. OneReload' /\ NotYetTold' /\ NewSubprocess'
    <3>1. OneReload' /\ NewSubprocess'
      BY <2>2 DEF OneReload, NewSubprocess
    <3>2. client'[c] = "polling" /\ previous'[c] = environment_id
      BY <2>1 DEF AloneInv, TypeOK
    <3> QED
      BY <2>1, <2>2, <3>1, <3>2 DEF NotYetTold
  <2>5. StatusHonest'
    BY <2>1 DEF AloneInv, StatusHonest
  <2> QED
    BY <1>1, <2>3, <2>4, <2>5 DEF AloneInv
<1>6. ASSUME NEW c \in Clients, WaitForReload(c) PROVE AloneInv'
  <2>1. /\ UNCHANGED <<dispatcherVars, poolVars, threadVars, previous>>
        /\ \E a \in {"raised", "returned", "timed out"} : client' = [client EXCEPT ![c] = a]
        /\ client'[c] = "returned" =>
             status = "initialized" /\ environment_id # previous[c]
    BY <1>6 DEF WaitForReload, AloneInv, TypeOK
  <2>2. CallsAwaited'
    BY <2>1, SameCallsAwaited DEF AloneInv, dispatcherVars, poolVars, threadVars
  <2>3. NotYetTold'
    BY <2>1 DEF AloneInv, TypeOK, NotYetTold, dispatcherVars, threadVars
  <2> QED
    BY <1>1, <2>1, <2>2, <2>3 DEF AloneInv, OneReload, NewSubprocess, StatusHonest,
       InProgress, dispatcherVars, poolVars, threadVars
<1>7. CASE UNCHANGED vars
  <2>1. CallsAwaited'
    BY <1>7, SameCallsAwaited DEF AloneInv, vars, dispatcherVars, poolVars, threadVars
  <2> QED
    BY <1>1, <1>7, <2>1 DEF AloneInv, OneReload, NotYetTold, NewSubprocess, StatusHonest,
       InProgress, vars, dispatcherVars, poolVars, threadVars, clientVars
<1> QED
  BY <1>2, <1>3, <1>4, <1>5, <1>6, <1>7 DEF Next

\* _wait_for_reload: when no reload is asked for during another, a client is told of
\* a new environment only when its own reload is over.
THEOREM ReloadIsOver ==
  ASSUME ~ Overlap
  PROVE  Spec => []ReloadOver
<1>1. AloneInv => ReloadOver
  BY DEF AloneInv, NotYetTold, ReloadOver
<1>2. AloneInv /\ ReloadUnderway /\ [Next]_vars => AloneInv'
  BY NextAlone
<1> QED
  BY <1>1, <1>2, InitAlone, StatusIsNeverAbandoned, PTL DEF Spec

\* WorkerDispatcher._state: when no reload is asked for during another, a status that
\* says initialized names a subprocess that runs and has its worker, whatever other
\* requests do to it.
THEOREM StatusIsHonest ==
  ASSUME ~ Overlap
  PROVE  Spec => []StatusHonest
<1>1. AloneInv => StatusHonest
  BY DEF AloneInv
<1>2. AloneInv /\ ReloadUnderway /\ [Next]_vars => AloneInv'
  BY NextAlone
<1> QED
  BY <1>1, <1>2, InitAlone, StatusIsNeverAbandoned, PTL DEF Spec

-----------------------------------------------------------------------------
(* The refinement of EnvironmentLifecycle.                                 *)

\* The ids that clients and the status know have been shown, one that a reload has drawn
\* has not; stop keeps the id, and after it the environment is not initialized.
LifecycleInv ==
  /\ environment_id \in Shown
  /\ \A c \in Clients : previous[c] \in Shown
  /\ \A c \in Clients : pc[c] # "idle" => new[c] \in used
  /\ \A c \in Clients :
       /\ pc[c] \in {"apply", "teardown", "close", "join", "joining", "stopped", "stopFailed"} =>
            old[c] = environment_id
       /\ pc[c] \in {"stop", "apply", "teardown", "close", "join", "joining", "stopped",
                     "stopFailed"} => status # "neither"
       /\ pc[c] \in {"start", "setup", "setting", "started", "startFailed"} =>
            status # "initialized"

\* The initial states are those of EnvironmentLifecycle.
LEMMA InitLifecycle == Init => LifecycleInv /\ Lifecycle!Init
<1> SUFFICES ASSUME Init PROVE LifecycleInv /\ Lifecycle!Init
  OBVIOUS
<1>1. InProgress = {}
  BY DEF Init, InProgress
<1>2. Shown = {FirstEnv}
  BY <1>1 DEF Init, Shown
<1>3. LifecycleInv
  BY <1>2 DEF Init, LifecycleInv
<1>4. {c \in Clients : client[c] = "polling" /\ environment_id # previous[c]} = {}
  BY DEF Init
<1>5. Lifecycle!Init
  BY <1>1, <1>2, <1>4 DEF Init, Lifecycle!Init
<1> QED
  BY <1>3, <1>5

\* A reload takes the environment away, and ends with another that nobody has seen.
LEMMA ReloadLifecycle ==
  ASSUME AloneInv, LifecycleInv, NEW c \in Clients, ReloadStep(c),
         UNCHANGED <<clientVars, request, used>>
  PROVE  LifecycleInv' /\ [Lifecycle!Next]_(Lifecycle!lifecycleVars)
<1> USE DEF Goto, dispatcherVars, poolVars, clientVars
<1>1. pc \in [Clients -> Locations] /\ old \in [Clients -> Envs]
  BY DEF AloneInv, TypeOK
<1>2. /\ pc[c] # "idle" /\ UNCHANGED <<new, client, previous, used>>
      /\ \E a \in Locations : pc' = [pc EXCEPT ![c] = a]
  BY <1>1 DEF ReloadStep, Stop, RunTeardown, ClosePool, JoinPool, Joined, Stopped,
     StopFailed, Start, RunSetup, Started, StartFailed, Locations
<1>3. \A d \in Clients \ {c} : pc[d] = "idle" /\ pc'[d] = "idle"
  BY <1>1, <1>2 DEF AloneInv, OneReload
<1>4. InProgress = {c} /\ Shown = used \ {new[c]}
  BY <1>2, <1>3 DEF InProgress, Shown
<1>5. CASE pc'[c] = "idle"
  <2>1. /\ environment_id' = new[c] /\ status' \in {"initialized", "error"}
        /\ status # "initialized"
    BY <1>1, <1>2, <1>5 DEF ReloadStep, Stop, RunTeardown, ClosePool, JoinPool, Joined, Stopped,
       StopFailed, Start, RunSetup, Started, StartFailed, LifecycleInv
  <2>2. InProgress' = {}
    BY <1>3, <1>5 DEF InProgress
  <2>3. Shown' = used /\ Shown' = Shown \cup {new[c]} /\ new[c] \notin Shown /\ new[c] \in Envs
    <3>1. Shown' = used
      BY <1>2, <2>2 DEF Shown
    <3>2. new[c] \in used /\ new[c] \in Envs
      BY <1>2 DEF LifecycleInv, AloneInv, TypeOK
    <3> QED
      BY <1>4, <3>1, <3>2
  <2>4. LifecycleInv'
    BY <1>2, <1>3, <1>5, <2>1, <2>3 DEF LifecycleInv
  <2>5. {d \in Clients : client[d] = "polling" /\ environment_id # previous[d]}'
          = {d \in Clients : client[d] = "polling"}
    BY <1>2, <2>1, <2>3 DEF LifecycleInv
  <2>6. PICK e \in Envs : e = new[c]
    BY <2>3
  <2>7. Lifecycle!Renew(e)
    BY <1>2, <1>4, <2>1, <2>2, <2>3, <2>5, <2>6 DEF Lifecycle!Renew, Lifecycle!Waiting
  <2> QED
    BY <2>4, <2>7 DEF Lifecycle!Next
<1>6. CASE pc'[c] # "idle"
  <2>1. /\ UNCHANGED environment_id
        /\ \/ UNCHANGED status
           \/ status = "initialized" /\ status' \in {"neither", "error"}
    BY <1>1, <1>6 DEF ReloadStep, Stop, RunTeardown, ClosePool, JoinPool, Joined, Stopped,
       StopFailed, Start, RunSetup, Started, StartFailed, StatusStopped, LifecycleInv,
       AloneInv, TypeOK
  <2>2. InProgress' = {c} /\ Shown' = Shown
    BY <1>2, <1>3, <1>4, <1>6 DEF InProgress, Shown
  <2>3. /\ pc'[c] \in {"apply", "teardown", "close", "join", "joining", "stopped",
                       "stopFailed"} => old'[c] = environment_id'
        /\ pc'[c] \in {"stop", "apply", "teardown", "close", "join", "joining", "stopped",
                       "stopFailed"} => status' # "neither"
        /\ pc'[c] \in {"start", "setup", "setting", "started", "startFailed"} =>
             status' # "initialized"
    BY <1>1, <1>6 DEF ReloadStep, Stop, RunTeardown, ClosePool, JoinPool, Joined, Stopped,
       StopFailed, Start, RunSetup, Started, StartFailed, StatusStopped, LifecycleInv
  <2>4. LifecycleInv'
    BY <1>2, <1>3, <2>1, <2>2, <2>3 DEF LifecycleInv
  <2>5. {d \in Clients : client[d] = "polling" /\ environment_id # previous[d]}'
          = {d \in Clients : client[d] = "polling" /\ environment_id # previous[d]}
    BY <1>2, <2>1
  <2>6. CASE UNCHANGED status
    BY <1>2, <1>4, <2>1, <2>2, <2>4, <2>5, <2>6 DEF Lifecycle!lifecycleVars
  <2>7. CASE status = "initialized" /\ status' \in {"neither", "error"}
    <3>1. Lifecycle!TakeAway
      BY <1>2, <1>4, <2>1, <2>2, <2>5, <2>7 DEF Lifecycle!TakeAway
    <3> QED
      BY <2>4, <3>1 DEF Lifecycle!Next
  <2> QED
    BY <2>1, <2>4, <2>6, <2>7
<1> QED
  BY <1>5, <1>6

\* The processes change nothing that clients see.
LEMMA ProcessLifecycle ==
  ASSUME AloneInv, LifecycleInv, NEW p \in Envs, ProcessStep(p)
  PROVE  LifecycleInv' /\ UNCHANGED Lifecycle!lifecycleVars
<1>1. UNCHANGED <<dispatcherVars, clientVars, new, old, used>>
  BY DEF ProcessStep, Execute, ProcessExits, PoolDropped, threadVars
<1>2. \A d \in Clients : pc'[d] # pc[d] =>
        \/ pc[d] = "teardown" /\ pc'[d] \in {"close", "stopFailed"}
        \/ pc[d] = "setting" /\ pc'[d] \in {"started", "startFailed"}
  <2>1. CASE Execute(p)
    BY <1>1, <2>1, ExecuteIsAwaited DEF AloneInv, dispatcherVars
  <2>2. CASE ProcessExits(p) \/ PoolDropped(p)
    BY <2>2 DEF ProcessExits, PoolDropped, threadVars
  <2> QED
    BY <2>1, <2>2 DEF ProcessStep
<1>3. InProgress' = InProgress /\ Shown' = Shown
  BY <1>1, <1>2 DEF InProgress, Shown
<1>4. LifecycleInv'
  BY <1>1, <1>2, <1>3 DEF LifecycleInv, dispatcherVars, clientVars
<1> QED
  BY <1>1, <1>3, <1>4 DEF Lifecycle!lifecycleVars, dispatcherVars, clientVars

\* delete_environment, when no reload is in progress, schedules one.
LEMMA DeleteLifecycle ==
  ASSUME ~ Overlap, AloneInv, ReloadUnderway, LifecycleInv, NEW c \in Clients,
         DeleteEnvironment(c)
  PROVE  LifecycleInv' /\ Lifecycle!Ask(c)
<1>1. /\ InProgress = {} /\ client[c] # "polling" /\ status # "neither"
      /\ client' = [client EXCEPT ![c] = "polling"]
      /\ previous' = [previous EXCEPT ![c] = environment_id]
      /\ UNCHANGED <<environment_id, status, old>>
  BY DEF DeleteEnvironment, ReloadUnderway, dispatcherVars
<1>2. PICK e \in Envs \ used : /\ used' = used \cup {e}
                               /\ new' = [new EXCEPT ![c] = e]
                               /\ pc' = [pc EXCEPT ![c] = "stop"]
  BY <1>1 DEF DeleteEnvironment, NeedsReload
<1>3. /\ DOMAIN pc = Clients /\ DOMAIN new = Clients /\ DOMAIN previous = Clients
      /\ DOMAIN client = Clients
  BY DEF AloneInv, TypeOK
<1>4. \A d \in Clients : pc[d] = "idle"
  BY <1>1 DEF InProgress
<1>5. /\ pc'[c] = "stop" /\ new'[c] = e
      /\ \A d \in Clients \ {c} : pc'[d] = "idle"
  BY <1>2, <1>3, <1>4
<1>6. InProgress' = {c} /\ Shown' = Shown
  <2>1. InProgress' = {c}
    BY <1>5 DEF InProgress
  <2>2. Shown = used /\ Shown' = (used \cup {e}) \ {e}
    BY <1>1, <1>2, <1>5, <2>1 DEF Shown
  <2> QED
    BY <1>2, <2>1, <2>2
<1>7. LifecycleInv'
  BY <1>1, <1>2, <1>3, <1>5, <1>6 DEF LifecycleInv
<1>8. {d \in Clients : client[d] = "polling" /\ environment_id # previous[d]}'
        = {d \in Clients : client[d] = "polling" /\ environment_id # previous[d]}
  BY <1>1, <1>3
<1>9. Lifecycle!Ask(c)
  BY <1>1, <1>6, <1>8 DEF Lifecycle!Ask, Lifecycle!Waiting
<1> QED
  BY <1>7, <1>9

\* _wait_for_reload: a client that sees another id has waited for it.
LEMMA WaitLifecycle ==
  ASSUME AloneInv, LifecycleInv, NEW c \in Clients, WaitForReload(c)
  PROVE  LifecycleInv' /\ Lifecycle!Answer(c)
<1>1. UNCHANGED <<environment_id, status, pc, old, new, previous, used>>
  BY DEF WaitForReload, dispatcherVars, threadVars
<1>2. InProgress' = InProgress /\ Shown' = Shown
  BY <1>1 DEF InProgress, Shown
<1>3. LifecycleInv'
  BY <1>1, <1>2 DEF LifecycleInv
<1>4. {d \in Clients : client[d] = "polling" /\ environment_id # previous[d]}'
        = {d \in Clients : client[d] = "polling" /\ environment_id # previous[d]} \ {c}
  BY <1>1 DEF WaitForReload, AloneInv, TypeOK
<1>5. Lifecycle!Answer(c)
  BY <1>1, <1>2, <1>4 DEF WaitForReload, Lifecycle!Answer, Lifecycle!Waiting
<1> QED
  BY <1>3, <1>5

\* Every step is one of EnvironmentLifecycle or invisible.
LEMMA NextLifecycle ==
  ASSUME ~ Overlap, AloneInv, ReloadUnderway, LifecycleInv, [Next]_vars
  PROVE  LifecycleInv' /\ [Lifecycle!Next]_(Lifecycle!lifecycleVars)
<1>1. CASE Reload
  BY <1>1, ReloadLifecycle DEF Reload
<1>2. ASSUME NEW p \in Envs, ProcessStep(p)
      PROVE  LifecycleInv' /\ UNCHANGED Lifecycle!lifecycleVars
  BY <1>2, ProcessLifecycle
<1>3. CASE (\E h \in Handlers : Request(h)) \/ UNCHANGED vars
  <2>1. UNCHANGED <<environment_id, status, pc, old, new, client, previous, used>>
    BY <1>3 DEF Request, vars, dispatcherVars, threadVars, clientVars
  <2>2. InProgress' = InProgress /\ Shown' = Shown
    BY <2>1 DEF InProgress, Shown
  <2> QED
    BY <2>1, <2>2 DEF LifecycleInv, Lifecycle!lifecycleVars
<1>4. ASSUME NEW c \in Clients, DeleteEnvironment(c)
      PROVE  LifecycleInv' /\ Lifecycle!Next
  BY <1>4, DeleteLifecycle DEF Lifecycle!Next
<1>5. ASSUME NEW c \in Clients, WaitForReload(c) PROVE LifecycleInv' /\ Lifecycle!Next
  BY <1>5, WaitLifecycle DEF Lifecycle!Next
<1> QED
  BY <1>1, <1>2, <1>3, <1>4, <1>5 DEF Next

\* service/runner.py and reload_environment: what any number of clients see of the
\* environment, when no reload is asked for during another, is a behaviour of
\* EnvironmentLifecycle.
THEOREM DispatcherImplementsLifecycle ==
  ASSUME ~ Overlap
  PROVE  Spec => ImplementsEnvironment
<1>1. AloneInv /\ ReloadUnderway /\ [Next]_vars => AloneInv'
  BY NextAlone
<1>2. AloneInv /\ ReloadUnderway /\ LifecycleInv /\ [Next]_vars =>
        LifecycleInv' /\ [Lifecycle!Next]_(Lifecycle!lifecycleVars)
  BY NextLifecycle
<1> QED
  BY <1>1, <1>2, InitAlone, InitLifecycle, StatusIsNeverAbandoned, PTL
  DEF Spec, ImplementsEnvironment, Lifecycle!Spec
=============================================================================
