---------------------------- MODULE OutputProofs -----------------------------
(***************************************************************************)
(* Proofs about what a plan produces: in whose name its scans are made,    *)
(* who writes its documents, where devices find their path and what is     *)
(* reported as progress, for any number of tasks, requests, runs and       *)
(* statuses.                                                               *)
(*                                                                         *)
(* Runs, statuses and requests do not disturb each other's invariants, so  *)
(* each has its own: RunsInv, StatusInv and CallsInv.  The last rests on   *)
(* the subprocess serving one call at a time (OneCall), on a task being    *)
(* out of pending or complete before another is taken (CycleInv), and on   *)
(* where the requests are whose writers are subscribed (WritersInv).       *)
(***************************************************************************)
EXTENDS PlanOutput, SequenceTheorems, TLAPS

\* The runs that are open are different.
RunsDiffer == \A i, j \in DOMAIN open : open[i] = open[j] => i = j

\* The subprocess serves one begin_task at a time, that of the headers, and none
\* while it resumes a plan.
OneCall ==
  /\ \A r \in Requests : pc[r] \in {"serving", "waiting"} => headers = r /\ ~Resumed
  /\ headers \in Requests => pc[headers] # "new"
  /\ headers = NoRequest =>
       /\ cycle = "get" /\ channel = <<>>
       /\ \A r \in Requests : pc[r] \in {"new", "checked", "refused"}

\* Where _cycle is, and what it has to do with the RunEngine and the task.
CycleInv ==
  /\ cycle = "plan" => engine \in {"running", "closing"}
  /\ cycle = "get" => current \notin pending /\ current \in complete \cup {NoTask}
  /\ cycle # "get" => current \in Tasks

\* Who subscribed, and whose task is executed or was.
WritersInv ==
  /\ writers = removers
  /\ \A r \in Requests :
       /\ pc[r] = "waiting" => r \in writers /\ Wanted[r] \in pending \cup cleared
       /\ pc[r] = "serving" /\ Wanted[r] \in pending \ complete => r \in writers
       /\ pc[r] = "begun" =>
            \/ Wanted[r] \in complete
            \/ Wanted[r] = current /\ cycle \in {"plan", "over"} /\ r \in writers

\* Whoever may still set the headers of an executing plan came before it.
EarlyInv == Executing => \A r \in Requests : pc[r] = "checked" => r \in early

\* An update that has passed the check is of a status that moves, or of one that has
\* completed and is not remembered; what is remembered has completed.
UpdatesInv ==
  OneThread =>
    /\ \A s \in updates : stage[s] \in {"moving", "complete"} /\ s \notin finished
    /\ \A s \in finished : stage[s] = "complete"

RunsInv   == RunsDiffer /\ PathsFollowRuns
StatusInv == UpdatesInv /\ ProgressSettled
CallsInv  == OneCall /\ CycleInv /\ WritersInv /\ EarlyInv /\ NoStrayWriter /\ ScansCredited

-----------------------------------------------------------------------------
(* run_start and run_stop, and the status monitor.                         *)

LEMMA OpenRunKeepsRuns ==
  ASSUME TypeOK, RunsInv, NEW x \in Runs, OpenRun(x)
  PROVE  /\ RunsInv'
         /\ open' \in Seq(Runs) /\ docs' \in Seq(Runs)
<1> USE DEF TypeOK
<1>1. /\ open' = Append(open, x) /\ docs' = Append(docs, x) /\ UNCHANGED rejected
      /\ x \notin Range(open \o docs)
  BY DEF OpenRun
<1>2. open' \in Seq(Runs) /\ docs' \in Seq(Runs)
  BY <1>1
<1>3. \A i \in DOMAIN open : open[i] # x
  <2> SUFFICES ASSUME NEW i \in DOMAIN open, open[i] = x
               PROVE  FALSE
    OBVIOUS
  <2>1. i \in DOMAIN (open \o docs) /\ (open \o docs)[i] = x
    OBVIOUS
  <2> QED
    BY <1>1, <2>1 DEF Range
<1>4. /\ DOMAIN open' = 1 .. Len(open) + 1 /\ open'[Len(open) + 1] = x
      /\ \A i \in DOMAIN open : open'[i] = open[i]
  BY <1>1
<1>5. RunsDiffer'
  BY <1>3, <1>4 DEF RunsInv, RunsDiffer
<1>6. /\ DOMAIN docs' = 1 .. Len(docs) + 1 /\ docs'[Len(docs) + 1] = x
      /\ \A i \in DOMAIN docs : docs'[i] = docs[i]
  BY <1>1
<1>7. Range(open') \subseteq Range(docs')
  <2>1. Range(docs) \subseteq Range(docs') /\ x \in Range(docs')
    BY <1>6, SMTT(30) DEF Range
  <2>2. Range(open') \subseteq Range(open) \cup {x}
    BY <1>4 DEF Range
  <2> QED
    BY <2>1, <2>2 DEF RunsInv, PathsFollowRuns
<1> QED
  BY <1>1, <1>2, <1>5, <1>7 DEF RunsInv, PathsFollowRuns

LEMMA CloseRunKeepsRuns ==
  ASSUME TypeOK, RunsInv, NEW x \in Runs, CloseRun(x)
  PROVE  /\ RunsInv'
         /\ open' \in Seq(Runs) /\ docs' \in Seq(Runs)
<1> USE DEF TypeOK, RunsInv
<1>1. docs' \in Seq(Runs)
  BY DEF CloseRun, RunStop, Innermost, Front, Last
<1>2. rejected' = (rejected \/ ~Innermost(x))
  BY DEF CloseRun, RunStop
<1>3. CASE UNCHANGED open /\ ~Innermost(x)
  BY <1>1, <1>2, <1>3 DEF CloseRun, RunStop, RunsDiffer, PathsFollowRuns
<1>4. CASE \E i \in DOMAIN open : open[i] = x /\ open' = RemoveAt(open, i)
  <2>1. PICK i \in DOMAIN open : open[i] = x /\ open' = RemoveAt(open, i)
    BY <1>4
  <2>2. open' = SubSeq(open, 1, i - 1) \o SubSeq(open, i + 1, Len(open))
    BY <2>1 DEF RemoveAt
  <2>3. /\ open' \in Seq(Runs) /\ DOMAIN open' = 1 .. Len(open) - 1
        /\ \A j \in DOMAIN open' : open'[j] = IF j < i THEN open[j] ELSE open[j + 1]
    <3> DEFINE a == SubSeq(open, 1, i - 1)
               b == SubSeq(open, i + 1, Len(open))
    <3>1. i \in 1 .. Len(open) /\ Len(open) \in Nat
      BY <2>1
    <3>2. a \in Seq(Runs) /\ Len(a) = i - 1 /\ \A j \in 1 .. i - 1 : a[j] = open[j]
      BY <3>1
    <3>3. /\ b \in Seq(Runs) /\ Len(b) = Len(open) - i
          /\ \A j \in 1 .. Len(open) - i : b[j] = open[j + i]
      BY <3>1
    <3> HIDE DEF a, b
    <3>c. /\ a \o b \in Seq(Runs) /\ Len(a \o b) = Len(a) + Len(b)
          /\ \A j \in 1 .. Len(a) + Len(b) :
               (a \o b)[j] = IF j <= Len(a) THEN a[j] ELSE b[j - Len(a)]
      <4>1. a \in Seq(Runs) /\ b \in Seq(Runs)
        BY <3>2, <3>3
      <4> QED
        BY <4>1, ConcatProperties
    <3>d. Len(a) + Len(b) = Len(open) - 1
      BY <3>1, <3>2, <3>3
    <3>4. /\ a \o b \in Seq(Runs) /\ Len(a \o b) = Len(open) - 1
          /\ \A j \in 1 .. Len(open) - 1 :
               (a \o b)[j] = IF j <= Len(a) THEN a[j] ELSE b[j - Len(a)]
      BY <3>c, <3>d
    <3>5. ASSUME NEW j \in 1 .. Len(open) - 1
          PROVE  (a \o b)[j] = IF j < i THEN open[j] ELSE open[j + 1]
      <4>1. CASE j < i
        <5>1. j \in 1 .. i - 1 /\ j <= Len(a)
          BY <3>1, <3>2, <4>1
        <5>2. (a \o b)[j] = a[j] /\ a[j] = open[j]
          BY <3>2, <3>4, <5>1
        <5> QED
          BY <4>1, <5>2
      <4>2. CASE j >= i
        <5>1. (a \o b)[j] = b[j - (i - 1)]
          BY <3>1, <3>2, <3>4, <4>2
        <5>2. j - (i - 1) \in 1 .. Len(open) - i /\ (j - (i - 1)) + i = j + 1
          BY <3>1, <4>2
        <5>3. b[j - (i - 1)] = open[(j - (i - 1)) + i]
          BY <3>3, <5>2
        <5> QED
          BY <3>1, <4>2, <5>1, <5>2, <5>3, SMTT(30)
      <4>3. j < i \/ j >= i
        BY <3>1
      <4> QED
        BY <4>1, <4>2, <4>3
    <3>6. open' = a \o b
      BY <2>2 DEF a, b
    <3>7. open' \in Seq(Runs) /\ Len(open') = Len(open) - 1
      BY <3>4, <3>6
    <3>8. DOMAIN open' = 1 .. Len(open) - 1
      BY <3>7
    <3> QED
      BY <3>5, <3>6, <3>7, <3>8
  <2> DEFINE at(j) == IF j < i THEN j ELSE j + 1
  <2>a. /\ i \in 1 .. Len(open) /\ DOMAIN open = 1 .. Len(open) /\ Len(open) \in Nat
        /\ \A j \in DOMAIN open' : at(j) \in DOMAIN open /\ at(j) # i /\ open'[j] = open[at(j)]
    BY <2>1, <2>3
  <2>b. \A j, k \in DOMAIN open' : at(j) = at(k) => j = k
    BY <2>3
  <2>4. RunsDiffer'
    <3> SUFFICES ASSUME NEW j \in DOMAIN open', NEW k \in DOMAIN open', open'[j] = open'[k]
                 PROVE  j = k
      BY DEF RunsDiffer
    <3>1. at(j) = at(k)
      BY <2>a DEF RunsDiffer
    <3> QED
      BY <2>b, <3>1
  <2>5. \A j \in DOMAIN open' : open'[j] \in Range(open) /\ open'[j] # x
    BY <2>1, <2>a DEF RunsDiffer, Range
  <2>6. CASE Innermost(x)
    <3>1. docs # <<>> /\ docs[Len(docs)] = x /\ docs' = SubSeq(docs, 1, Len(docs) - 1)
      BY <2>6 DEF CloseRun, RunStop, Innermost, Front, Last
    <3>2. DOMAIN docs' = 1 .. Len(docs) - 1 /\ \A j \in DOMAIN docs' : docs'[j] = docs[j]
      BY <3>1
    <3>3. ASSUME NEW y \in Range(docs), y # x
          PROVE  y \in Range(docs')
      <4>1. PICK j \in DOMAIN docs : docs[j] = y
        BY <3>3 DEF Range
      <4>2. j # Len(docs) /\ j \in 1 .. Len(docs) /\ Len(docs) \in Nat
        BY <3>1, <3>3, <4>1
      <4>3. j \in DOMAIN docs'
        BY <3>2, <4>2
      <4> QED
        BY <3>2, <4>1, <4>3 DEF Range
    <3>4. Range(open') \subseteq Range(docs')
      BY <2>5, <3>3 DEF PathsFollowRuns, Range
    <3>5. ~rejected => docs' = open'
      <4> SUFFICES ASSUME ~rejected
                   PROVE  docs' = open'
        OBVIOUS
      <4>1. docs = open
        BY DEF PathsFollowRuns
      <4>2. i = Len(open)
        BY <2>1, <3>1, <4>1 DEF RunsDiffer
      <4>3. DOMAIN docs' = DOMAIN open' /\ \A j \in DOMAIN open' : docs'[j] = open'[j]
        BY <2>3, <3>2, <4>1, <4>2
      <4>4. DOMAIN docs' = 1 .. Len(docs') /\ DOMAIN open' = 1 .. Len(open')
        BY <1>1, <2>3
      <4>5. Len(docs') = Len(open')
        BY <1>1, <2>3, <4>3, <4>4
      <4> QED
        BY <1>1, <2>3, <4>3, <4>4, <4>5, SMTT(30)
    <3> QED
      BY <1>1, <1>2, <2>3, <2>4, <2>6, <3>4, <3>5 DEF PathsFollowRuns
  <2>7. CASE ~Innermost(x)
    <3>1. docs' = docs /\ rejected'
      BY <1>2, <2>7 DEF CloseRun, RunStop
    <3>2. Range(open') \subseteq Range(docs')
      BY <2>5, <3>1 DEF PathsFollowRuns, Range
    <3> QED
      BY <1>1, <2>3, <2>4, <3>1, <3>2 DEF PathsFollowRuns
  <2> QED
    BY <2>6, <2>7
<1> QED
  BY <1>3, <1>4 DEF CloseRun

\* The status monitor.
LEMMA StatusStepKeepsStatuses ==
  ASSUME TypeOK, StatusInv, NEW s \in Statuses, StatusStep(s)
  PROVE  TypeOK' /\ StatusInv'
<1> USE OutputAssumption DEF TypeOK, Stages, StatusInv, UpdatesInv, ProgressSettled,
   requestVars,
        workerVars, runVars, engineVars, historyVars
<1>1. CASE MonitorStatus(s)
  BY <1>1 DEF MonitorStatus
<1>2. CASE UpdateChecked(s)
  BY <1>2 DEF UpdateChecked, Updating, NotCompleted
<1>3. CASE UpdatePublished(s)
  BY <1>3 DEF UpdatePublished
<1>4. CASE Done(s)
  BY <1>4 DEF Done, NotCompleted
<1>5. CASE Drop(s)
  BY <1>5 DEF Drop, DropStatus
<1>6. CASE Finish(s)
  BY <1>6 DEF Finish
<1> QED
  BY <1>1, <1>2, <1>3, <1>4, <1>5, <1>6 DEF StatusStep

-----------------------------------------------------------------------------
(* The calls of the subprocess and the worker thread.                      *)

\* A request looks for the active task.
LEMMA CheckActiveKeeps ==
  ASSUME TypeOK, CallsInv, NEW r \in Requests, CheckActive(r)
  PROVE  TypeOK' /\ CallsInv'
<1> USE OutputAssumption DEF TypeOK, CallsInv, CheckActive, Goto, requestVars, workerVars,
   runVars,
        engineVars, statusVars, historyVars
<1>1. TypeOK'
  BY DEF Active, Locations, Stages
<1>2. OneCall'
  BY DEF Active, OneCall, Free, Resumed
<1>3. CycleInv'
  BY DEF Active, CycleInv
<1>4. WritersInv'
  BY DEF Active, WritersInv, CycleInv, OneCall, Resumed
<1>5. EarlyInv'
  BY DEF Active, EarlyInv, Executing, CycleInv
<1>6. NoStrayWriter'
  BY DEF Active, NoStrayWriter, WritersInv, CycleInv, Range
<1>7. ScansCredited'
  BY DEF Active, ScansCredited, Executing, EarlyInv, OneCall, WritersInv, CycleInv
<1> QED
  BY <1>1, <1>2, <1>3, <1>4, <1>5, <1>6, <1>7

\* begin_task sets the headers and subscribes.
LEMMA PrepareKeeps ==
  ASSUME TypeOK, CallsInv, NEW r \in Requests, Prepare(r)
  PROVE  TypeOK' /\ CallsInv'
<1> USE OutputAssumption DEF TypeOK, CallsInv, Prepare, Goto, requestVars, workerVars, runVars,
        engineVars, statusVars, historyVars
<1>1. TypeOK'
  BY DEF SetHeaders, Locations, Stages
<1>2. OneCall'
  BY DEF SetHeaders, OneCall, Free, Resumed
<1>3. CycleInv'
  BY DEF SetHeaders, CycleInv
<1>4. WritersInv'
  BY DEF SetHeaders, WritersInv, CycleInv, OneCall, Resumed
<1>5. EarlyInv'
  BY DEF SetHeaders, EarlyInv, Executing, CycleInv
<1>6. NoStrayWriter'
  BY DEF SetHeaders, NoStrayWriter, WritersInv, CycleInv, Range
<1>7. ScansCredited'
  BY DEF SetHeaders, ScansCredited, Executing, EarlyInv, OneCall, WritersInv, CycleInv
<1> QED
  BY <1>1, <1>2, <1>3, <1>4, <1>5, <1>6, <1>7

\* The worker takes the task or refuses it.
LEMMA BeginKeeps ==
  ASSUME TypeOK, CallsInv, NEW r \in Requests, Begin(r)
  PROVE  TypeOK' /\ CallsInv'
<1> USE OutputAssumption DEF TypeOK, CallsInv, Begin, Goto, requestVars, workerVars, runVars,
        engineVars, statusVars, historyVars
<1>1. TypeOK'
  BY DEF Accepted, Room, GiveUp, Unsubscribe, Locations, Stages
<1>2. OneCall'
  BY DEF Accepted, Room, GiveUp, Unsubscribe, OneCall, Free, Resumed
<1>3. CycleInv'
  BY DEF Accepted, Room, GiveUp, Unsubscribe, CycleInv
<1>4. WritersInv'
  BY DEF Accepted, Room, GiveUp, Unsubscribe, WritersInv, CycleInv, OneCall, Resumed
<1>5. EarlyInv'
  BY DEF Accepted, Room, GiveUp, Unsubscribe, EarlyInv, Executing, CycleInv
<1>6. NoStrayWriter'
  BY DEF Accepted, Room, GiveUp, Unsubscribe, NoStrayWriter, WritersInv, CycleInv, Range
<1>7. ScansCredited'
  BY DEF Accepted, Room, GiveUp, Unsubscribe, ScansCredited, Executing, EarlyInv, OneCall,
     WritersInv, CycleInv
<1> QED
  BY <1>1, <1>2, <1>3, <1>4, <1>5, <1>6, <1>7

\* begin_task waited long enough.
LEMMA BeginTimesOutKeeps ==
  ASSUME TypeOK, CallsInv, NEW r \in Requests, BeginTimesOut(r)
  PROVE  TypeOK' /\ CallsInv'
<1> USE OutputAssumption DEF TypeOK, CallsInv, BeginTimesOut, Goto, requestVars, workerVars,
   runVars,
        engineVars, statusVars, historyVars
<1>1. TypeOK'
  BY DEF GiveUp, Unsubscribe, Locations, Stages
<1>2. OneCall'
  BY DEF GiveUp, Unsubscribe, OneCall, Free, Resumed
<1>3. CycleInv'
  BY DEF GiveUp, Unsubscribe, CycleInv
<1>4. WritersInv'
  BY DEF GiveUp, Unsubscribe, WritersInv, CycleInv, OneCall, Resumed
<1>5. EarlyInv'
  BY DEF GiveUp, Unsubscribe, EarlyInv, Executing, CycleInv
<1>6. NoStrayWriter'
  BY DEF GiveUp, Unsubscribe, NoStrayWriter, WritersInv, CycleInv, Range
<1>7. ScansCredited'
  BY DEF GiveUp, Unsubscribe, ScansCredited, Executing, EarlyInv, OneCall, WritersInv, CycleInv
<1> QED
  BY <1>1, <1>2, <1>3, <1>4, <1>5, <1>6, <1>7

\* The worker thread takes a task.
LEMMA TakeTaskKeeps ==
  ASSUME TypeOK, CallsInv, TakeTask
  PROVE  TypeOK' /\ CallsInv'
<1> USE OutputAssumption DEF TypeOK, CallsInv, TakeTask, Goto, requestVars, workerVars,
   runVars,
        engineVars, statusVars, historyVars
<1>1. TypeOK'
  BY DEF Locations, Stages
<1>2. OneCall'
  BY DEF OneCall, Free, Resumed
<1>3. CycleInv'
  BY DEF CycleInv
<1>4. WritersInv'
  BY DEF WritersInv, CycleInv, OneCall, Resumed
<1>5. EarlyInv'
  BY DEF EarlyInv, Executing, CycleInv
<1>6. NoStrayWriter'
  BY DEF NoStrayWriter, WritersInv, CycleInv, Range
<1>7. ScansCredited'
  BY DEF ScansCredited, Executing, EarlyInv, OneCall, WritersInv, CycleInv
<1> QED
  BY <1>1, <1>2, <1>3, <1>4, <1>5, <1>6, <1>7

\* do_task.
LEMMA StartPlanKeeps ==
  ASSUME TypeOK, CallsInv, StartPlan
  PROVE  TypeOK' /\ CallsInv'
<1> USE OutputAssumption DEF TypeOK, CallsInv, StartPlan, Goto, requestVars, workerVars,
   runVars,
        engineVars, statusVars, historyVars
<1>1. TypeOK'
  BY DEF ApplyMetadata, Report, Finishing, Unsubscribe, Locations, Stages
<1>2. OneCall'
  BY DEF ApplyMetadata, Report, Finishing, Unsubscribe, OneCall, Free, Resumed
<1>3. CycleInv'
  BY DEF ApplyMetadata, Report, Finishing, Unsubscribe, CycleInv
<1>4. WritersInv'
  BY DEF ApplyMetadata, Report, Finishing, Unsubscribe, WritersInv, CycleInv, OneCall, Resumed
<1>5. EarlyInv'
  BY DEF ApplyMetadata, Report, Finishing, Unsubscribe, EarlyInv, Executing, CycleInv
<1>6. NoStrayWriter'
  BY DEF ApplyMetadata, Report, Finishing, Unsubscribe, NoStrayWriter, WritersInv, CycleInv,
     Range
<1>7. ScansCredited'
  BY DEF ApplyMetadata, Report, Finishing, Unsubscribe, ScansCredited, Executing, EarlyInv,
     OneCall, WritersInv, CycleInv
<1> QED
  BY <1>1, <1>2, <1>3, <1>4, <1>5, <1>6, <1>7

\* do_task raises.
LEMMA PlanInvalidKeeps ==
  ASSUME TypeOK, CallsInv, PlanInvalid
  PROVE  TypeOK' /\ CallsInv'
<1> USE OutputAssumption DEF TypeOK, CallsInv, PlanInvalid, Goto, requestVars, workerVars,
   runVars,
        engineVars, statusVars, historyVars
<1>1. TypeOK'
  BY DEF Locations, Stages
<1>2. OneCall'
  BY DEF OneCall, Free, Resumed
<1>3. CycleInv'
  BY DEF CycleInv
<1>4. WritersInv'
  BY DEF WritersInv, CycleInv, OneCall, Resumed
<1>5. EarlyInv'
  BY DEF EarlyInv, Executing, CycleInv
<1>6. NoStrayWriter'
  BY DEF NoStrayWriter, WritersInv, CycleInv, Range
<1>7. ScansCredited'
  BY DEF ScansCredited, Executing, EarlyInv, OneCall, WritersInv, CycleInv
<1> QED
  BY <1>1, <1>2, <1>3, <1>4, <1>5, <1>6, <1>7

\* The end of _cycle.
LEMMA EndCycleKeeps ==
  ASSUME TypeOK, CallsInv, EndCycle
  PROVE  TypeOK' /\ CallsInv'
<1> USE OutputAssumption DEF TypeOK, CallsInv, EndCycle, Goto, requestVars, workerVars,
   runVars,
        engineVars, statusVars, historyVars
<1>1. TypeOK'
  <2>1. CASE current \in pending
    <3>1. pc' \in [Requests -> Locations]
      BY <2>1 DEF Report, Locations
    <3>2. writers' \subseteq Requests /\ removers' \subseteq Requests
      BY <2>1 DEF Report, Finishing, Unsubscribe
    <3> QED
      BY <2>1, <3>1, <3>2 DEF CycleInv
  <2>2. CASE current \notin pending
    BY <2>2 DEF CycleInv
  <2> QED
    BY <2>1, <2>2
<1>2. OneCall'
  BY DEF Report, Finishing, Unsubscribe, OneCall, Free, Resumed
<1>3. CycleInv'
  BY DEF Report, Finishing, Unsubscribe, CycleInv
<1>4. WritersInv'
  BY DEF Report, Finishing, Unsubscribe, WritersInv, CycleInv, OneCall, Resumed
<1>5. EarlyInv'
  BY DEF Report, Finishing, Unsubscribe, EarlyInv, Executing, CycleInv
<1>6. NoStrayWriter'
  BY DEF Report, Finishing, Unsubscribe, NoStrayWriter, WritersInv, CycleInv, Range
<1>7. ScansCredited'
  BY DEF Report, Finishing, Unsubscribe, ScansCredited, Executing, EarlyInv, OneCall,
     WritersInv, CycleInv
<1> QED
  BY <1>1, <1>2, <1>3, <1>4, <1>5, <1>6, <1>7

\* The plan ends.
LEMMA PlanEndsKeeps ==
  ASSUME TypeOK, CallsInv, PlanEnds
  PROVE  TypeOK' /\ CallsInv'
<1> USE OutputAssumption DEF TypeOK, CallsInv, PlanEnds, Goto, requestVars, workerVars,
   runVars,
        engineVars, statusVars, historyVars
<1>1. TypeOK'
  BY DEF Locations, Stages
<1>2. OneCall'
  BY DEF OneCall, Free, Resumed
<1>3. CycleInv'
  BY DEF CycleInv
<1>4. WritersInv'
  BY DEF WritersInv, CycleInv, OneCall, Resumed
<1>5. EarlyInv'
  BY DEF EarlyInv, Executing, CycleInv
<1>6. NoStrayWriter'
  BY DEF NoStrayWriter, WritersInv, CycleInv, Range
<1>7. ScansCredited'
  BY DEF ScansCredited, Executing, EarlyInv, OneCall, WritersInv, CycleInv
<1> QED
  BY <1>1, <1>2, <1>3, <1>4, <1>5, <1>6, <1>7

\* The RunEngine is idle again.
LEMMA EngineIdleKeeps ==
  ASSUME TypeOK, CallsInv, EngineIdle
  PROVE  TypeOK' /\ CallsInv'
<1> USE OutputAssumption DEF TypeOK, CallsInv, EngineIdle, Goto, requestVars, workerVars,
   runVars,
        engineVars, statusVars, historyVars
<1>1. TypeOK'
  <2>1. pc' \in [Requests -> Locations]
    BY DEF Report, Locations
  <2>2. writers' \subseteq Requests /\ removers' \subseteq Requests
    BY DEF Report, Finishing, Unsubscribe
  <2> QED
    BY <2>1, <2>2
<1>2. OneCall'
  BY DEF Report, Finishing, Unsubscribe, OneCall, Free, Resumed
<1>3. CycleInv'
  BY DEF Report, Finishing, Unsubscribe, CycleInv
<1>4. WritersInv'
  BY DEF Report, Finishing, Unsubscribe, WritersInv, CycleInv, OneCall, Resumed
<1>5. EarlyInv'
  BY DEF Report, Finishing, Unsubscribe, EarlyInv, Executing, CycleInv
<1>6. NoStrayWriter'
  BY DEF Report, Finishing, Unsubscribe, NoStrayWriter, WritersInv, CycleInv, Range
<1>7. ScansCredited'
  BY DEF Report, Finishing, Unsubscribe, ScansCredited, Executing, EarlyInv, OneCall,
     WritersInv, CycleInv
<1> QED
  BY <1>1, <1>2, <1>3, <1>4, <1>5, <1>6, <1>7

\* A task is deleted.
LEMMA ClearTaskKeeps ==
  ASSUME TypeOK, CallsInv, NEW t \in Tasks, ClearTask(t)
  PROVE  TypeOK' /\ CallsInv'
<1> USE OutputAssumption DEF TypeOK, CallsInv, ClearTask, Goto, requestVars, workerVars,
   runVars,
        engineVars, statusVars, historyVars
<1>1. TypeOK'
  BY DEF Locations, Stages
<1>2. OneCall'
  BY DEF OneCall, Free, Resumed
<1>3. CycleInv'
  BY DEF CycleInv
<1>4. WritersInv'
  BY DEF WritersInv, CycleInv, OneCall, Resumed
<1>5. EarlyInv'
  BY DEF EarlyInv, Executing, CycleInv
<1>6. NoStrayWriter'
  BY DEF NoStrayWriter, WritersInv, CycleInv, Range
<1>7. ScansCredited'
  BY DEF ScansCredited, Executing, EarlyInv, OneCall, WritersInv, CycleInv
<1> QED
  BY <1>1, <1>2, <1>3, <1>4, <1>5, <1>6, <1>7

\* The plan is paused.
LEMMA PauseKeeps ==
  ASSUME TypeOK, CallsInv, Pause
  PROVE  TypeOK' /\ CallsInv'
<1> USE OutputAssumption DEF TypeOK, CallsInv, Pause, Goto, requestVars, workerVars, runVars,
        engineVars, statusVars, historyVars
<1>1. TypeOK'
  BY DEF Locations, Stages
<1>2. OneCall'
  BY DEF OneCall, Free, Resumed
<1>3. CycleInv'
  BY DEF CycleInv
<1>4. WritersInv'
  BY DEF WritersInv, CycleInv, OneCall, Resumed
<1>5. EarlyInv'
  BY DEF EarlyInv, Executing, CycleInv
<1>6. NoStrayWriter'
  BY DEF NoStrayWriter, WritersInv, CycleInv, Range
<1>7. ScansCredited'
  BY DEF ScansCredited, Executing, EarlyInv, OneCall, WritersInv, CycleInv
<1> QED
  BY <1>1, <1>2, <1>3, <1>4, <1>5, <1>6, <1>7

\* It is resumed.
LEMMA ResumeKeeps ==
  ASSUME TypeOK, CallsInv, Resume
  PROVE  TypeOK' /\ CallsInv'
<1> USE OutputAssumption DEF TypeOK, CallsInv, Resume, Goto, requestVars, workerVars, runVars,
        engineVars, statusVars, historyVars
<1>1. TypeOK'
  BY DEF Locations, Stages
<1>2. OneCall'
  BY DEF OneCall, Free, Resumed
<1>3. CycleInv'
  BY DEF CycleInv
<1>4. WritersInv'
  BY DEF WritersInv, CycleInv, OneCall, Resumed
<1>5. EarlyInv'
  BY DEF EarlyInv, Executing, CycleInv
<1>6. NoStrayWriter'
  BY DEF NoStrayWriter, WritersInv, CycleInv, Range
<1>7. ScansCredited'
  BY DEF ScansCredited, Executing, EarlyInv, OneCall, WritersInv, CycleInv
<1> QED
  BY <1>1, <1>2, <1>3, <1>4, <1>5, <1>6, <1>7

-----------------------------------------------------------------------------
(* All steps.                                                              *)

\* Each part of the invariant only reads its own variables.
LEMMA CallsUnchanged ==
  ASSUME CallsInv, UNCHANGED <<requestVars, workerVars, engine, md, historyVars>>
  PROVE  CallsInv'
BY DEF CallsInv, OneCall, Resumed, CycleInv, WritersInv, EarlyInv, NoStrayWriter,
   ScansCredited,
       Executing, requestVars, workerVars, historyVars

LEMMA RunsUnchanged ==
  ASSUME RunsInv, UNCHANGED runVars
  PROVE  RunsInv'
BY DEF RunsInv, RunsDiffer, PathsFollowRuns, runVars

LEMMA StatusesUnchanged ==
  ASSUME StatusInv, UNCHANGED <<stage, updates, snapshot>>, finished' \subseteq finished
  PROVE  StatusInv'
BY DEF StatusInv, UpdatesInv, ProgressSettled

OutputInv == TypeOK /\ RunsInv /\ StatusInv /\ CallsInv

\* A step preserves the invariants together.
LEMMA OutputInductive == OutputInv /\ [Next]_vars => OutputInv'
<1> SUFFICES ASSUME OutputInv, [Next]_vars
             PROVE  OutputInv'
  OBVIOUS
<1> USE DEF OutputInv
<1>1. CASE UNCHANGED vars
  <2>1. TypeOK'
    BY <1>1 DEF TypeOK, vars, requestVars, workerVars, engineVars, runVars, statusVars,
       historyVars
  <2> QED
    BY <1>1, <2>1, CallsUnchanged, RunsUnchanged, StatusesUnchanged
    DEF vars, engineVars, statusVars
<1>2. ASSUME NEW x \in Runs, RunStep(x)
      PROVE  OutputInv'
  <2>1. RunsInv' /\ open' \in Seq(Runs) /\ docs' \in Seq(Runs)
    BY <1>2, OpenRunKeepsRuns, CloseRunKeepsRuns DEF RunStep
  <2>2. UNCHANGED <<requestVars, workerVars, engine, md, historyVars, statusVars>>
    BY <1>2 DEF RunStep, OpenRun, CloseRun
  <2>3. rejected' \in BOOLEAN /\ engine # "idle"
    BY <1>2 DEF RunStep, OpenRun, CloseRun, RunStop, TypeOK
  <2>4. TypeOK'
    BY <2>1, <2>2, <2>3 DEF TypeOK, requestVars, workerVars, statusVars, historyVars
  <2> QED
    BY <2>1, <2>2, <2>4, CallsUnchanged, StatusesUnchanged DEF statusVars
<1>3. ASSUME NEW s \in Statuses, StatusStep(s)
      PROVE  OutputInv'
  <2>1. UNCHANGED <<requestVars, workerVars, engineVars, historyVars>>
    BY <1>3 DEF StatusStep, MonitorStatus, UpdateChecked, UpdatePublished, Done, Drop, Finish
  <2> QED
    BY <1>3, <2>1, StatusStepKeepsStatuses, CallsUnchanged, RunsUnchanged DEF engineVars
<1>4. ASSUME \/ \E r \in Requests : RequestStep(r)
             \/ \E t \in Tasks : ClearTask(t)
             \/ Pause \/ Resume \/ WorkerStep
      PROVE  OutputInv'
  <2>1. TypeOK' /\ CallsInv'
    BY <1>4, CheckActiveKeeps, PrepareKeeps, BeginKeeps, BeginTimesOutKeeps, TakeTaskKeeps,
       StartPlanKeeps, PlanInvalidKeeps, EndCycleKeeps, PlanEndsKeeps, EngineIdleKeeps,
       ClearTaskKeeps, PauseKeeps, ResumeKeeps DEF RequestStep, WorkerStep
  <2>2. UNCHANGED <<runVars, stage, updates, snapshot>> /\ finished' \subseteq finished
    BY <1>4 DEF RequestStep, WorkerStep, CheckActive, Prepare, Begin, BeginTimesOut, TakeTask,
                StartPlan, PlanInvalid, EndCycle, PlanEnds, EngineIdle, ClearTask, Pause, Resume,
                engineVars, statusVars
  <2> QED
    BY <2>1, <2>2, RunsUnchanged, StatusesUnchanged
<1> QED
  BY <1>1, <1>2, <1>3, <1>4 DEF Next

\* The invariant of runs, statuses and calls.
THEOREM OutputInvariant == Spec => []OutputInv
<1>1. ASSUME Init
      PROVE  OutputInv
  <2> USE <1>1, OutputAssumption DEF Init
  <2>1. TypeOK
    <3>1. /\ channel \in Seq(Tasks) /\ Len(channel) <= 1
          /\ open \in Seq(Runs) /\ docs \in Seq(Runs)
      OBVIOUS
    <3>2. pc \in [Requests -> Locations] /\ stage \in [Statuses -> Stages]
      BY DEF Locations, Stages
    <3> QED
      BY <3>1, <3>2 DEF TypeOK
  <2>2. RunsInv /\ StatusInv
    BY DEF RunsInv, RunsDiffer, PathsFollowRuns, StatusInv, UpdatesInv, ProgressSettled
  <2>3. CallsInv
    BY DEF CallsInv, OneCall, CycleInv, WritersInv, EarlyInv, NoStrayWriter, ScansCredited,
           Executing
  <2> QED
    BY <2>1, <2>2, <2>3 DEF OutputInv
<1> QED
  BY <1>1, OutputInductive, PTL DEF Spec

\* begin_task, _cycle, the path provider and the status monitor keep data of the
\* kind the code expects; no task waits behind another in the channel.
THEOREM OutputTypes == Spec => []TypeOK
<1>1. OutputInv => TypeOK
  BY DEF OutputInv
<1> QED
  BY <1>1, OutputInvariant, PTL

\* run_start and run_stop, however deep runs are nested and whatever happens to
\* their plans: every open run has its document on the stack.
THEOREM PathsAreFollowed == Spec => []PathsFollowRuns
<1>1. OutputInv => PathsFollowRuns
  BY DEF OutputInv, RunsInv
<1> QED
  BY <1>1, OutputInvariant, PTL

\* begin_task, for any number of requests: no Tiled writer outlives its task.
THEOREM WritersEnd == Spec => []NoStrayWriter
<1>1. OutputInv => NoStrayWriter
  BY DEF OutputInv, CallsInv
<1> QED
  BY <1>1, OutputInvariant, PTL

\* begin_task, for any number of requests: a plan whose request was answered is
\* executed with its Tiled writer.
THEOREM WritersArePresent == Spec => []WriterPresent
<1>1. OutputInv => WriterPresent
  BY DEF OutputInv, CallsInv, WritersInv, WriterPresent, Executing
<1> QED
  BY <1>1, OutputInvariant, PTL

\* begin_task and do_task, for any number of requests: scans are credited to the
\* task that makes them or to a request that overtook it.
THEOREM ScansAreCredited == Spec => []ScansCredited
<1>1. OutputInv => ScansCredited
  BY DEF OutputInv, CallsInv
<1> QED
  BY <1>1, OutputInvariant, PTL

\* on_complete and the check of _on_status_event: completed statuses stay out of the
\* progress while they are remembered, though late updates of them arrive.
THEOREM ProgressIsSettled == Spec => []ProgressSettled
<1>1. OutputInv => ProgressSettled
  BY DEF OutputInv, StatusInv
<1> QED
  BY <1>1, OutputInvariant, PTL
==============================================================================
