--------------------------- MODULE Executor_proofs ---------------------------
(***************************************************************************)
(* Theorems about the executor, for any tasks, workers and queue length.   *)
(***************************************************************************)
EXTENDS Executor, FiniteSetTheorems, TLAPS

(* Who is counted in wg: callers between Add and the channel, delays not   *)
(* over, the queue, and the dispatcher until its Done.                     *)
Sending == {t \in Tasks : subPc[t] = "send"}
Delaying == {t \in Delayed : subPc[t] \in {"timer", "add", "send", "timerDone"}}
Dispatching == IF dispPc \in {"worker", "hand", "done"} THEN 1 ELSE 0

Counted ==
  wg = Cardinality(Sending) + Cardinality(Delaying) + Len(tasks) + Dispatching

(* Who is counted in taskWg: the dispatcher until the rendezvous, and the  *)
(* workers that invoke a task.                                             *)
Invoking == {w \in Workers : workerPc[w] = "invoke"}
Handing == IF dispPc \in {"worker", "hand"} THEN 1 ELSE 0

TaskCounted == taskWg = Cardinality(Invoking) + Handing

(* Program counters and what goes with them.                               *)
PcInv ==
  /\ state = "NEW" => dispPc = "off" /\ \A w \in Workers : workerPc[w] = "off"
  /\ \A t \in Tasks : subPc[t] \in {"delayAdd", "timer", "timerDone"} => t \in Delayed
  /\ dispTask # NoTask <=> dispPc \in {"worker", "hand"}
  /\ dispPc = "hand" => dispWorker \in Workers
  /\ stopPc = "stop" => stopWorker \in Workers
  /\ \A w \in Workers : workerTask[w] # NoTask <=> workerPc[w] = "invoke"

CountInv == TypeOK /\ Counted /\ TaskCounted /\ PcInv

-----------------------------------------------------------------------------
LEMMA Assumptions ==
  /\ IsFiniteSet(Tasks) /\ Delayed \subseteq Tasks /\ NoTask \notin Tasks
  /\ IsFiniteSet(Workers) /\ Workers # {} /\ NoWorker \notin Workers
  /\ QueueLength \in Nat \ {0}
BY ExecutorAssumption DEF ExecutorAssumption

LEMMA AddOne ==
  ASSUME NEW S, IsFiniteSet(S), NEW x, x \notin S, NEW T, T = S \cup {x}
  PROVE  Cardinality(T) = Cardinality(S) + 1 /\ Cardinality(S) \in Nat /\ Cardinality(T) \in Nat
BY FS_AddElement, FS_CardinalityType

LEMMA DropOne ==
  ASSUME NEW S, IsFiniteSet(S), NEW x \in S, NEW T, T = S \ {x}
  PROVE  Cardinality(T) = Cardinality(S) - 1 /\ Cardinality(S) \in Nat /\ Cardinality(T) \in Nat
BY FS_RemoveElement, FS_CardinalityType

LEMMA CallersFinite ==
  /\ IsFiniteSet(Sending) /\ IsFiniteSet(Delaying) /\ IsFiniteSet(Invoking)
  /\ Cardinality(Sending) \in Nat /\ Cardinality(Delaying) \in Nat
  /\ Cardinality(Invoking) \in Nat
<1>1. Sending \subseteq Tasks /\ Delaying \subseteq Tasks /\ Invoking \subseteq Workers
  BY Assumptions DEF Sending, Delaying, Invoking
<1>2. IsFiniteSet(Sending) /\ IsFiniteSet(Delaying) /\ IsFiniteSet(Invoking)
  BY <1>1, Assumptions, FS_Subset
<1> QED
  BY <1>2, FS_CardinalityType

LEMMA AppendFacts ==
  ASSUME NEW s \in Seq(Tasks), NEW t \in Tasks
  PROVE  /\ Append(s, t) \in Seq(Tasks) /\ Len(Append(s, t)) = Len(s) + 1
         /\ \A i \in 1..Len(s) : Append(s, t)[i] = s[i]
         /\ Append(s, t)[Len(s) + 1] = t
OBVIOUS

LEMMA TailFacts ==
  ASSUME NEW s \in Seq(Tasks), s # <<>>
  PROVE  /\ Tail(s) \in Seq(Tasks) /\ Len(Tail(s)) = Len(s) - 1 /\ Len(s) > 0
         /\ Head(s) \in Tasks /\ Head(s) = s[1]
         /\ \A i \in 1..Len(s) - 1 : Tail(s)[i] = s[i + 1]
OBVIOUS

-----------------------------------------------------------------------------
LEMMA InitCount ==
  ASSUME Init
  PROVE  CountInv
<1>1. TypeOK
  <2>1. tasks \in Seq(Tasks) /\ Len(tasks) <= QueueLength
    BY Assumptions DEF Init
  <2> QED
    BY <2>1 DEF Init, TypeOK
<1>2. Sending = {} /\ Delaying = {} /\ Invoking = {}
  BY Assumptions DEF Init, Sending, Delaying, Invoking
<1>3. Cardinality(Sending) = 0 /\ Cardinality(Delaying) = 0 /\ Cardinality(Invoking) = 0
  BY <1>2, FS_EmptySet
<1>4. Len(tasks) = 0 /\ Dispatching = 0 /\ Handing = 0
  BY DEF Init, Dispatching, Handing
<1>5. Counted /\ TaskCounted
  BY <1>3, <1>4 DEF Init, Counted, TaskCounted
<1>6. PcInv
  BY DEF Init, PcInv
<1> QED
  BY <1>1, <1>5, <1>6 DEF CountInv

(* Steps that leave both counts alone.                                     *)
LEMMA SameCounts ==
  ASSUME Counted, TaskCounted,
         UNCHANGED <<wg, taskWg, tasks>>, Sending' = Sending, Delaying' = Delaying,
         Invoking' = Invoking, Dispatching' = Dispatching, Handing' = Handing
  PROVE  Counted' /\ TaskCounted'
BY DEF Counted, TaskCounted

LEMMA SubmitCount ==
  ASSUME CountInv, NEW t \in Tasks, Submit(t)
  PROVE  CountInv'
<1> USE DEF CountInv
<1>0. /\ subPc \in [Tasks -> {"idle", "add", "send", "over", "delayAdd", "timer", "timerDone"}]
      /\ tasks \in Seq(Tasks) /\ Len(tasks) \in Nat /\ Len(tasks) <= QueueLength
      /\ wg \in Nat
  BY DEF TypeOK
<1>2. UNCHANGED <<state, dispVars, poolVars, stopWorker, wait, promised>>
  BY DEF Submit, SubmitTest, DelayAdd, DelayOver, SubmitAdd, SubmitSend, DelayDone, Done, stopVars
<1>10. stopPc' = stopPc \/ (stopPc = "waiting" /\ stopPc' = "woken")
  BY DEF Submit, SubmitTest, DelayAdd, DelayOver, SubmitAdd, SubmitSend, DelayDone, Done, stopVars
<1>3. Invoking' = Invoking /\ Dispatching' = Dispatching /\ Handing' = Handing
  BY <1>2 DEF Invoking, Dispatching, Handing, dispVars, poolVars
<1>4. Dispatching \in {0, 1}
  BY DEF Dispatching
<1>5. TaskCounted'
  BY <1>2, <1>3 DEF TaskCounted, poolVars
<1>6. PcInv'
  BY <1>0, <1>2, <1>10 DEF PcInv, Submit, SubmitTest, DelayAdd, DelayOver, SubmitAdd, SubmitSend,
     DelayDone, dispVars, poolVars
<1>7. /\ subPc' \in [Tasks -> {"idle", "add", "send", "over", "delayAdd", "timer", "timerDone"}]
      /\ accepted' \subseteq Tasks
      /\ tasks' \in Seq(Tasks) /\ Len(tasks') <= QueueLength
      /\ begun' = begun /\ done' = done
  <2>1. CASE SubmitSend(t)
    BY <1>0, <2>1, AppendFacts, Assumptions DEF SubmitSend, TypeOK
  <2>2. CASE ~SubmitSend(t)
    BY <1>0, <2>2 DEF Submit, SubmitTest, DelayAdd, DelayOver, SubmitAdd, DelayDone, obsVars, TypeOK
  <2> QED
    BY <2>1, <2>2
<1>8. Counted' /\ wg' \in Nat
  <2>1. CASE SubmitTest(t)
    <3>1. Sending' = Sending /\ Delaying' = Delaying
      BY <1>0, <2>1, Assumptions DEF SubmitTest, Sending, Delaying
    <3> QED
      BY <1>0, <1>3, <2>1, <3>1 DEF SubmitTest, Counted
  <2>2. CASE DelayAdd(t)
    <3>1. Sending' = Sending /\ Delaying' = Delaying \cup {t} /\ t \notin Delaying
      BY <1>0, <2>2, Assumptions DEF DelayAdd, Sending, Delaying, PcInv
    <3>2. Cardinality(Delaying') = Cardinality(Delaying) + 1
      BY <3>1, CallersFinite, AddOne
    <3> QED
      BY <1>0, <1>3, <1>4, <2>2, <3>1, <3>2, CallersFinite DEF DelayAdd, Counted
  <2>3. CASE DelayOver(t)
    <3>1. Sending' = Sending /\ Delaying' = Delaying
      BY <1>0, <2>3, Assumptions DEF DelayOver, Sending, Delaying
    <3> QED
      BY <1>0, <1>3, <2>3, <3>1 DEF DelayOver, Counted
  <2>4. CASE SubmitAdd(t)
    <3>1. Sending' = Sending \cup {t} /\ t \notin Sending /\ Delaying' = Delaying
      BY <1>0, <2>4, Assumptions DEF SubmitAdd, Sending, Delaying
    <3>2. Cardinality(Sending') = Cardinality(Sending) + 1
      BY <3>1, CallersFinite, AddOne
    <3> QED
      BY <1>0, <1>3, <1>4, <2>4, <3>1, <3>2, CallersFinite DEF SubmitAdd, Counted
  <2>5. CASE SubmitSend(t)
    <3>1. Sending' = Sending \ {t} /\ t \in Sending /\ Delaying' = Delaying
      BY <1>0, <2>5, Assumptions DEF SubmitSend, Sending, Delaying
    <3>2. Cardinality(Sending') = Cardinality(Sending) - 1
      BY <3>1, CallersFinite, DropOne
    <3>3. Len(tasks') = Len(tasks) + 1
      BY <1>0, <2>5, AppendFacts DEF SubmitSend
    <3>4. wg' = wg
      BY <2>5 DEF SubmitSend
    <3>5. wg = Cardinality(Sending) + Cardinality(Delaying) + Len(tasks) + Dispatching
      BY DEF Counted
    <3>6. Cardinality(Delaying') = Cardinality(Delaying) /\ Dispatching' = Dispatching
      BY ONLY <1>3, <3>1
    <3>7. /\ Cardinality(Sending) \in Nat /\ Cardinality(Delaying) \in Nat
          /\ Len(tasks) \in Nat /\ Dispatching \in Nat
      BY ONLY <1>0, <1>4, CallersFinite
    <3>8. wg = (Cardinality(Sending) - 1) + Cardinality(Delaying) + (Len(tasks) + 1) + Dispatching
      BY ONLY <3>5, <3>7
    <3>9. Counted'
      BY ONLY <3>2, <3>3, <3>4, <3>6, <3>8 DEF Counted
    <3> QED
      BY ONLY <1>0, <3>4, <3>9
  <2>6. CASE DelayDone(t)
    <3> USE DEF Done
    <3>1. Sending' = Sending /\ Delaying' = Delaying \ {t} /\ t \in Delaying
      BY <1>0, <2>6, Assumptions DEF DelayDone, Sending, Delaying, PcInv
    <3>2. Cardinality(Delaying') = Cardinality(Delaying) - 1 /\ Cardinality(Delaying') \in Nat
      BY <3>1, CallersFinite, DropOne
    <3>3. wg' = wg - 1 /\ tasks' = tasks
      BY <2>6 DEF DelayDone
    <3>4. Counted
      OBVIOUS
    <3>5. Len(tasks') = Len(tasks) /\ Dispatching' = Dispatching /\ Sending' = Sending
      BY ONLY <1>3, <3>1, <3>3
    <3>6. wg' = Cardinality(Sending) + (Cardinality(Delaying) - 1) + Len(tasks) + Dispatching
      BY ONLY <1>0, <1>4, <3>3, <3>4, CallersFinite DEF Counted
    <3>7. Counted'
      BY ONLY <3>2, <3>5, <3>6 DEF Counted
    <3>8. wg' \in Nat
      BY ONLY <1>0, <1>4, <3>2, <3>6, CallersFinite
    <3> QED
      BY ONLY <3>7, <3>8
  <2> QED
    BY <2>1, <2>2, <2>3, <2>4, <2>5, <2>6 DEF Submit
<1>9. TypeOK'
  BY <1>2, <1>7, <1>8, <1>10 DEF TypeOK, dispVars, poolVars
<1> QED
  BY <1>5, <1>6, <1>8, <1>9

LEMMA StartCount ==
  ASSUME CountInv, Start
  PROVE  CountInv'
<1> USE DEF CountInv
<1>1. TypeOK'
  BY DEF Start, TypeOK, dispVars, poolVars, stopVars, obsVars
<1>2. PcInv'
  BY DEF Start, TypeOK, PcInv, stopVars
<1>3. /\ Invoking' = {} /\ Dispatching' = 0 /\ Handing' = 0
      /\ Invoking = {} /\ Dispatching = 0 /\ Handing = 0
  BY DEF Start, Invoking, Dispatching, Handing, PcInv
<1>4. Sending' = Sending /\ Delaying' = Delaying
  BY DEF Start, Sending, Delaying
<1> QED
  BY <1>1, <1>2, <1>3, <1>4, SameCounts DEF Start

LEMMA DispatchCount ==
  ASSUME CountInv, Dispatch
  PROVE  CountInv'
<1> USE DEF CountInv
<1>0. /\ tasks \in Seq(Tasks) /\ Len(tasks) \in Nat /\ Len(tasks) <= QueueLength
      /\ wg \in Nat /\ taskWg \in Nat /\ QueueLength \in Nat
      /\ workerPc \in [Workers -> {"off", "ready", "select", "invoke", "stopping", "stopped"}]
      /\ workerTask \in [Workers -> Tasks \cup {NoTask}]
      /\ dispTask \in Tasks \cup {NoTask} /\ dispWorker \in Workers \cup {NoWorker}
  BY Assumptions DEF TypeOK
<1>1. UNCHANGED <<state, subPc, stopWorker, wait, promised>>
  BY DEF Dispatch, DispatchTake, DispatchWorker, Hand, DispatchDone, Done, stopVars
<1>8. stopPc' = stopPc \/ (stopPc = "waiting" /\ stopPc' = "woken")
  BY DEF Dispatch, DispatchTake, DispatchWorker, Hand, DispatchDone, Done, stopVars
<1>2. Sending' = Sending /\ Delaying' = Delaying
  BY <1>1 DEF Sending, Delaying
<1>3. Counted /\ TaskCounted
  OBVIOUS
<1>4. CASE DispatchTake
  <2>1. /\ dispPc = "select" /\ dispPc' = "worker" /\ taskWg' = taskWg + 1 /\ wg' = wg
        /\ tasks' = Tail(tasks) /\ dispTask' = Head(tasks)
        /\ UNCHANGED <<dispWorker, availableWorker, workerPc, workerTask, obsVars>>
    BY <1>4 DEF DispatchTake
  <2>2. tasks' \in Seq(Tasks) /\ Len(tasks') = Len(tasks) - 1 /\ Len(tasks) > 0 /\ dispTask' \in Tasks
    BY <1>0, <1>4, <2>1, TailFacts DEF DispatchTake
  <2>3. Dispatching = 0 /\ Dispatching' = 1 /\ Handing = 0 /\ Handing' = 1 /\ Invoking' = Invoking
    BY <2>1 DEF Dispatching, Handing, Invoking
  <2>4. Counted' /\ TaskCounted'
    BY ONLY <1>0, <1>2, <1>3, <2>1, <2>2, <2>3, CallersFinite DEF Counted, TaskCounted
  <2>5. TypeOK'
    BY <1>0, <1>1, <1>8, <2>1, <2>2 DEF TypeOK, obsVars
  <2>6. PcInv'
    BY <1>1, <1>8, <2>1, <2>2, Assumptions DEF PcInv
  <2> QED
    BY <2>4, <2>5, <2>6
<1>5. ASSUME NEW w \in Workers, DispatchWorker(w) PROVE CountInv'
  <2>1. Dispatching' = Dispatching /\ Handing' = Handing /\ Invoking' = Invoking
    BY <1>5 DEF DispatchWorker, Dispatching, Handing, Invoking
  <2>2. Counted' /\ TaskCounted'
    BY <1>2, <1>5, <2>1, SameCounts DEF DispatchWorker
  <2>3. TypeOK'
    BY <1>1, <1>5, <1>8 DEF DispatchWorker, TypeOK, obsVars
  <2>4. PcInv'
    BY <1>1, <1>5, <1>8 DEF DispatchWorker, PcInv
  <2> QED
    BY <2>2, <2>3, <2>4
<1>6. CASE Hand
  <2>1. /\ dispPc = "hand" /\ dispPc' = "done" /\ taskWg' = taskWg /\ wg' = wg /\ tasks' = tasks
        /\ dispWorker \in Workers /\ dispTask \in Tasks /\ workerPc[dispWorker] = "select"
        /\ workerPc' = [workerPc EXCEPT ![dispWorker] = "invoke"]
        /\ workerTask' = [workerTask EXCEPT ![dispWorker] = dispTask]
        /\ dispTask' = NoTask /\ dispWorker' = NoWorker
    BY <1>0, <1>6 DEF Hand, PcInv
  <2>2. Invoking' = Invoking \cup {dispWorker} /\ dispWorker \notin Invoking
    BY <1>0, <2>1 DEF Invoking
  <2>3. Cardinality(Invoking') = Cardinality(Invoking) + 1
    BY <2>2, CallersFinite, AddOne
  <2>4. Dispatching = 1 /\ Dispatching' = 1 /\ Handing = 1 /\ Handing' = 0
    BY <2>1 DEF Dispatching, Handing
  <2>5. Counted' /\ TaskCounted'
    BY ONLY <1>0, <1>2, <1>3, <2>1, <2>3, <2>4, CallersFinite DEF Counted, TaskCounted
  <2>6. TypeOK'
    BY <1>0, <1>1, <1>6, <1>8, <2>1 DEF Hand, TypeOK
  <2>7. PcInv'
    BY <1>0, <1>1, <1>8, <2>1, Assumptions DEF PcInv
  <2> QED
    BY <2>5, <2>6, <2>7
<1>7. CASE DispatchDone
  <2>1. /\ dispPc = "done" /\ dispPc' = "select" /\ wg' = wg - 1
        /\ UNCHANGED <<tasks, dispTask, dispWorker, poolVars, obsVars>>
    BY <1>7 DEF DispatchDone, Done
  <2>2. /\ Dispatching = 1 /\ Dispatching' = 0 /\ Handing = 0 /\ Handing' = 0
        /\ Invoking' = Invoking
    BY <2>1 DEF Dispatching, Handing, Invoking, poolVars
  <2>3. Counted' /\ TaskCounted' /\ wg' \in Nat
    BY ONLY <1>0, <1>2, <1>3, <2>1, <2>2, CallersFinite DEF Counted, TaskCounted, poolVars
  <2>4. TypeOK'
    BY <1>1, <1>8, <2>1, <2>3 DEF TypeOK, obsVars, poolVars
  <2>5. PcInv'
    BY <1>1, <1>8, <2>1 DEF PcInv, poolVars
  <2> QED
    BY <2>3, <2>4, <2>5
<1> QED
  BY <1>4, <1>5, <1>6, <1>7 DEF Dispatch

LEMMA WorkerCount ==
  ASSUME CountInv, NEW w \in Workers, Worker(w)
  PROVE  CountInv'
<1> USE DEF CountInv
<1>0. /\ taskWg \in Nat
      /\ workerPc \in [Workers -> {"off", "ready", "select", "invoke", "stopping", "stopped"}]
      /\ workerTask \in [Workers -> Tasks \cup {NoTask}]
  BY DEF TypeOK
<1>1. UNCHANGED <<state, wg, tasks, subPc, dispVars, stopVars>>
  BY DEF Worker, WorkerReady, WorkerInvoke, WorkerStopped
<1>2. Sending' = Sending /\ Delaying' = Delaying /\ Dispatching' = Dispatching /\ Handing' = Handing
  BY <1>1 DEF Sending, Delaying, Dispatching, Handing, dispVars
<1>3. TaskCounted /\ Counted' /\ Handing \in {0, 1}
  BY <1>1, <1>2 DEF Counted, Handing
<1>4. TaskCounted' /\ taskWg' \in Nat
  <2>1. CASE ~WorkerInvoke(w)
    <3>1. Invoking' = Invoking /\ taskWg' = taskWg
      BY <1>0, <2>1 DEF Worker, WorkerReady, WorkerStopped, Invoking
    <3> QED
      BY <1>0, <1>2, <1>3, <3>1 DEF TaskCounted
  <2>2. CASE WorkerInvoke(w)
    <3>1. Invoking' = Invoking \ {w} /\ w \in Invoking /\ taskWg' = taskWg - 1
      BY <1>0, <2>2 DEF WorkerInvoke, Invoking
    <3>2. Cardinality(Invoking') = Cardinality(Invoking) - 1 /\ Cardinality(Invoking') \in Nat
      BY <3>1, CallersFinite, DropOne
    <3> QED
      BY ONLY <1>0, <1>2, <1>3, <3>1, <3>2, CallersFinite DEF TaskCounted
  <2> QED
    BY <2>1, <2>2
<1>5. TypeOK'
  <2>1. workerPc[w] = "invoke" => workerTask[w] \in Tasks
    BY <1>0 DEF PcInv
  <2> QED
    BY <1>0, <1>1, <1>4, <2>1 DEF Worker, WorkerReady, WorkerInvoke, WorkerStopped, TypeOK, dispVars,
       stopVars, obsVars
<1>6. PcInv'
  BY <1>0, <1>1 DEF Worker, WorkerReady, WorkerInvoke, WorkerStopped, PcInv, dispVars, stopVars
<1> QED
  BY <1>3, <1>4, <1>5, <1>6

LEMMA StopCount ==
  ASSUME CountInv, Stopper \/ (\E b \in BOOLEAN : Stop(b))
  PROVE  CountInv'
<1> USE DEF CountInv
<1>0. workerPc \in [Workers -> {"off", "ready", "select", "invoke", "stopping", "stopped"}]
  BY DEF TypeOK
<1>1. UNCHANGED <<wg, taskWg, tasks, subPc, workerTask>>
  BY DEF Stopper, Stop, StopDrained, StopWaits, StopWoken, Terminate, StopTasks, StopCollect, StopWorker, StopReturn,
         poolVars
<1>2. /\ Sending' = Sending /\ Delaying' = Delaying
      /\ Dispatching' = Dispatching /\ Handing' = Handing
  BY <1>1 DEF Sending, Delaying, Dispatching, Handing, dispVars,
     Stopper, Stop, StopDrained, StopWaits, StopWoken, Terminate, StopTasks, StopCollect, StopWorker, StopReturn
<1>3. Invoking' = Invoking
  <2>1. CASE StopWorker
    BY <1>0, <2>1 DEF StopWorker, Invoking, PcInv
  <2>2. CASE workerPc' = workerPc
    BY <2>2 DEF Invoking
  <2> QED
    BY <2>1, <2>2 DEF Stopper, Stop, StopDrained, StopWaits, StopWoken, Terminate, StopTasks, StopCollect, StopReturn,
       poolVars
<1>4. Counted' /\ TaskCounted'
  BY <1>1, <1>2, <1>3, SameCounts
<1>5. TypeOK'
  BY <1>0 DEF TypeOK, Stopper, Stop, StopDrained, StopWaits, StopWoken, Terminate, StopTasks, StopCollect, StopWorker,
     StopReturn, dispVars, poolVars, obsVars
<1>6. PcInv'
  BY <1>0 DEF PcInv, TypeOK, Stopper, Stop, StopDrained, StopWaits, StopWoken, Terminate, StopTasks, StopCollect,
     StopWorker, StopReturn, dispVars, poolVars
<1> QED
  BY <1>4, <1>5, <1>6

LEMMA CountStep ==
  ASSUME CountInv, [Next]_vars
  PROVE  CountInv'
<1>1. CASE UNCHANGED vars
  BY <1>1 DEF vars, dispVars, poolVars, stopVars, obsVars, CountInv, TypeOK, PcInv, Counted,
     TaskCounted, Sending, Delaying, Invoking, Dispatching, Handing
<1> QED
  BY <1>1, StartCount, SubmitCount, DispatchCount, WorkerCount, StopCount DEF Next

LEMMA CountHolds == Spec => []CountInv
<1>1. Init => CountInv
  BY InitCount
<1>2. CountInv /\ [Next]_vars => CountInv'
  BY CountStep
<1> QED
  BY <1>1, <1>2, PTL DEF Spec

(* The counters and every variable keep their type: neither wait group is  *)
(* ever lowered below zero, which would panic (executor.go:128, 175,       *)
(* workerpool.go:121).                                                     *)
THEOREM TypeCorrect == Spec => []TypeOK
<1>1. CountInv => TypeOK
  BY DEF CountInv
<1> QED
  BY <1>1, CountHolds, PTL

-----------------------------------------------------------------------------
(* Where the tasks are.                                                    *)
Known ==
  /\ begun \subseteq accepted /\ done \subseteq begun
  /\ \A t \in Tasks :
       subPc[t] \in {"idle", "add", "send", "delayAdd", "timer"} => t \notin accepted
  /\ dispTask # NoTask => dispTask \in accepted
  /\ \A i \in 1..Len(tasks) : tasks[i] \in accepted
  /\ \A w \in Workers : workerTask[w] # NoTask => workerTask[w] \in begun

NotLost ==
  /\ \A t \in accepted :
       t \in begun \/ t = dispTask \/ \E i \in 1..Len(tasks) : tasks[i] = t
  /\ \A t \in begun : t \in done \/ \E w \in Workers : workerTask[w] = t

Stopping ==
  /\ promised \subseteq accepted
  /\ stopPc \notin {"no", "drain", "waiting"} => promised \subseteq begun
  /\ stopPc = "returned" => \A w \in Workers : workerPc[w] = "stopped"

TaskInv == Known /\ NotLost /\ Stopping

LEMMA InitTask ==
  ASSUME Init
  PROVE  TaskInv
BY DEF Init, TaskInv, Known, NotLost, Stopping

LEMMA ZeroBegun ==
  ASSUME CountInv, NotLost
  PROVE  ZeroMeansBegun
<1>1. SUFFICES ASSUME wg = 0 PROVE accepted \subseteq begun
  BY DEF ZeroMeansBegun
<1>2. Len(tasks) \in Nat /\ Dispatching \in {0, 1}
  BY DEF CountInv, TypeOK, Dispatching
<1>3. Len(tasks) = 0 /\ Dispatching = 0
  BY ONLY <1>1, <1>2, CountInv, CallersFinite DEF CountInv, Counted
<1>4. dispTask = NoTask
  BY <1>3 DEF Dispatching, CountInv, PcInv
<1>5. NoTask \notin accepted
  BY Assumptions DEF CountInv, TypeOK
<1> QED
  BY <1>3, <1>4, <1>5 DEF NotLost

(* The step that lowers wg to 0 finds every accepted task begun.           *)
LEMMA LastBegun ==
  ASSUME CountInv, NotLost, wg = 1, dispPc = "done" \/ Delaying # {}
  PROVE  accepted \subseteq begun
<1>1. /\ Len(tasks) \in Nat /\ Dispatching \in {0, 1}
      /\ Cardinality(Sending) \in Nat /\ Cardinality(Delaying) \in Nat
  BY CallersFinite DEF CountInv, TypeOK, Dispatching
<1>2. wg = Cardinality(Sending) + Cardinality(Delaying) + Len(tasks) + Dispatching
  BY DEF CountInv, Counted
<1>3. CASE dispPc = "done"
  <2>1. Dispatching = 1 /\ dispTask = NoTask
    BY <1>3 DEF Dispatching, CountInv, PcInv
  <2>2. Len(tasks) = 0
    BY <1>1, <1>2, <2>1
  <2> QED
    BY <2>1, <2>2, Assumptions DEF NotLost, CountInv, TypeOK
<1>4. CASE dispPc # "done" /\ Delaying # {}
  <2>1. Cardinality(Delaying) # 0
    BY <1>4, CallersFinite, FS_EmptySet
  <2>2. Len(tasks) = 0 /\ Dispatching = 0
    BY <1>1, <1>2, <2>1
  <2>3. dispTask = NoTask
    BY <2>2 DEF Dispatching, CountInv, PcInv
  <2> QED
    BY <2>2, <2>3, Assumptions DEF NotLost, CountInv, TypeOK
<1> QED
  BY <1>3, <1>4

LEMMA DoneStops ==
  ASSUME CountInv, TaskInv, Done, dispPc = "done" \/ Delaying # {},
         UNCHANGED <<accepted, begun, workerPc>>
  PROVE  Stopping'
<1>1. UNCHANGED promised
  BY DEF Done
<1>2. CASE stopPc' = stopPc
  BY <1>1, <1>2 DEF TaskInv, Stopping
<1>3. CASE wg = 1 /\ stopPc = "waiting" /\ stopPc' = "woken"
  <2>1. accepted \subseteq begun
    BY <1>3, LastBegun DEF TaskInv
  <2> QED
    BY <1>1, <1>3, <2>1 DEF TaskInv, Stopping
<1> QED
  BY <1>2, <1>3 DEF Done

LEMMA SubmitTask ==
  ASSUME CountInv, TaskInv, NEW t \in Tasks, Submit(t)
  PROVE  TaskInv'
<1> USE DEF TaskInv
<1>0. /\ subPc \in [Tasks -> {"idle", "add", "send", "over", "delayAdd", "timer", "timerDone"}]
      /\ tasks \in Seq(Tasks) /\ Len(tasks) \in Nat
  BY DEF CountInv, TypeOK
<1>1. UNCHANGED <<dispVars, poolVars, begun, done>>
  BY DEF Submit, SubmitTest, DelayAdd, DelayOver, SubmitAdd, SubmitSend, DelayDone, obsVars
<1>2. CASE SubmitSend(t)
  <2>1. /\ tasks' = Append(tasks, t) /\ accepted' = accepted \cup {t} /\ t \notin accepted
        /\ subPc[t] = "send" /\ subPc'[t] \in {"timerDone", "over"}
        /\ \A z \in Tasks \ {t} : subPc'[z] = subPc[z]
    BY <1>0, <1>2 DEF SubmitSend, Known
  <2>2. /\ Len(tasks') = Len(tasks) + 1 /\ tasks'[Len(tasks) + 1] = t
        /\ \A i \in 1..Len(tasks) : tasks'[i] = tasks[i]
    BY <1>0, <2>1, AppendFacts
  <2>3. Known'
    <3>1. \A i \in 1..Len(tasks') : tasks'[i] \in accepted'
      BY <1>0, <2>1, <2>2 DEF Known
    <3> QED
      BY <1>1, <2>1, <3>1 DEF Known, dispVars, poolVars
  <2>4. NotLost'
    <3>1. \A z \in accepted : (\E i \in 1..Len(tasks) : tasks[i] = z) =>
                               \E i \in 1..Len(tasks') : tasks'[i] = z
      BY <1>0, <2>2
    <3>2. \E i \in 1..Len(tasks') : tasks'[i] = t
      BY <1>0, <2>2
    <3> QED
      BY <1>1, <2>1, <3>1, <3>2 DEF NotLost, dispVars, poolVars
  <2>5. UNCHANGED stopVars
    BY <1>2 DEF SubmitSend
  <2> QED
    BY <1>1, <2>1, <2>3, <2>4, <2>5 DEF Stopping, stopVars, poolVars
<1>3. CASE ~SubmitSend(t)
  <2>1. UNCHANGED <<tasks, accepted>>
    BY <1>3 DEF Submit, SubmitTest, DelayAdd, DelayOver, SubmitAdd, DelayDone, obsVars
  <2>2. \A z \in Tasks : subPc'[z] \in {"idle", "add", "send", "delayAdd", "timer"} =>
                           subPc[z] \in {"idle", "add", "send", "delayAdd", "timer"}
    BY <1>0, <1>3 DEF Submit, SubmitTest, DelayAdd, DelayOver, SubmitAdd, DelayDone
  <2>3. Known' /\ NotLost'
    BY <1>1, <2>1, <2>2 DEF Known, NotLost, dispVars, poolVars
  <2>4. CASE DelayDone(t)
    <3>1. Delaying # {}
      BY <2>4 DEF DelayDone, Delaying, CountInv, PcInv
    <3>2. Stopping'
      BY <1>1, <2>1, <2>4, <3>1, DoneStops DEF DelayDone, poolVars
    <3> QED
      BY <2>3, <3>2
  <2>5. CASE ~DelayDone(t)
    <3>1. UNCHANGED stopVars
      BY <1>3, <2>5 DEF Submit, SubmitTest, DelayAdd, DelayOver, SubmitAdd
    <3> QED
      BY <1>1, <2>1, <2>3, <3>1 DEF Stopping, stopVars, poolVars
  <2> QED
    BY <2>4, <2>5
<1> QED
  BY <1>2, <1>3

LEMMA DispatchTask ==
  ASSUME CountInv, TaskInv, Dispatch
  PROVE  TaskInv'
<1> USE DEF TaskInv
<1>0. /\ tasks \in Seq(Tasks) /\ Len(tasks) \in Nat /\ accepted \subseteq Tasks /\ begun \subseteq Tasks
      /\ workerPc \in [Workers -> {"off", "ready", "select", "invoke", "stopping", "stopped"}]
      /\ workerTask \in [Workers -> Tasks \cup {NoTask}]
      /\ dispTask \in Tasks \cup {NoTask} /\ NoTask \notin Tasks /\ PcInv
  BY Assumptions DEF CountInv, TypeOK
<1>1. /\ UNCHANGED <<subPc, accepted, done>>
      /\ ~DispatchDone => UNCHANGED stopVars
  BY DEF Dispatch, DispatchTake, DispatchWorker, Hand, DispatchDone, obsVars
<1>2. CASE DispatchTake
  <2>1. /\ dispTask = NoTask /\ tasks' = Tail(tasks) /\ dispTask' = tasks[1]
        /\ Len(tasks') = Len(tasks) - 1 /\ Len(tasks) > 0
        /\ \A i \in 1..Len(tasks) - 1 : tasks'[i] = tasks[i + 1]
        /\ UNCHANGED <<workerPc, workerTask, begun, stopVars>>
    BY <1>0, <1>2, TailFacts DEF DispatchTake, PcInv, obsVars
  <2>2. \A i \in 1..Len(tasks') : tasks'[i] \in accepted
    BY <1>0, <2>1 DEF Known
  <2>3. dispTask' \in accepted
    BY <1>0, <2>1 DEF Known
  <2>4. ASSUME NEW i \in 1..Len(tasks)
        PROVE  tasks[i] = dispTask' \/ \E j \in 1..Len(tasks') : tasks'[j] = tasks[i]
    <3>1. CASE i = 1
      BY <2>1, <3>1
    <3>2. CASE i # 1
      <4>1. i - 1 \in 1..Len(tasks') /\ tasks'[i - 1] = tasks[i]
        BY <1>0, <2>1, <3>2
      <4> QED
        BY <4>1
    <3> QED
      BY <3>1, <3>2
  <2>5. Known'
    BY <1>1, <2>1, <2>2, <2>3 DEF Known
  <2>6. \A z \in accepted : (\E i \in 1..Len(tasks) : tasks[i] = z) =>
                             z = dispTask' \/ \E j \in 1..Len(tasks') : tasks'[j] = z
    BY <2>4
  <2>7. \A z \in accepted : z # dispTask
    BY <1>0, <2>1
  <2>8. NotLost'
    BY <1>1, <2>1, <2>6, <2>7 DEF NotLost
  <2> QED
    BY <1>1, <2>1, <2>5, <2>8 DEF Stopping, stopVars
<1>3. CASE Hand
  <2>1. /\ dispWorker \in Workers /\ dispTask \in Tasks /\ workerPc[dispWorker] = "select"
        /\ workerTask[dispWorker] = NoTask
        /\ workerPc' = [workerPc EXCEPT ![dispWorker] = "invoke"]
        /\ workerTask' = [workerTask EXCEPT ![dispWorker] = dispTask]
        /\ begun' = begun \cup {dispTask} /\ dispTask' = NoTask /\ tasks' = tasks
        /\ UNCHANGED stopVars
    BY <1>0, <1>3 DEF Hand, PcInv
  <2>2. Known'
    BY <1>0, <1>1, <2>1 DEF Known
  <2>3. \A z \in begun' : z \in done \/ \E w \in Workers : workerTask'[w] = z
    BY <1>0, <2>1 DEF NotLost
  <2>4. NotLost'
    BY <1>0, <1>1, <2>1, <2>3 DEF NotLost
  <2> QED
    BY <1>0, <1>1, <2>1, <2>2, <2>4 DEF Stopping, stopVars
<1>4. CASE \E w \in Workers : DispatchWorker(w)
  BY <1>1, <1>4 DEF DispatchWorker, Known, NotLost, Stopping, stopVars, obsVars
<1>5. CASE DispatchDone
  <2>1. Known' /\ NotLost'
    BY <1>1, <1>5 DEF DispatchDone, Known, NotLost, obsVars, poolVars
  <2>2. Stopping'
    BY <1>1, <1>5, DoneStops DEF DispatchDone, obsVars, poolVars
  <2> QED
    BY <2>1, <2>2
<1> QED
  BY <1>2, <1>3, <1>4, <1>5 DEF Dispatch

LEMMA WorkerTaskStep ==
  ASSUME CountInv, TaskInv, NEW w \in Workers, Worker(w)
  PROVE  TaskInv'
<1> USE DEF TaskInv
<1>0. /\ workerPc \in [Workers -> {"off", "ready", "select", "invoke", "stopping", "stopped"}]
      /\ workerTask \in [Workers -> Tasks \cup {NoTask}] /\ begun \subseteq Tasks
      /\ NoTask \notin Tasks /\ PcInv
  BY Assumptions DEF CountInv, TypeOK
<1>1. UNCHANGED <<subPc, tasks, dispVars, stopVars, accepted, begun>>
  BY DEF Worker, WorkerReady, WorkerInvoke, WorkerStopped, obsVars
<1>2. Stopping'
  BY <1>0, <1>1 DEF Worker, WorkerReady, WorkerInvoke, WorkerStopped, Stopping, stopVars
<1>3. CASE WorkerInvoke(w)
  <2>1. /\ workerTask[w] \in begun /\ done' = done \cup {workerTask[w]}
        /\ workerTask' = [workerTask EXCEPT ![w] = NoTask]
    BY <1>0, <1>3 DEF WorkerInvoke, PcInv, Known
  <2> QED
    BY <1>0, <1>1, <1>2, <2>1 DEF Known, NotLost, dispVars
<1>4. CASE ~WorkerInvoke(w)
  <2>1. UNCHANGED <<workerTask, done>>
    BY <1>4 DEF Worker, WorkerReady, WorkerStopped, obsVars
  <2> QED
    BY <1>1, <1>2, <2>1 DEF Known, NotLost, dispVars
<1> QED
  BY <1>3, <1>4

LEMMA StopTask ==
  ASSUME CountInv, TaskInv, Stopper \/ (\E b \in BOOLEAN : Stop(b))
  PROVE  TaskInv'
<1> USE DEF TaskInv
<1>1. UNCHANGED <<subPc, tasks, dispTask, workerTask, accepted, begun, done>>
  BY DEF Stopper, Stop, StopDrained, StopWaits, StopWoken, Terminate, StopTasks, StopCollect, StopWorker, StopReturn,
         dispVars, poolVars, obsVars
<1>2. Known' /\ NotLost'
  BY <1>1 DEF Known, NotLost
<1>3. ZeroMeansBegun
  BY ZeroBegun
<1>4. Stopping'
  BY <1>1, <1>3 DEF ZeroMeansBegun, Stopping, Stopper, Stop, StopDrained, StopWaits, StopWoken, Terminate, StopTasks,
     StopCollect, StopWorker, StopReturn, poolVars
<1> QED
  BY <1>2, <1>4

LEMMA TaskStep ==
  ASSUME CountInv, TaskInv, [Next]_vars
  PROVE  TaskInv'
<1>1. CASE UNCHANGED vars
  BY <1>1 DEF vars, dispVars, poolVars, stopVars, obsVars, TaskInv, Known, NotLost, Stopping
<1>2. CASE Start
  <2>1. stopPc = "returned" => FALSE
    BY <1>2, Assumptions DEF Start, TaskInv, Stopping, CountInv, PcInv
  <2> QED
    BY <1>2, <2>1 DEF Start, TaskInv, Known, NotLost, Stopping, stopVars, obsVars
<1> QED
  BY <1>1, <1>2, SubmitTask, DispatchTask, WorkerTaskStep, StopTask DEF Next

LEMMA TaskHolds == Spec => [](CountInv /\ TaskInv)
<1>1. Init => CountInv /\ TaskInv
  BY InitCount, InitTask
<1>2. CountInv /\ TaskInv /\ [Next]_vars => CountInv' /\ TaskInv'
  BY CountStep, TaskStep
<1> QED
  BY <1>1, <1>2, PTL DEF Spec

-----------------------------------------------------------------------------
(* When Wait returns, whatever was put on the channel has been handed to a *)
(* worker (executor.go:135, 175).                                          *)
THEOREM WaitMeansBegun == Spec => []ZeroMeansBegun
<1>1. CountInv /\ TaskInv => ZeroMeansBegun
  BY ZeroBegun DEF TaskInv
<1> QED
  BY <1>1, TaskHolds, PTL

(* When Stop returns, all that was accepted before it has completed        *)
(* (executor.go:142-167).                                                  *)
THEOREM StopMeansDone == Spec => []StopCompletes
<1>1. CountInv /\ TaskInv => StopCompletes
  <2>1. SUFFICES ASSUME CountInv, TaskInv, stopPc = "returned", NEW t \in promised
                 PROVE  t \in done
    BY DEF StopCompletes
  <2>2. t \in begun /\ t \in Tasks
    BY <2>1 DEF TaskInv, Stopping, CountInv, TypeOK
  <2>3. \A w \in Workers : workerTask[w] = NoTask
    BY <2>1 DEF TaskInv, Stopping, CountInv, PcInv
  <2> QED
    BY <2>1, <2>2, <2>3, Assumptions DEF TaskInv, NotLost
<1> QED
  BY <1>1, TaskHolds, PTL

-----------------------------------------------------------------------------
(* The refinement of TaskQueue.                                            *)
LEMMA EmptyConcat ==
  ASSUME NEW s \in Seq(Tasks)
  PROVE  <<>> \o s = s
OBVIOUS

LEMMA OneConcat ==
  ASSUME NEW s \in Seq(Tasks), NEW d \in Tasks
  PROVE  /\ <<d>> \o s \in Seq(Tasks) /\ <<d>> \o s # <<>>
         /\ Head(<<d>> \o s) = d /\ Tail(<<d>> \o s) = s
         /\ DOMAIN (<<d>> \o s) = 1..(Len(s) + 1)
         /\ \A i \in 1..(Len(s) + 1) : (<<d>> \o s)[i] = IF i = 1 THEN d ELSE s[i - 1]
<1>1. <<d>> \in Seq(Tasks) /\ Len(<<d>>) = 1 /\ <<d>>[1] = d
  OBVIOUS
<1>2. /\ <<d>> \o s \in Seq(Tasks) /\ Len(<<d>> \o s) = Len(s) + 1
      /\ \A i \in 1..(Len(s) + 1) : (<<d>> \o s)[i] = IF i = 1 THEN d ELSE s[i - 1]
  BY <1>1
<1>3. Tail(<<d>> \o s) = s
  BY <1>2
<1> QED
  BY <1>2, <1>3

LEMMA HeadTail ==
  ASSUME NEW s \in Seq(Tasks), s # <<>>
  PROVE  <<Head(s)>> \o Tail(s) = s
OBVIOUS

LEMMA AppendLast ==
  ASSUME NEW s \in Seq(Tasks), NEW d \in Tasks, NEW t \in Tasks
  PROVE  <<d>> \o Append(s, t) = Append(<<d>> \o s, t)
OBVIOUS

LEMMA WaitingKnown ==
  ASSUME CountInv, Known
  PROVE  /\ Waiting = IF dispTask = NoTask THEN tasks ELSE <<dispTask>> \o tasks
         /\ \A i \in DOMAIN Waiting : Waiting[i] \in accepted
<1>0. tasks \in Seq(Tasks) /\ dispTask \in Tasks \cup {NoTask}
  BY DEF CountInv, TypeOK
<1>1. Waiting = IF dispTask = NoTask THEN tasks ELSE <<dispTask>> \o tasks
  BY <1>0, EmptyConcat DEF Waiting
<1>2. CASE dispTask = NoTask
  BY <1>0, <1>1, <1>2 DEF Known
<1>3. CASE dispTask # NoTask
  <2>1. /\ dispTask \in Tasks /\ dispTask \in accepted
        /\ Waiting = <<dispTask>> \o tasks
    BY <1>0, <1>1, <1>3 DEF Known
  <2>2. ASSUME NEW i \in DOMAIN Waiting PROVE Waiting[i] \in accepted
    <3>1. i \in 1..(Len(tasks) + 1) /\ Waiting[i] = IF i = 1 THEN dispTask ELSE tasks[i - 1]
      BY <1>0, <2>1, <2>2, OneConcat
    <3>2. i # 1 => i - 1 \in 1..Len(tasks)
      BY <1>0, <3>1
    <3> QED
      BY <2>1, <3>1, <3>2 DEF Known
  <2> QED
    BY <1>1, <2>2
<1> QED
  BY <1>2, <1>3

LEMMA QueueStep ==
  ASSUME CountInv, TaskInv, [Next]_vars
  PROVE  Queue!Next \/ UNCHANGED <<Waiting, workerTask, done>>
<1>0. /\ tasks \in Seq(Tasks) /\ dispTask \in Tasks \cup {NoTask} /\ NoTask \notin Tasks
      /\ workerTask \in [Workers -> Tasks \cup {NoTask}] /\ begun \subseteq Tasks /\ PcInv
      /\ Known
  BY Assumptions DEF CountInv, TypeOK, TaskInv
<1>1. Waiting = IF dispTask = NoTask THEN tasks ELSE <<dispTask>> \o tasks
  BY <1>0, WaitingKnown
<1>2. ASSUME NEW t \in Tasks, SubmitSend(t) PROVE Queue!Accept(t)
  <2>1. /\ tasks' = Append(tasks, t) /\ dispTask' = dispTask /\ t \notin accepted
        /\ UNCHANGED <<workerTask, done>>
    BY <1>0, <1>2 DEF SubmitSend, Known, dispVars, poolVars
  <2>2. Waiting' = Append(Waiting, t)
    <3>1. tasks' \in Seq(Tasks)
      BY <1>0, <2>1
    <3>2. Waiting' = IF dispTask = NoTask THEN tasks' ELSE <<dispTask>> \o tasks'
      BY <1>0, <2>1, <3>1, EmptyConcat DEF Waiting
    <3> QED
      BY <1>0, <1>1, <2>1, <3>2, AppendLast
  <2>3. /\ \A i \in DOMAIN Waiting : Waiting[i] # t
        /\ \A w \in Workers : workerTask[w] # t
        /\ t \notin done
    BY <1>0, <2>1, WaitingKnown DEF Known
  <2> QED
    BY <2>1, <2>2, <2>3 DEF Queue!Accept
<1>3. CASE DispatchTake
  <2>1. /\ dispTask = NoTask /\ tasks # <<>> /\ dispTask' = Head(tasks) /\ tasks' = Tail(tasks)
        /\ UNCHANGED <<workerTask, done>>
    BY <1>0, <1>3 DEF DispatchTake, PcInv, obsVars
  <2>2. dispTask' \in Tasks
    BY <1>0, <2>1, TailFacts
  <2>3. Waiting' = tasks
    BY <1>0, <2>1, <2>2, HeadTail DEF Waiting
  <2> QED
    BY <1>1, <2>1, <2>3
<1>4. CASE Hand
  <2>1. /\ dispWorker \in Workers /\ dispTask \in Tasks /\ workerTask[dispWorker] = NoTask
        /\ workerTask' = [workerTask EXCEPT ![dispWorker] = dispTask]
        /\ dispTask' = NoTask /\ tasks' = tasks /\ done' = done
    BY <1>0, <1>4 DEF Hand, PcInv
  <2>2. Waiting = <<dispTask>> \o tasks /\ Waiting' = tasks
    BY <1>0, <1>1, <2>1, EmptyConcat DEF Waiting
  <2>3. Waiting # <<>> /\ Head(Waiting) = dispTask /\ Tail(Waiting) = tasks
    BY <1>0, <2>1, <2>2, OneConcat
  <2>4. Queue!Begin(dispWorker)
    BY <2>1, <2>2, <2>3 DEF Queue!Begin
  <2> QED
    BY <2>1, <2>4 DEF Queue!Next
<1>5. ASSUME NEW w \in Workers, WorkerInvoke(w) PROVE Queue!Finish(w)
  <2>1. workerTask[w] # NoTask /\ UNCHANGED <<dispTask, tasks>>
    BY <1>0, <1>5 DEF WorkerInvoke, PcInv, dispVars
  <2>2. Waiting' = Waiting
    BY <2>1 DEF Waiting
  <2> QED
    BY <1>5, <2>1, <2>2 DEF WorkerInvoke, Queue!Finish
<1>6. CASE UNCHANGED <<dispTask, tasks, workerTask, done>>
  BY <1>6 DEF Waiting
<1>7. \/ \E t \in Tasks : SubmitSend(t)
      \/ DispatchTake \/ Hand
      \/ \E w \in Workers : WorkerInvoke(w)
      \/ UNCHANGED <<dispTask, tasks, workerTask, done>>
  BY DEF Next, vars, dispVars, poolVars, obsVars, Start, Submit, SubmitTest, DelayAdd, DelayOver,
     SubmitAdd, DelayDone, Dispatch, DispatchWorker, DispatchDone, Worker, WorkerReady,
     WorkerStopped, Stop, Stopper, StopDrained, StopWaits, StopWoken, Terminate, StopTasks, StopCollect, StopWorker,
     StopReturn
<1> QED
  BY <1>2, <1>3, <1>4, <1>5, <1>6, <1>7 DEF Queue!Next

(* The executor begins its tasks in the order of their acceptance, each    *)
(* once, and no worker has two (executor.go:33-36).                        *)
THEOREM Refinement == Spec => ImplementsTaskQueue
<1>1. Init => Queue!Init
  BY EmptyConcat DEF Init, Queue!Init, Waiting
<1>2. CountInv /\ TaskInv /\ [Next]_vars => [Queue!Next]_<<Waiting, workerTask, done>>
  BY QueueStep
<1> QED
  BY <1>1, <1>2, TaskHolds, PTL DEF Spec, ImplementsTaskQueue, Queue!Spec, Queue!tqVars

=============================================================================
