------------------------------ MODULE Executor ------------------------------
(***************************************************************************)
(* fabric-cli's executor (executor/executor.go) and the worker pool under  *)
(* it (executor/worker).  Callers put tasks on a buffered channel; one     *)
(* dispatcher takes a task, then a worker that has announced itself, and   *)
(* hands the task over on the worker's unbuffered channel.                 *)
(*                                                                         *)
(* Each task has a caller of its own, which calls Submit or SubmitDelayed  *)
(* once: subPc[t].  One caller calls Stop.  wg and taskWg are the          *)
(* counters of the wait groups of the executor and of the pool; the        *)
(* pool's own is the number of workers not stopped.                        *)
(*                                                                         *)
(* A wait group wakes its waiter when the counter falls to 0, and panics   *)
(* when the counter has been raised again before the waiter has returned   *)
(* (sync.WaitGroup): that is stopPc = "panicked", the end of the process.  *)
(*                                                                         *)
(* accepted, begun, done and promised are observations: promised are the   *)
(* tasks that were accepted when Stop was called.                          *)
(***************************************************************************)
EXTENDS Naturals, Sequences, FiniteSets

CONSTANTS
  Tasks,
  Delayed,        \* the tasks given to SubmitDelayed
  Workers,        \* the concurrency
  QueueLength,    \* capacity of the channel of tasks
  NoTask, NoWorker

ASSUME ExecutorAssumption ==
  /\ IsFiniteSet(Tasks) /\ Delayed \subseteq Tasks /\ NoTask \notin Tasks
  /\ IsFiniteSet(Workers) /\ Workers # {} /\ NoWorker \notin Workers
  /\ QueueLength \in Nat \ {0}

VARIABLES
  state, wg, tasks,
  subPc,
  dispPc, dispTask, dispWorker,
  availableWorker, taskWg,
  workerPc, workerTask,
  stopPc, wait, stopWorker,
  accepted, begun, done, promised

dispVars == <<dispPc, dispTask, dispWorker>>
poolVars == <<availableWorker, taskWg, workerPc, workerTask>>
stopVars == <<stopPc, wait, stopWorker, promised>>
obsVars == <<accepted, begun, done>>
vars == <<state, wg, tasks, subPc, dispVars, poolVars, stopVars, obsVars>>

TypeOK ==
  /\ state \in {"NEW", "STARTED", "TERMINATED"}
  /\ wg \in Nat /\ taskWg \in Nat
  /\ tasks \in Seq(Tasks) /\ Len(tasks) <= QueueLength
  /\ subPc \in [Tasks -> {"idle", "add", "send", "over",
                          "delayAdd", "timer", "timerDone"}]
  /\ dispPc \in {"off", "select", "worker", "hand", "done", "ended"}
  /\ dispTask \in Tasks \cup {NoTask} /\ dispWorker \in Workers \cup {NoWorker}
  /\ availableWorker \subseteq Workers
  /\ workerPc \in [Workers -> {"off", "ready", "select", "invoke", "stopping", "stopped"}]
  /\ workerTask \in [Workers -> Tasks \cup {NoTask}]
  /\ stopPc \in {"no", "drain", "waiting", "woken", "panicked",
                "terminate", "tasks", "collect", "stop", "pool", "returned"}
  /\ wait \in BOOLEAN /\ stopWorker \in Workers \cup {NoWorker}
  /\ accepted \subseteq Tasks /\ begun \subseteq Tasks /\ done \subseteq Tasks
  /\ promised \subseteq Tasks

Init ==
  /\ state = "NEW" /\ wg = 0 /\ tasks = <<>>
  /\ subPc = [t \in Tasks |-> "idle"]
  /\ dispPc = "off" /\ dispTask = NoTask /\ dispWorker = NoWorker
  /\ availableWorker = {} /\ taskWg = 0
  /\ workerPc = [w \in Workers |-> "off"]
  /\ workerTask = [w \in Workers |-> NoTask]
  /\ stopPc = "no" /\ wait = FALSE /\ stopWorker = NoWorker
  /\ accepted = {} /\ begun = {} /\ done = {} /\ promised = {}

(* The process has not panicked.                                           *)
Running == stopPc # "panicked"

(* wg.Done: the counter is lowered, and Stop woken at 0 if it waits.       *)
Done ==
  /\ wg' = wg - 1
  /\ stopPc' = IF wg = 1 /\ stopPc = "waiting" THEN "woken" ELSE stopPc
  /\ UNCHANGED <<wait, stopWorker, promised>>

Start ==
  /\ state = "NEW"
  /\ state' = "STARTED"
  /\ workerPc' = [w \in Workers |-> "ready"]
  /\ dispPc' = "select"
  /\ UNCHANGED <<wg, tasks, subPc, dispTask, dispWorker, availableWorker, taskWg,
                 workerTask, stopVars, obsVars>>

-----------------------------------------------------------------------------
(* Submit and SubmitDelayed.  The state is tested, without a lock, before  *)
(* the counter is raised; the second test, after the delay, drops the task *)
(* without a word if Stop has been called.                                 *)
SubmitTest(t) ==
  /\ subPc[t] = "idle"
  /\ subPc' = [subPc EXCEPT ![t] = IF state # "STARTED" THEN "over"
                                   ELSE IF t \in Delayed THEN "delayAdd" ELSE "add"]
  /\ UNCHANGED <<state, wg, tasks, dispVars, poolVars, stopVars, obsVars>>

DelayAdd(t) ==
  /\ subPc[t] = "delayAdd"
  /\ wg' = wg + 1
  /\ subPc' = [subPc EXCEPT ![t] = "timer"]
  /\ UNCHANGED <<state, tasks, dispVars, poolVars, stopVars, obsVars>>

(* Mutant: the delayed task rests on the count of its delay.               *)
DelayOverNoAdd(t) ==
  /\ subPc[t] = "timer"
  /\ subPc' = [subPc EXCEPT ![t] = IF state = "STARTED" THEN "send" ELSE "timerDone"]
  /\ UNCHANGED <<state, wg, tasks, dispVars, poolVars, stopVars, obsVars>>

DelayOver(t) ==
  /\ subPc[t] = "timer"
  /\ subPc' = [subPc EXCEPT ![t] = IF state = "STARTED" THEN "add" ELSE "timerDone"]
  /\ UNCHANGED <<state, wg, tasks, dispVars, poolVars, stopVars, obsVars>>

SubmitAdd(t) ==
  /\ subPc[t] = "add"
  /\ wg' = wg + 1
  /\ subPc' = [subPc EXCEPT ![t] = "send"]
  /\ UNCHANGED <<state, tasks, dispVars, poolVars, stopVars, obsVars>>

(* Mutant: the count of the delay is never lowered.                        *)
SubmitSendNoDone(t) ==
  /\ subPc[t] = "send" /\ Len(tasks) < QueueLength
  /\ tasks' = Append(tasks, t)
  /\ accepted' = accepted \cup {t}
  /\ subPc' = [subPc EXCEPT ![t] = "over"]
  /\ UNCHANGED <<state, wg, dispVars, poolVars, stopVars, begun, done>>

SubmitSend(t) ==
  /\ subPc[t] = "send" /\ Len(tasks) < QueueLength
  /\ tasks' = Append(tasks, t)
  /\ accepted' = accepted \cup {t}
  /\ subPc' = [subPc EXCEPT ![t] = IF t \in Delayed THEN "timerDone" ELSE "over"]
  /\ UNCHANGED <<state, wg, dispVars, poolVars, stopVars, begun, done>>

DelayDone(t) ==
  /\ subPc[t] = "timerDone"
  /\ Done
  /\ subPc' = [subPc EXCEPT ![t] = "over"]
  /\ UNCHANGED <<state, tasks, dispVars, poolVars, obsVars>>

-----------------------------------------------------------------------------
(* Mutant: the youngest task is taken.                                     *)
DispatchTakeLast ==
  /\ dispPc = "select" /\ tasks # <<>>
  /\ dispTask' = tasks[Len(tasks)] /\ tasks' = SubSeq(tasks, 1, Len(tasks) - 1)
  /\ taskWg' = taskWg + 1
  /\ dispPc' = "worker"
  /\ UNCHANGED <<state, wg, subPc, dispWorker, availableWorker, workerPc, workerTask,
                 stopVars, obsVars>>

(* dispatch and Pool.Submit.                                               *)
DispatchTake ==
  /\ dispPc = "select" /\ tasks # <<>>
  /\ dispTask' = Head(tasks) /\ tasks' = Tail(tasks)
  /\ taskWg' = taskWg + 1
  /\ dispPc' = "worker"
  /\ UNCHANGED <<state, wg, subPc, dispWorker, availableWorker, workerPc, workerTask,
                 stopVars, obsVars>>

DispatchWorker(w) ==
  /\ dispPc = "worker" /\ w \in availableWorker
  /\ availableWorker' = availableWorker \ {w}
  /\ dispWorker' = w
  /\ dispPc' = "hand"
  /\ UNCHANGED <<state, wg, tasks, subPc, dispTask, taskWg, workerPc, workerTask,
                 stopVars, obsVars>>

(* The rendezvous on the worker's channel.                                 *)
Hand ==
  /\ dispPc = "hand" /\ workerPc[dispWorker] = "select"
  /\ workerPc' = [workerPc EXCEPT ![dispWorker] = "invoke"]
  /\ workerTask' = [workerTask EXCEPT ![dispWorker] = dispTask]
  /\ begun' = begun \cup {dispTask}
  /\ dispTask' = NoTask /\ dispWorker' = NoWorker
  /\ dispPc' = "done"
  /\ UNCHANGED <<state, wg, tasks, subPc, availableWorker, taskWg, stopVars,
                 accepted, done>>

DispatchDone ==
  /\ dispPc = "done"
  /\ Done
  /\ dispPc' = "select"
  /\ UNCHANGED <<state, tasks, subPc, dispTask, dispWorker, poolVars, obsVars>>

-----------------------------------------------------------------------------
(* Worker.  One that announces itself has room in availableWorker.         *)
WorkerReady(w) ==
  /\ workerPc[w] = "ready"
  /\ availableWorker' = availableWorker \cup {w}
  /\ workerPc' = [workerPc EXCEPT ![w] = "select"]
  /\ UNCHANGED <<state, wg, tasks, subPc, dispVars, taskWg, workerTask, stopVars,
                 obsVars>>

(* Mutant: TaskCompleted is called and deferred.                           *)
WorkerInvokeTwice(w) ==
  /\ workerPc[w] = "invoke"
  /\ done' = done \cup {workerTask[w]}
  /\ workerTask' = [workerTask EXCEPT ![w] = NoTask]
  /\ taskWg' = taskWg - 2
  /\ workerPc' = [workerPc EXCEPT ![w] = "ready"]
  /\ UNCHANGED <<state, wg, tasks, subPc, dispVars, availableWorker, stopVars,
                 accepted, begun>>

(* Mutant: a worker announces itself once, not after each task.            *)
WorkerInvokeNotReady(w) ==
  /\ workerPc[w] = "invoke"
  /\ done' = done \cup {workerTask[w]}
  /\ workerTask' = [workerTask EXCEPT ![w] = NoTask]
  /\ taskWg' = taskWg - 1
  /\ workerPc' = [workerPc EXCEPT ![w] = "select"]
  /\ UNCHANGED <<state, wg, tasks, subPc, dispVars, availableWorker, stopVars,
                 accepted, begun>>

(* The task returns, and TaskCompleted is deferred to that.                *)
WorkerInvoke(w) ==
  /\ workerPc[w] = "invoke"
  /\ done' = done \cup {workerTask[w]}
  /\ workerTask' = [workerTask EXCEPT ![w] = NoTask]
  /\ taskWg' = taskWg - 1
  /\ workerPc' = [workerPc EXCEPT ![w] = "ready"]
  /\ UNCHANGED <<state, wg, tasks, subPc, dispVars, availableWorker, stopVars,
                 accepted, begun>>

WorkerStopped(w) ==
  /\ workerPc[w] = "stopping"
  /\ workerPc' = [workerPc EXCEPT ![w] = "stopped"]
  /\ UNCHANGED <<state, wg, tasks, subPc, dispVars, availableWorker, taskWg, workerTask,
                 stopVars, obsVars>>

-----------------------------------------------------------------------------
(* Stop and Pool.Stop.                                                     *)
Stop(b) ==
  /\ stopPc = "no" /\ state = "STARTED"
  /\ state' = "TERMINATED"
  /\ wait' = b /\ promised' = accepted
  /\ stopPc' = "drain"
  /\ UNCHANGED <<wg, tasks, subPc, dispVars, poolVars, stopWorker, obsVars>>

(* Mutant: Stop does not wait for the queue to be purged.                  *)
StopNotDrained ==
  /\ stopPc = "drain"
  /\ stopPc' = "terminate"
  /\ UNCHANGED <<state, wg, tasks, subPc, dispVars, poolVars, wait, stopWorker, promised,
                 obsVars>>

StopDrained ==
  /\ stopPc = "drain" /\ wg = 0
  /\ stopPc' = "terminate"
  /\ UNCHANGED <<state, wg, tasks, subPc, dispVars, poolVars, wait, stopWorker, promised,
                 obsVars>>

StopWaits ==
  /\ stopPc = "drain" /\ wg # 0
  /\ stopPc' = "waiting"
  /\ UNCHANGED <<state, wg, tasks, subPc, dispVars, poolVars, wait, stopWorker, promised,
                 obsVars>>

(* Woken, Wait looks at the counter again: a Submit that tested the state  *)
(* before Stop may have raised it in between.                              *)
StopWoken ==
  /\ stopPc = "woken"
  /\ stopPc' = IF wg = 0 THEN "terminate" ELSE "panicked"
  /\ UNCHANGED <<state, wg, tasks, subPc, dispVars, poolVars, wait, stopWorker, promised,
                 obsVars>>

(* The rendezvous on terminating.                                          *)
Terminate ==
  /\ stopPc = "terminate" /\ dispPc = "select"
  /\ dispPc' = "ended"
  /\ stopPc' = IF wait THEN "tasks" ELSE "collect"
  /\ UNCHANGED <<state, wg, tasks, subPc, dispTask, dispWorker, poolVars, wait,
                 stopWorker, promised, obsVars>>

StopTasks ==
  /\ stopPc = "tasks" /\ taskWg = 0
  /\ stopPc' = "collect"
  /\ UNCHANGED <<state, wg, tasks, subPc, dispVars, poolVars, wait, stopWorker, promised,
                 obsVars>>

StopCollect(w) ==
  /\ stopPc = "collect" /\ w \in availableWorker
  /\ availableWorker' = availableWorker \ {w}
  /\ stopWorker' = w
  /\ stopPc' = "stop"
  /\ UNCHANGED <<state, wg, tasks, subPc, dispVars, taskWg, workerPc, workerTask, wait,
                 promised, obsVars>>

(* The rendezvous on the worker's done channel.                            *)
StopWorker ==
  /\ stopPc = "stop" /\ workerPc[stopWorker] = "select"
  /\ workerPc' = [workerPc EXCEPT ![stopWorker] = "stopping"]
  /\ stopWorker' = NoWorker
  /\ stopPc' = IF \A w \in Workers \ {stopWorker} : workerPc[w] \in {"stopping", "stopped"}
                 THEN "pool" ELSE "collect"
  /\ UNCHANGED <<state, wg, tasks, subPc, dispVars, availableWorker, taskWg, workerTask,
                 wait, promised, obsVars>>

StopReturn ==
  /\ stopPc = "pool" /\ \A w \in Workers : workerPc[w] = "stopped"
  /\ stopPc' = "returned"
  /\ UNCHANGED <<state, wg, tasks, subPc, dispVars, poolVars, wait, stopWorker, promised,
                 obsVars>>

-----------------------------------------------------------------------------
Submit(t) ==
  /\ Running
  /\ SubmitTest(t) \/ DelayAdd(t) \/ DelayOver(t) \/ SubmitAdd(t) \/ SubmitSend(t) \/ DelayDone(t)

Dispatch ==
  /\ Running
  /\ DispatchTake \/ (\E w \in Workers : DispatchWorker(w)) \/ Hand \/ DispatchDone

Worker(w) ==
  /\ Running
  /\ WorkerReady(w) \/ WorkerInvoke(w) \/ WorkerStopped(w)

Stopper == StopDrained \/ StopWaits \/ StopWoken \/ Terminate \/ StopTasks
             \/ (\E w \in Workers : StopCollect(w)) \/ StopWorker \/ StopReturn

Next ==
  \/ Start
  \/ \E t \in Tasks : Submit(t)
  \/ Dispatch
  \/ \E w \in Workers : Worker(w)
  \/ \E b \in BOOLEAN : Stop(b)
  \/ Stopper

Spec == Init /\ [][Next]_vars

(* The goroutines of the executor are scheduled, a call once begun goes    *)
(* on, and a task returns.  Nobody need submit, start or stop.             *)
Fairness ==
  /\ \A t \in Tasks : WF_vars(Submit(t) /\ subPc[t] # "idle")
  /\ WF_vars(Dispatch)
  /\ \A w \in Workers : WF_vars(Worker(w))
  /\ WF_vars(Stopper)

LiveSpec == Spec /\ Fairness

-----------------------------------------------------------------------------
(* Wait (executor.go:135) returns when wg is 0.  Every task a caller has   *)
(* put on the channel is then in the hands of a worker, whatever is        *)
(* submitted, delayed and dispatched meanwhile: not that it has completed. *)
ZeroMeansBegun == wg = 0 => accepted \subseteq begun

(* When Stop returns, the tasks accepted before it was called have all     *)
(* completed, also without its wait argument: the pool needs every worker  *)
(* back (executor.go:142-167, workerpool.go:57-77).                        *)
StopCompletes == stopPc = "returned" => promised \subseteq done

(* Tasks begin in the order in which they were accepted, each once, and a  *)
(* worker has one at a time (executor.go:33-36, TaskQueue.tla).            *)
Waiting == (IF dispTask = NoTask THEN <<>> ELSE <<dispTask>>) \o tasks
Queue == INSTANCE TaskQueue WITH
           waiting <- Waiting, serving <- workerTask, finished <- done
ImplementsTaskQueue == Queue!Spec

(* An accepted task completes, unless it was put on the channel by a       *)
(* Submit that tested the state before Stop was called and went on after   *)
(* it (executor.go:102-109): the dispatcher may be gone, and if Stop is    *)
(* just being woken the wait group panics.                                 *)
TaskCompletes ==
  \A t \in Tasks : (t \in accepted) ~>
    (t \in done \/ (state = "TERMINATED" /\ t \notin promised) \/ ~Running)

(* Stop returns, whatever is still submitted (executor.go:142-167), unless *)
(* a Submit raises the counter between its falling to 0 and Wait's return, *)
(* at which the wait group panics (executor.go:108, 152).                  *)
StopReturns == (stopPc = "drain") ~> (stopPc = "returned" \/ ~Running)

=============================================================================
