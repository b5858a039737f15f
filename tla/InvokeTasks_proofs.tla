------------------------- MODULE InvokeTasks_proofs -------------------------
(***************************************************************************)
(* "chaincode invoke" and "chaincode query": what a command reports, and   *)
(* that it prints one response at a time, for any arguments, number of     *)
(* iterations, concurrency and width of it.                                *)
(*                                                                         *)
(* TaskInv strengthens both.  It says where every task is: an iteration is *)
(* waiting, served by one worker, or over (QueueInv, ServingInv), so that  *)
(* the tasks that are through are known (Through), and the counters count  *)
(* them (CountInv).                                                        *)
(***************************************************************************)
EXTENDS InvokeTasks, FiniteSetTheorems, TLAPS

Taken == submitted - Len(waiting)
Slots == 1..MaxWorkers

OptsInv == opts \in Commands /\ submitted \in 0..opts.iterations

(* The channel holds the iterations after the last that was taken.         *)
QueueInv ==
  /\ waiting \in Seq(Nat) /\ Len(waiting) <= submitted
  /\ \A j \in 1..Len(waiting) : waiting[j] = Taken + j

MainInv ==
  /\ pc \in {"submit", "wait", "report", "stop", "done", "crashed"}
  /\ ticker \in {"running", "printing", "stopped"}
  /\ pc \in {"wait", "report", "stop", "done"} => submitted = opts.iterations
  /\ pc \in {"report", "stop", "done"} => wg = 0

ServingInv ==
  /\ serving \in [Slots -> Iterations \cup {NoTask}]
  /\ \A w \in Slots : serving[w] # NoTask => serving[w] <= Taken
  /\ \A v, w \in Slots : serving[v] = serving[w] /\ serving[v] # NoTask => v = w

Working == {"args", "execute", "print", "completed"}

Places == [task : Nat, does : {"idle", "done"} \cup Working]

SlotInv(w) ==
  /\ serving[w] = NoTask <=> at[w].does = "idle"
  /\ at[w].does \in Working => at[w].task \in Tasks
  /\ at[w].does = "done" => at[w].task = Len(opts.args) + 1
  /\ at[w].does = "print" => Verbose

AtInv == at \in [Slots -> Places] /\ \A w \in Slots : SlotInv(w)

DataInv ==
  /\ attempts \in [Iterations -> [Tasks -> 1..(opts.attempts + 1)]]
  /\ lastErr \in [Iterations -> [Tasks -> {"none", "transient", "persistent"}]]

(* The tasks that are through, and the iterations that are over.           *)
Through ==
  {t \in Iterations \X Tasks :
     t[1] <= Taken /\ \A w \in Slots : serving[w] = t[1] => t[2] < at[w].task}
ThroughWithError == {t \in Through : lastErr[t[1]][t[2]] # "none"}
Over == {i \in Iterations : i <= Taken /\ \A w \in Slots : serving[w] # i}

CountInv ==
  /\ success \in Nat /\ errs \in Nat
  /\ success + errs = Cardinality(Through)
  /\ errs = Cardinality(ThroughWithError)
  /\ failed = IF opts.query THEN 0 ELSE errs

WaitInv == wg = opts.iterations - Cardinality(Over)

Shape == OptsInv /\ QueueInv /\ MainInv /\ ServingInv /\ AtInv /\ DataInv
TaskInv == Shape /\ CountInv /\ WaitInv

-----------------------------------------------------------------------------
(* What the options are, and what does not change with them.               *)
LEMMA Options ==
  ASSUME OptsInv
  PROVE  /\ opts.query \in BOOLEAN /\ opts.verbose \in BOOLEAN
         /\ opts.concurrency \in Nat /\ opts.iterations \in Nat /\ opts.attempts \in Nat
         /\ opts.args \in Seq(Seq(STRING)) /\ Len(opts.args) \in Nat
         /\ submitted \in 0..opts.iterations
BY InvokeAssumption DEF OptsInv

LEMMA WorkersAreSlots ==
  ASSUME OptsInv
  PROVE  Workers \subseteq Slots
<1>1. opts.concurrency % Width \in 0..(Width - 1)
  BY InvokeAssumption, Options
<1> QED BY <1>1, InvokeAssumption DEF Workers, Slots, MaxWorkers

LEMMA OptsKept == Next => UNCHANGED opts /\ (Submit \/ UNCHANGED submitted)
<1> USE DEF main
<1>1. Command => UNCHANGED opts /\ (Submit \/ UNCHANGED submitted)
  BY DEF Command, Submit, Submitted, Report, Stop
<1>2. WaitOver \/ Tick \/ TickPrinted => UNCHANGED <<opts, submitted>>
  BY DEF WaitOver, Tick, TickPrinted
<1>3. ASSUME NEW w, Worker(w) \/ Completed(w)
      PROVE  UNCHANGED <<opts, submitted>>
  <2>1. EvalArgs(w) => UNCHANGED <<opts, submitted>>
    BY DEF EvalArgs
  <2>2. Begin(w) \/ Retry(w) \/ ExecuteFails(w) \/ Execute(w) => UNCHANGED <<opts, submitted>>
    BY DEF Begin, Retry, ExecuteFails, Execute
  <2>3. Printed(w) \/ MultiDone(w) \/ Completed(w) => UNCHANGED <<opts, submitted>>
    BY DEF Printed, MultiDone, Completed
  <2> QED BY <1>3, <2>1, <2>2, <2>3 DEF Worker
<1> QED BY <1>1, <1>2, <1>3 DEF Next

LEMMA UpTo ==
  ASSUME NEW n \in Nat
  PROVE  IsFiniteSet(1..n) /\ Cardinality(1..n) = n
<1>1. 1 \in Int /\ n \in Int
  OBVIOUS
<1>2. IsFiniteSet(1..n) /\ Cardinality(1..n) = IF 1 > n THEN 0 ELSE n - 1 + 1
  BY <1>1, FS_Interval, Zenon
<1> QED BY <1>2

(* The sets the counters count are finite.                                 *)
LEMMA FiniteCounts ==
  ASSUME OptsInv
  PROVE  /\ IsFiniteSet(Iterations) /\ Cardinality(Iterations) = opts.iterations
         /\ IsFiniteSet(Iterations \X Tasks)
         /\ Cardinality(Iterations \X Tasks) = NumInvocations
         /\ IsFiniteSet(Through) /\ IsFiniteSet(ThroughWithError) /\ IsFiniteSet(Over)
<1>1. IsFiniteSet(Iterations) /\ Cardinality(Iterations) = opts.iterations
  BY UpTo, Options DEF Iterations
<1>2. IsFiniteSet(Tasks) /\ Cardinality(Tasks) = Len(opts.args)
  BY UpTo, Options DEF Tasks
<1>3. /\ IsFiniteSet(Iterations \X Tasks)
      /\ Cardinality(Iterations \X Tasks) = NumInvocations
  BY <1>1, <1>2, FS_Product DEF NumInvocations
<1>4. IsFiniteSet(Through)
  BY <1>3, FS_Subset DEF Through
<1>5. IsFiniteSet(ThroughWithError)
  BY <1>4, FS_Subset DEF ThroughWithError
<1>6. IsFiniteSet(Over)
  BY <1>1, FS_Subset DEF Over
<1> QED BY <1>1, <1>3, <1>4, <1>5, <1>6

-----------------------------------------------------------------------------
(* The channel and the worker slots.                                       *)
LEMMA OptsStep ==
  ASSUME OptsInv, Next
  PROVE  OptsInv'
<1>1. CASE Submit
  BY <1>1, OptsKept, Options DEF Submit, OptsInv
<1>2. CASE UNCHANGED submitted
  BY <1>2, OptsKept DEF OptsInv
<1> QED BY <1>1, <1>2, OptsKept

(* What Begin takes is the iteration after the last that was taken.        *)
LEMMA BeginTakes ==
  ASSUME OptsInv, QueueInv, NEW w, Begin(w)
  PROVE  /\ Taken \in Nat /\ Head(waiting) = Taken + 1 /\ Taken' = Taken + 1
         /\ Taken + 1 \in Iterations /\ QueueInv'
<1>1. submitted \in Nat /\ waiting \in Seq(Nat) /\ waiting # <<>>
  BY Options DEF Begin, QueueInv
<1>2. /\ waiting' = Tail(waiting) /\ Len(waiting') = Len(waiting) - 1
      /\ Len(waiting) \in Nat \ {0} /\ waiting' \in Seq(Nat)
      /\ \A j \in 1..Len(waiting') : waiting'[j] = waiting[j + 1]
  BY <1>1 DEF Begin
<1>3. Head(waiting) = waiting[1]
  BY <1>1
<1>4. UNCHANGED <<opts, submitted>>
  BY DEF Begin, main
<1>5. Taken \in Nat /\ Head(waiting) = Taken + 1 /\ Taken' = Taken + 1
  BY <1>1, <1>2, <1>3, <1>4 DEF QueueInv, Taken
<1>6. Taken + 1 \in Iterations
  BY <1>1, <1>2, <1>5, Options DEF Iterations, Taken
<1>7. \A j \in 1..Len(waiting') : waiting'[j] = Taken' + j
  BY <1>1, <1>2, <1>5 DEF QueueInv, Taken
<1>8. Len(waiting') <= submitted'
  BY <1>1, <1>2, <1>4 DEF QueueInv
<1> QED BY <1>2, <1>5, <1>6, <1>7, <1>8 DEF QueueInv

LEMMA SubmitAppends ==
  ASSUME OptsInv, QueueInv, Submit
  PROVE  Taken' = Taken /\ QueueInv'
<1>1. /\ submitted \in Nat /\ waiting \in Seq(Nat) /\ waiting' = Append(waiting, submitted + 1)
      /\ submitted' = submitted + 1
  BY Options DEF Submit, QueueInv
<1>2. /\ Len(waiting') = Len(waiting) + 1 /\ waiting' \in Seq(Nat) /\ Len(waiting) \in Nat
      /\ \A j \in 1..Len(waiting) : waiting'[j] = waiting[j]
      /\ waiting'[Len(waiting) + 1] = submitted + 1
  BY <1>1
<1> QED BY <1>1, <1>2 DEF QueueInv, Taken

(* The other actions of the command, and those of the ticker.              *)
MainStep == Submitted \/ WaitOver \/ Report \/ Stop \/ Tick \/ TickPrinted

(* A worker goes on with the task it is at.                                *)
Proceed(w) == EvalArgs(w) \/ ExecuteFails(w) \/ Execute(w) \/ Printed(w)

LEMMA Cases ==
  ASSUME OptsInv, Next
  PROVE  \/ Submit \/ MainStep
         \/ \E w \in Slots : Begin(w) \/ Proceed(w) \/ Retry(w) \/ Completed(w) \/ MultiDone(w)
BY WorkersAreSlots DEF Next, Command, Worker, MainStep, Proceed

LEMMA QueueStep ==
  ASSUME OptsInv, QueueInv, Next
  PROVE  QueueInv'
<1> USE DEF main
<1>1. CASE UNCHANGED <<submitted, waiting>>
  BY <1>1, Zenon DEF QueueInv, Taken
<1>2. CASE MainStep
  BY <1>1, <1>2 DEF MainStep, Submitted, WaitOver, Report, Stop, Tick, TickPrinted
<1>3. ASSUME NEW w, Proceed(w)
      PROVE  QueueInv'
  BY <1>1, <1>3 DEF Proceed, EvalArgs, ExecuteFails, Execute, Printed
<1>4. ASSUME NEW w, Retry(w) \/ Completed(w) \/ MultiDone(w)
      PROVE  QueueInv'
  BY <1>1, <1>4 DEF Retry, Completed, MultiDone
<1> QED BY <1>2, <1>3, <1>4, SubmitAppends, BeginTakes, Cases

-----------------------------------------------------------------------------
(* The workers.                                                            *)
LEMMA NoTaskApart == NoTask \notin Iterations
BY InvokeAssumption DEF Iterations

(* Proceed stays at its task, which is printed only when it may be.        *)
LEMMA Proceeds ==
  ASSUME NEW w \in Slots, AtInv, Proceed(w)
  PROVE  /\ at[w].does \in Working
         /\ UNCHANGED <<opts, submitted, waiting, serving, success, errs, failed, wg, ticker>>
         /\ \E step \in Working :
              /\ at' = [at EXCEPT ![w] = [task |-> at[w].task, does |-> step]]
              /\ step = "print" => Verbose
<1> USE DEF counts, main, GoTo, Working, tasks
<1>1. CASE EvalArgs(w)
  BY <1>1 DEF EvalArgs
<1>2. CASE ExecuteFails(w)
  BY <1>2 DEF ExecuteFails
<1>3. CASE Execute(w)
  <2>1. CASE Verbose
    BY <1>3, <2>1 DEF Execute
  <2>2. CASE ~Verbose
    BY <1>3, <2>2 DEF Execute
  <2> QED BY <2>1, <2>2
<1>4. CASE Printed(w)
  BY <1>4 DEF Printed
<1> QED BY <1>1, <1>2, <1>3, <1>4 DEF Proceed

LEMMA ServingStep ==
  ASSUME OptsInv, QueueInv, ServingInv, AtInv, Next
  PROVE  ServingInv'
<1>1. CASE UNCHANGED <<opts, serving>> /\ Taken' = Taken
  BY <1>1 DEF ServingInv, Iterations
<1>2. CASE Submit
  BY <1>1, <1>2, SubmitAppends DEF Submit
<1>3. CASE MainStep
  BY <1>1, <1>3 DEF MainStep, Submitted, WaitOver, Report, Stop, Tick, TickPrinted, main, Taken
<1>4. ASSUME NEW w \in Slots, Begin(w)
      PROVE  ServingInv'
  <2>1. serving' = [serving EXCEPT ![w] = Taken + 1] /\ UNCHANGED opts
    BY <1>4, BeginTakes DEF Begin, main
  <2>2. Taken \in Nat /\ Taken' = Taken + 1 /\ Taken + 1 \in Iterations
    BY <1>4, BeginTakes
  <2>3. \A v \in Slots : serving[v] # NoTask => serving[v] \in Nat /\ serving[v] # Taken + 1
    BY <2>2 DEF ServingInv, Iterations
  <2>4. serving' \in [Slots -> Iterations' \cup {NoTask}]
    BY <2>1, <2>2 DEF ServingInv, Iterations
  <2>5. \A v \in Slots : serving'[v] # NoTask => serving'[v] <= Taken'
    BY <2>1, <2>2, <2>3 DEF ServingInv
  <2>6. \A u, v \in Slots : serving'[u] = serving'[v] /\ serving'[u] # NoTask => u = v
    BY <2>1, <2>3, <2>2, NoTaskApart DEF ServingInv
  <2> QED BY <2>4, <2>5, <2>6 DEF ServingInv, Slots, MaxWorkers
<1>5. ASSUME NEW w \in Slots, Proceed(w)
      PROVE  ServingInv'
  BY <1>1, <1>5, Proceeds DEF Taken
<1>6. ASSUME NEW w \in Slots, Retry(w) \/ Completed(w)
      PROVE  ServingInv'
  BY <1>1, <1>6 DEF Retry, Completed, main, Taken
<1>7. ASSUME NEW w \in Slots, MultiDone(w)
      PROVE  ServingInv'
  <2>1. serving' = [serving EXCEPT ![w] = NoTask] /\ UNCHANGED opts /\ Taken' = Taken
    BY <1>7 DEF MultiDone, main, Taken
  <2> QED BY <2>1 DEF ServingInv, Iterations, Slots, MaxWorkers
<1> QED BY <1>2, <1>3, <1>4, <1>5, <1>6, <1>7, Cases

(* A worker's slot changes, and no other.                                  *)
LEMMA SlotChange ==
  ASSUME AtInv, UNCHANGED opts,
         NEW w \in Slots, \A v \in Slots \ {w} : serving'[v] = serving[v],
         NEW place \in Places, at' = [at EXCEPT ![w] = place],
         serving'[w] = NoTask <=> place.does = "idle",
         place.does \in Working => place.task \in Tasks,
         place.does = "done" => place.task = Len(opts.args) + 1,
         place.does = "print" => Verbose
  PROVE  AtInv'
<1>1. at' \in [Slots -> Places] /\ at'[w] = place /\ \A v \in Slots \ {w} : at'[v] = at[v]
  BY DEF AtInv
<1>2. SlotInv(w)'
  BY <1>1 DEF SlotInv, Tasks, Verbose
<1>3. ASSUME NEW v \in Slots \ {w}
      PROVE  SlotInv(v)'
  <2>1. SlotInv(v) /\ at'[v] = at[v] /\ serving'[v] = serving[v]
    BY <1>1, <1>3 DEF AtInv
  <2> QED BY <2>1 DEF SlotInv, Tasks, Verbose
<1>4. Slots' = Slots /\ Places' = Places
  BY DEF Slots, MaxWorkers, Places, Working
<1> QED BY <1>1, <1>2, <1>3, <1>4 DEF AtInv

LEMMA AtStep ==
  ASSUME OptsInv, QueueInv, ServingInv, AtInv, Next
  PROVE  AtInv'
<1>1. CASE UNCHANGED <<opts, serving, at>>
  BY <1>1, Zenon DEF AtInv, SlotInv, Tasks, Verbose, Slots, MaxWorkers, Places, Working
<1>2. CASE Submit \/ MainStep
  BY <1>1, <1>2 DEF Submit, MainStep, Submitted, WaitOver, Report, Stop, Tick, TickPrinted, main
<1>3. ASSUME NEW w \in Slots, Begin(w)
      PROVE  AtInv'
  <2> DEFINE place == [task |-> 1, does |-> IF 0 < Len(opts.args) THEN "args" ELSE "done"]
  <2>1. UNCHANGED opts /\ serving' = [serving EXCEPT ![w] = Taken + 1]
    BY <1>3, BeginTakes DEF Begin, main
  <2>2. at' = [at EXCEPT ![w] = place]
    BY <1>3 DEF Begin, NextTask, GoTo
  <2>3. /\ serving'[w] # NoTask
        /\ \A v \in Slots \ {w} : serving'[v] = serving[v]
    BY <1>3, <2>1, BeginTakes, NoTaskApart DEF ServingInv
  <2>4. place \in Places /\ place.does # "idle" /\ place.does # "print"
    BY DEF Places, Working
  <2>5. /\ place.does \in Working => place.task \in Tasks
        /\ place.does = "done" => place.task = Len(opts.args) + 1
    BY Options DEF Tasks, Working
  <2> HIDE DEF place
  <2> QED BY <2>1, <2>2, <2>3, <2>4, <2>5, SlotChange
<1>4. ASSUME NEW w \in Slots, Proceed(w)
      PROVE  AtInv'
  <2> DEFINE Place(step) == [task |-> at[w].task, does |-> step]
  <2>1. PICK step \in Working :
          at' = [at EXCEPT ![w] = Place(step)] /\ (step = "print" => Verbose)
    BY <1>4, Proceeds
  <2> DEFINE place == Place(step)
  <2>2. UNCHANGED <<opts, serving>> /\ at[w].does \in Working
    BY <1>4, Proceeds
  <2>3. SlotInv(w) /\ at[w] \in Places
    BY DEF AtInv
  <2>4. place \in Places /\ place.does = step /\ step # "idle" /\ step # "done"
    BY <2>3 DEF Places, Working
  <2>5. place.task \in Tasks /\ serving'[w] # NoTask
    BY <2>2, <2>3 DEF SlotInv, Working
  <2>6. at' = [at EXCEPT ![w] = place] /\ (place.does = "print" => Verbose)
    BY <2>1, <2>4
  <2> HIDE DEF place
  <2> QED BY <2>2, <2>4, <2>5, <2>6, SlotChange
<1>5. ASSUME NEW w \in Slots, Retry(w)
      PROVE  AtInv'
  BY <1>1, <1>5 DEF Retry, main
<1>6. ASSUME NEW w \in Slots, Completed(w)
      PROVE  AtInv'
  <2> DEFINE k == at[w].task
             place == [task |-> k + 1, does |-> IF k < Len(opts.args) THEN "args" ELSE "done"]
  <2>1. UNCHANGED <<opts, serving>> /\ at[w].does = "completed" /\ at' = [at EXCEPT ![w] = place]
    BY <1>6 DEF Completed, NextTask, GoTo, main
  <2>2. SlotInv(w) /\ at[w] \in Places
    BY DEF AtInv
  <2>3. k \in 1..Len(opts.args) /\ serving'[w] # NoTask
    BY <2>1, <2>2 DEF SlotInv, Tasks, Working
  <2>4. place \in Places /\ place.does # "idle" /\ place.does # "print"
    BY <2>3, Options DEF Places, Working
  <2>5. /\ place.does \in Working => place.task \in Tasks
        /\ place.does = "done" => place.task = Len(opts.args) + 1
    BY <2>3, Options DEF Tasks, Working
  <2> HIDE DEF place
  <2> QED BY <2>1, <2>3, <2>4, <2>5, SlotChange
<1>7. ASSUME NEW w \in Slots, MultiDone(w)
      PROVE  AtInv'
  <2>1. UNCHANGED opts /\ serving' = [serving EXCEPT ![w] = NoTask] /\ at' = [at EXCEPT ![w] = Idle]
    BY <1>7 DEF MultiDone, main
  <2>2. serving'[w] = NoTask /\ \A v \in Slots \ {w} : serving'[v] = serving[v]
    BY <2>1 DEF ServingInv
  <2>3. Idle \in Places /\ Idle.does = "idle"
    BY DEF Idle, Places
  <2>4. Idle.does \notin Working
    BY <2>3 DEF Working
  <2> QED BY <2>1, <2>2, <2>3, <2>4, SlotChange
<1> QED BY <1>2, <1>3, <1>4, <1>5, <1>6, <1>7, Cases

LEMMA DataStep ==
  ASSUME OptsInv, QueueInv, ServingInv, AtInv, DataInv, Next
  PROVE  DataInv'
<1>1. CASE UNCHANGED <<opts, attempts, lastErr>>
  BY <1>1 DEF DataInv, Iterations, Tasks
<1>2. CASE Submit \/ MainStep
  BY <1>1, <1>2 DEF Submit, MainStep, Submitted, WaitOver, Report, Stop, Tick, TickPrinted, main,
                    tasks
<1>3. ASSUME NEW w \in Slots, Begin(w) \/ EvalArgs(w) \/ Printed(w) \/ Completed(w) \/ MultiDone(w)
      PROVE  DataInv'
  BY <1>1, <1>3 DEF Begin, EvalArgs, Printed, Completed, MultiDone, main, tasks
<1>4. ASSUME NEW w \in Slots, ExecuteFails(w) \/ Execute(w)
      PROVE  DataInv'
  <2>1. /\ UNCHANGED <<opts, attempts>>
        /\ \E error \in {"none", "transient", "persistent"} :
             lastErr' = [lastErr EXCEPT ![serving[w]][at[w].task] = error]
    BY <1>4 DEF ExecuteFails, Execute, main
  <2>2. serving[w] \in Iterations /\ at[w].task \in Tasks
    BY <1>4 DEF ExecuteFails, Execute, AtInv, SlotInv, Working, ServingInv
  <2>3. lastErr' \in [Iterations -> [Tasks -> {"none", "transient", "persistent"}]]
    BY <2>1, <2>2 DEF DataInv
  <2> QED BY <2>1, <2>3 DEF DataInv, Iterations, Tasks
<1>5. ASSUME NEW w \in Slots, Retry(w)
      PROVE  DataInv'
  <2> DEFINE i == serving[w]
             k == at[w].task
  <2>1. /\ UNCHANGED <<opts, lastErr>> /\ attempts[i][k] <= opts.attempts
        /\ attempts' = [attempts EXCEPT ![i][k] = attempts[i][k] + 1]
        /\ at[w].does = "execute"
    BY <1>5 DEF Retry, main
  <2>2. i \in Iterations /\ k \in Tasks
    BY <2>1 DEF AtInv, SlotInv, Working, ServingInv
  <2>3. attempts[i][k] + 1 \in 1..(opts.attempts + 1)
    BY <2>1, <2>2, Options DEF DataInv
  <2> HIDE DEF i, k
  <2>4. attempts' \in [Iterations -> [Tasks -> 1..(opts.attempts + 1)]]
    BY <2>1, <2>2, <2>3 DEF DataInv
  <2> QED BY <2>1, <2>4 DEF DataInv, Iterations, Tasks
<1> QED BY <1>2, <1>3, <1>4, <1>5, Cases DEF Proceed

-----------------------------------------------------------------------------
(* The counters.                                                           *)

(* When every iteration is over, so are the workers.                       *)
LEMMA AllOver ==
  ASSUME OptsInv, WaitInv, wg = 0
  PROVE  /\ Over = Iterations /\ \A w \in Slots : serving[w] \notin Iterations
         /\ \A i \in Iterations : i <= Taken
<1>1. Cardinality(Over) = opts.iterations /\ Over \subseteq Iterations
  <2>1. Cardinality(Over) \in Nat
    BY FiniteCounts, FS_CardinalityType
  <2> QED BY <2>1, Options DEF WaitInv, Over
<1>2. Over = Iterations
  BY <1>1, FiniteCounts, FS_Subset
<1> QED BY <1>2 DEF Over

LEMMA MainInvStep ==
  ASSUME OptsInv, ServingInv, AtInv, MainInv, WaitInv, Next
  PROVE  MainInv'
<1>1. CASE Submit
  BY <1>1 DEF Submit, MainInv
<1>2. CASE MainStep
  BY <1>2, Options DEF MainStep, Submitted, WaitOver, Report, Stop, Tick, TickPrinted, main, MainInv
<1>3. ASSUME NEW w \in Slots, Begin(w) \/ Retry(w) \/ ExecuteFails(w) \/ Execute(w) \/ Printed(w)
      PROVE  MainInv'
  BY <1>3 DEF Begin, Retry, ExecuteFails, Execute, Printed, main, MainInv
<1>4. ASSUME NEW w \in Slots, EvalArgs(w)
      PROVE  MainInv'
  <2>1. (pc' = "crashed" \/ pc' = pc) /\ UNCHANGED <<opts, submitted, wg, ticker>>
    BY <1>4 DEF EvalArgs
  <2> QED BY <2>1 DEF MainInv
<1>5. ASSUME NEW w \in Slots, Completed(w)
      PROVE  MainInv'
  BY <1>5 DEF Completed, main, MainInv
<1>6. ASSUME NEW w \in Slots, MultiDone(w)
      PROVE  MainInv'
  <2>1. serving[w] \in Iterations
    BY <1>6 DEF MultiDone, AtInv, SlotInv, ServingInv
  <2>2. wg # 0
    BY <2>1, AllOver
  <2> QED BY <1>6, <2>2 DEF MultiDone, main, MainInv
<1> QED BY <1>1, <1>2, <1>3, <1>4, <1>5, <1>6, Cases DEF Proceed

LEMMA CountsKept ==
  ASSUME CountInv, WaitInv, UNCHANGED <<opts, success, errs, failed, wg>>,
         Through' = Through, ThroughWithError' = ThroughWithError, Over' = Over
  PROVE  CountInv' /\ WaitInv'
BY DEF CountInv, WaitInv

LEMMA CountStep ==
  ASSUME Shape, CountInv, WaitInv, Next
  PROVE  CountInv' /\ WaitInv'
<1> USE DEF Shape
<1>1. CASE UNCHANGED <<opts, serving, at, lastErr, success, errs, failed, wg>> /\ Taken' = Taken
  BY <1>1, CountsKept, Zenon DEF Through, ThroughWithError, Over, Iterations, Tasks, Slots, MaxWorkers
<1>2. CASE Submit
  BY <1>1, <1>2, SubmitAppends DEF Submit, tasks, counts
<1>3. CASE MainStep
  BY <1>1, <1>3 DEF MainStep, Submitted, WaitOver, Report, Stop, Tick, TickPrinted, main, Taken,
                    tasks, counts
<1>4. ASSUME NEW w \in Slots, Begin(w)
      PROVE  CountInv' /\ WaitInv'
  <2>1. /\ serving' = [serving EXCEPT ![w] = Taken + 1] /\ serving[w] = NoTask
        /\ UNCHANGED <<opts, lastErr, success, errs, failed, wg>>
    BY <1>4, BeginTakes DEF Begin, main, tasks, counts
  <2>2. Taken \in Nat /\ Taken' = Taken + 1 /\ Taken + 1 \in Iterations
    BY <1>4, BeginTakes
  <2>3. at'[w].task = 1 /\ \A v \in Slots \ {w} : at'[v] = at[v]
    BY <1>4 DEF Begin, NextTask, GoTo, AtInv
  <2>4. \A v \in Slots : serving[v] # Taken + 1
    BY <2>2, NoTaskApart DEF ServingInv, Iterations
  <2>5. /\ serving'[w] = Taken + 1
        /\ \A v \in Slots \ {w} : serving'[v] = serving[v]
    BY <2>1 DEF ServingInv
  <2>6. Iterations' = Iterations /\ Tasks' = Tasks /\ Slots' = Slots
    BY <2>1 DEF Iterations, Tasks, Slots, MaxWorkers
  <2>7. ASSUME NEW t \in Iterations \X Tasks
        PROVE  t \in Through' <=> t \in Through
    <3>1. t[1] \in Nat /\ t[1] \in Iterations /\ t[2] \in Nat /\ t[2] >= 1
      BY <2>7 DEF Iterations, Tasks
    <3>2. CASE t[1] = Taken + 1
      BY <2>2, <2>3, <2>5, <2>6, <3>1, <3>2 DEF Through
    <3>3. CASE t[1] # Taken + 1
      <4>1. t[1] <= Taken' <=> t[1] <= Taken
        BY <2>2, <3>1, <3>3
      <4>2. serving[w] # t[1] /\ serving'[w] # t[1]
        BY <2>1, <2>5, <3>1, <3>3, NoTaskApart
      <4> QED BY <2>3, <2>5, <2>6, <4>1, <4>2 DEF Through
    <3> QED BY <3>2, <3>3
  <2>8. Through' = Through
    BY <2>6, <2>7 DEF Through
  <2>9. ThroughWithError' = ThroughWithError
    BY <2>1, <2>8 DEF ThroughWithError
  <2>10. ASSUME NEW i \in Iterations
         PROVE  i \in Over' <=> i \in Over
    <3>1. i \in Nat /\ i # NoTask
      BY NoTaskApart DEF Iterations
    <3> QED BY <2>1, <2>2, <2>5, <2>6, <3>1 DEF Over
  <2>11. Over' = Over
    BY <2>6, <2>10 DEF Over
  <2> QED BY <2>1, <2>8, <2>9, <2>11, CountsKept
<1>5. ASSUME NEW w \in Slots, Proceed(w)
      PROVE  CountInv' /\ WaitInv'
  <2>1. /\ UNCHANGED <<opts, serving, success, errs, failed, wg>> /\ Taken' = Taken
        /\ at[w].does \in Working
    BY <1>5, Proceeds DEF Taken
  <2>2. \A v \in Slots : at'[v].task = at[v].task
    BY <1>5, Proceeds DEF AtInv
  <2>3. Through' = Through /\ Over' = Over
    BY <2>1, <2>2 DEF Through, Over, Iterations, Tasks, Slots, MaxWorkers
  <2>4. ASSUME NEW t \in Through
        PROVE  lastErr'[t[1]][t[2]] = lastErr[t[1]][t[2]]
    <3>1. CASE UNCHANGED lastErr
      BY <3>1
    <3>2. ASSUME NEW error, lastErr' = [lastErr EXCEPT ![serving[w]][at[w].task] = error]
          PROVE  lastErr'[t[1]][t[2]] = lastErr[t[1]][t[2]]
      <4>1. t[1] \in Iterations /\ t[2] \in Tasks /\ t[2] \in Nat
            /\ (serving[w] = t[1] => t[2] < at[w].task)
        BY <2>4 DEF Through, Tasks
      <4>2. at[w].task \in Nat
        BY DEF AtInv, Places
      <4>3. ~(t[1] = serving[w] /\ t[2] = at[w].task)
        BY <4>1, <4>2
      <4> QED BY <3>2, <4>1, <4>3 DEF DataInv
    <3> QED BY <1>5, <3>1, <3>2 DEF Proceed, EvalArgs, ExecuteFails, Execute, Printed, tasks
  <2>5. ThroughWithError' = ThroughWithError
    BY <2>3, <2>4 DEF ThroughWithError
  <2> QED BY <2>1, <2>3, <2>5, CountsKept
<1>6. ASSUME NEW w \in Slots, Retry(w)
      PROVE  CountInv' /\ WaitInv'
  BY <1>1, <1>6 DEF Retry, main, Taken, counts
<1>7. ASSUME NEW w \in Slots, Completed(w)
      PROVE  CountInv' /\ WaitInv'
  <2> DEFINE i == serving[w]
             k == at[w].task
             ok == lastErr[i][k] = "none"
  <2>1. /\ UNCHANGED <<opts, serving, lastErr, wg>> /\ Taken' = Taken
        /\ at[w].does = "completed"
        /\ success' = success + (IF ok THEN 1 ELSE 0)
        /\ errs' = errs + (IF ok THEN 0 ELSE 1)
        /\ failed' = failed + (IF ok \/ opts.query THEN 0 ELSE 1)
    BY <1>7 DEF Completed, main, Taken, tasks
  <2>2. i \in Iterations /\ k \in Tasks /\ k \in Nat
    BY <2>1 DEF AtInv, SlotInv, Working, ServingInv, Places
  <2>3. at'[w].task = k + 1 /\ \A v \in Slots \ {w} : at'[v] = at[v]
    BY <1>7 DEF Completed, NextTask, GoTo, AtInv
  <2>4. i <= Taken /\ \A v \in Slots : serving[v] = i => v = w
    BY <2>2, NoTaskApart DEF ServingInv
  <2> HIDE DEF i, k
  <2>5. Iterations' = Iterations /\ Tasks' = Tasks /\ Slots' = Slots
    BY <2>1 DEF Iterations, Tasks, Slots, MaxWorkers
  <2>6. <<i, k>> \in Iterations \X Tasks /\ <<i, k>> \notin Through
    BY <2>2 DEF Through, i, k
  <2>7. ASSUME NEW t \in Iterations \X Tasks
        PROVE  t \in Through' <=> t \in Through \cup {<<i, k>>}
    <3>1. t = <<t[1], t[2]>> /\ t[2] \in Nat
      BY <2>7 DEF Tasks
    <3>2. CASE t[1] = i
      <4>1. t \in Through <=> t[2] < k
        BY <2>4, <3>2 DEF Through, i, k
      <4>2. t \in Through' <=> t[2] < k + 1
        BY <2>1, <2>3, <2>4, <2>5, <3>2 DEF Through, i
      <4> QED BY <2>2, <3>1, <3>2, <4>1, <4>2
    <3>3. CASE t[1] # i
      BY <2>1, <2>3, <2>5, <3>3 DEF Through, i
    <3> QED BY <3>2, <3>3
  <2>8. Through' = Through \cup {<<i, k>>}
    BY <2>5, <2>6, <2>7 DEF Through
  <2>9. Cardinality(Through') = Cardinality(Through) + 1
    BY <2>6, <2>8, FiniteCounts, FS_AddElement
  <2>10. ok => ThroughWithError' = ThroughWithError
    BY <2>1, <2>8 DEF ThroughWithError, i, k
  <2>11. ~ok => ThroughWithError' = ThroughWithError \cup {<<i, k>>}
    BY <2>1, <2>8 DEF ThroughWithError, i, k
  <2>12. ~ok => Cardinality(ThroughWithError') = Cardinality(ThroughWithError) + 1
    <3>1. <<i, k>> \notin ThroughWithError
      BY <2>6 DEF ThroughWithError
    <3> QED BY <2>11, <3>1, FiniteCounts, FS_AddElement
  <2>13. Over' = Over
    BY <2>1, <2>5 DEF Over
  <2>14. success \in Nat /\ errs \in Nat /\ failed \in Nat
    BY DEF CountInv
  <2>15. CountInv'
    <3>1. CASE ok
      <4>1. success' = success + 1 /\ errs' = errs /\ failed' = failed /\ opts' = opts
        BY <2>1, <2>14, <3>1
      <4> HIDE DEF ok
      <4> QED BY <2>9, <2>10, <3>1, <4>1 DEF CountInv
    <3>2. CASE ~ok
      <4>1. /\ success' = success /\ errs' = errs + 1 /\ opts' = opts
            /\ failed' = failed + (IF opts.query THEN 0 ELSE 1)
        BY <2>1, <2>14, <3>2
      <4> HIDE DEF ok
      <4>2. failed' = IF opts'.query THEN 0 ELSE errs'
        BY <4>1 DEF CountInv
      <4>3. /\ success' + errs' = Cardinality(Through') /\ errs' = Cardinality(ThroughWithError')
            /\ success' \in Nat /\ errs' \in Nat
        BY <2>9, <2>12, <3>2, <4>1 DEF CountInv
      <4> QED BY <4>2, <4>3 DEF CountInv
    <3> QED BY <3>1, <3>2
  <2> QED BY <2>1, <2>13, <2>15 DEF WaitInv
<1>8. ASSUME NEW w \in Slots, MultiDone(w)
      PROVE  CountInv' /\ WaitInv'
  <2> DEFINE i == serving[w]
  <2>1. /\ UNCHANGED <<opts, lastErr, success, errs, failed>> /\ Taken' = Taken
        /\ serving' = [serving EXCEPT ![w] = NoTask] /\ at' = [at EXCEPT ![w] = Idle]
        /\ at[w].does = "done" /\ wg' = wg - 1
    BY <1>8 DEF MultiDone, main, Taken, tasks, counts
  <2>2. i \in Iterations /\ at[w].task = Len(opts.args) + 1
    BY <2>1 DEF AtInv, SlotInv, ServingInv
  <2>3. /\ serving'[w] = NoTask
        /\ \A v \in Slots \ {w} : serving'[v] = serving[v] /\ at'[v] = at[v]
    BY <2>1 DEF ServingInv, AtInv
  <2>4. i <= Taken /\ \A v \in Slots : serving[v] = i => v = w
    BY <2>2, NoTaskApart DEF ServingInv
  <2>5. Iterations' = Iterations /\ Tasks' = Tasks /\ Slots' = Slots
    BY <2>1 DEF Iterations, Tasks, Slots, MaxWorkers
  <2>6. ASSUME NEW t \in Iterations \X Tasks
        PROVE  t \in Through' <=> t \in Through
    <3>1. t[1] # NoTask /\ t[2] < at[w].task
      BY <2>2, NoTaskApart, Options DEF Tasks
    <3> QED BY <2>1, <2>3, <2>5, <3>1 DEF Through
  <2>7. Through' = Through
    BY <2>5, <2>6 DEF Through
  <2>8. ThroughWithError' = ThroughWithError
    BY <2>1, <2>7 DEF ThroughWithError
  <2> HIDE DEF i
  <2>9. ASSUME NEW j \in Iterations
        PROVE  j \in Over' <=> j \in Over \cup {i}
    <3>1. j # NoTask
      BY NoTaskApart
    <3>2. CASE j = i
      BY <2>1, <2>3, <2>4, <2>5, <3>1, <3>2 DEF Over
    <3>3. CASE j # i
      BY <2>1, <2>3, <2>5, <3>1, <3>3 DEF Over, i
    <3> QED BY <3>2, <3>3
  <2>10. Over' = Over \cup {i} /\ i \notin Over
    <3>1. i \notin Over
      BY DEF Over, i
    <3> QED BY <2>2, <2>5, <2>9, <3>1 DEF Over
  <2>11. Cardinality(Over') = Cardinality(Over) + 1 /\ Cardinality(Over) \in Nat
    BY <2>10, FiniteCounts, FS_AddElement, FS_CardinalityType
  <2>12. WaitInv'
    BY <2>1, <2>11, Options DEF WaitInv
  <2>13. CountInv'
    BY <2>1, <2>7, <2>8 DEF CountInv
  <2> QED BY <2>12, <2>13
<1> QED BY <1>2, <1>3, <1>4, <1>5, <1>6, <1>7, <1>8, Cases

LEMMA InvInit == Init => TaskInv
<1> SUFFICES ASSUME Init
             PROVE  TaskInv
  OBVIOUS
<1>1. OptsInv
  BY InvokeAssumption DEF Init, OptsInv
<1>2. QueueInv
  BY DEF Init, QueueInv, Taken
<1>3. MainInv
  BY DEF Init, MainInv
<1>4. ServingInv
  BY DEF Init, ServingInv, Slots
<1>5. AtInv
  BY DEF Init, AtInv, SlotInv, Places, Idle, Working, Slots
<1>6. DataInv
  <2>1. 1 \in 1..(opts.attempts + 1)
    BY <1>1, Options
  <2> QED BY <2>1 DEF Init, DataInv
<1>7. Through = {} /\ ThroughWithError = {} /\ Over = {}
  <2>1. \A i \in Iterations : ~(i <= Taken)
    BY DEF Init, Taken, Iterations
  <2> QED BY <2>1 DEF Through, ThroughWithError, Over
<1>8. CountInv
  BY <1>1, <1>7, FS_EmptySet, Options DEF Init, CountInv
<1>9. WaitInv
  BY <1>1, <1>7, FS_EmptySet, Options DEF Init, WaitInv
<1> QED BY <1>1, <1>2, <1>3, <1>4, <1>5, <1>6, <1>8, <1>9 DEF TaskInv, Shape

LEMMA InvStep == TaskInv /\ [Next]_vars => TaskInv'
<1> SUFFICES ASSUME TaskInv, [Next]_vars
             PROVE  TaskInv'
  OBVIOUS
<1>1. CASE Next
  BY <1>1, OptsStep, QueueStep, MainInvStep, ServingStep, AtStep, DataStep, CountStep
     DEF TaskInv, Shape
<1>2. CASE UNCHANGED vars
  <2>1. Shape'
    BY <1>2, Zenon DEF vars, TaskInv, Shape, OptsInv, QueueInv, MainInv, ServingInv, AtInv, SlotInv,
                       DataInv, Taken, Iterations, Tasks, Slots, MaxWorkers, Verbose, Places, Working
  <2>2. Through' = Through /\ ThroughWithError' = ThroughWithError /\ Over' = Over
    BY <1>2, Zenon DEF vars, Through, ThroughWithError, Over, Taken, Iterations, Tasks, Slots,
                       MaxWorkers
  <2> QED BY <1>2, <2>1, <2>2, CountsKept DEF vars, TaskInv
<1> QED BY <1>1, <1>2

LEMMA Invariant == Spec => []TaskInv
BY InvInit, InvStep, PTL DEF Spec

-----------------------------------------------------------------------------
LEMMA InvIsTyped == TaskInv => TypeOK
<1> SUFFICES ASSUME TaskInv
             PROVE  TypeOK
  OBVIOUS
<1> USE DEF TaskInv, Shape
<1>1. ToSet(waiting) \subseteq Iterations
  <2>1. /\ waiting \in Seq(Nat) /\ Len(waiting) \in Nat /\ DOMAIN waiting = 1..Len(waiting)
        /\ submitted \in Nat /\ submitted <= opts.iterations
    BY Options DEF QueueInv
  <2>2. \A j \in 1..Len(waiting) : waiting[j] \in Iterations
    BY <2>1, Options DEF QueueInv, Taken, Iterations
  <2> QED BY <2>1, <2>2 DEF ToSet
<1>2. \A w \in 1..MaxWorkers : serving[w] \in Iterations \cup {NoTask}
  BY DEF ServingInv, Slots
<1>3. \A i \in Iterations, k \in Tasks : attempts[i][k] \in 1..(opts.attempts + 1)
  BY DEF DataInv
<1>4. {success, errs, failed} \subseteq 0..NumInvocations
  <2>1. Cardinality(Through) <= NumInvocations /\ NumInvocations \in Nat
    <3>1. Through \in SUBSET (Iterations \X Tasks)
      BY DEF Through
    <3> QED BY <3>1, FiniteCounts, FS_Subset, FS_CardinalityType
  <2> QED BY <2>1 DEF CountInv
<1>5. wg \in 0..opts.iterations
  <2>1. Over \in SUBSET Iterations
    BY DEF Over
  <2>2. Cardinality(Over) <= opts.iterations /\ Cardinality(Over) \in Nat
    BY <2>1, FiniteCounts, FS_Subset, FS_CardinalityType
  <2> QED BY <2>2, Options DEF WaitInv
<1> QED BY <1>1, <1>2, <1>3, <1>4, <1>5 DEF TypeOK, OptsInv, MainInv

LEMMA InvIsCounted == TaskInv => CountedOnce
<1> SUFFICES ASSUME TaskInv, pc \in {"report", "stop", "done"}
             PROVE  /\ success + errs = NumInvocations
                    /\ errs = Cardinality({t \in Iterations \X Tasks : lastErr[t[1]][t[2]] # "none"})
                    /\ ~opts.query => failed = errs
  BY DEF CountedOnce
<1> USE DEF TaskInv, Shape
<1>1. /\ \A w \in Slots : serving[w] \notin Iterations
      /\ \A i \in Iterations : i <= Taken
  BY AllOver DEF MainInv
<1>2. Through = Iterations \X Tasks
  BY <1>1 DEF Through
<1>3. success + errs = NumInvocations
  BY <1>2, FiniteCounts DEF CountInv
<1> QED BY <1>2, <1>3 DEF CountInv, ThroughWithError

(* When the command reports, wg is zero, hence every iteration is over and *)
(* every task is through: each has been counted exactly once, as what its  *)
(* last error says (invokecmd.go:180-196).                                 *)
THEOREM CommandReportsTrue == Spec => []ReportsTrue
<1>1. TaskInv => ReportsTrue
  BY InvIsTyped, InvIsCounted DEF ReportsTrue
<1> QED BY <1>1, Invariant, PTL

LEMMA InvPrintsAlone == TaskInv => PrintsAlone
<1> DEFINE Printing == {w \in Workers : at[w].does = "print"}
<1> SUFFICES ASSUME TaskInv, ~opts.verbose
             PROVE  Cardinality(Printing) <= 1
  BY DEF PrintsAlone
<1> USE DEF TaskInv, Shape
<1>1. ASSUME NEW w \in Printing
      PROVE  w \in Slots /\ serving[w] = 1
  <2>1. w \in Slots /\ at[w].does = "print"
    BY <1>1, WorkersAreSlots
  <2>2. opts.iterations = 1 /\ serving[w] # NoTask
    BY <2>1 DEF AtInv, SlotInv, Verbose
  <2> QED BY <2>1, <2>2 DEF ServingInv, Iterations
<1>2. \A v, w \in Printing : v = w
  <2>1. 1 # NoTask
    BY InvokeAssumption
  <2> QED BY <1>1, <2>1 DEF ServingInv
<1> HIDE DEF Printing
<1>3. CASE Printing = {}
  BY <1>3, FS_EmptySet
<1>4. ASSUME NEW w \in Printing
      PROVE  Cardinality(Printing) <= 1
  <2>1. Printing = {w}
    BY <1>2, <1>4
  <2>2. Cardinality({w}) = 1
    BY FS_Singleton
  <2> QED BY <2>1, <2>2
<1> QED BY <1>3, <1>4

(* The tasks share a printer without a lock, and print only with --verbose *)
(* or if there is a single iteration; an iteration is served by one worker *)
(* (invokecmd.go:135-136, invoketask.go:114).                              *)
THEOREM CommandPrintsAlone == Spec => []PrintsAlone
BY InvPrintsAlone, Invariant, PTL

=============================================================================
