---------------------------- MODULE InvokeTasks ----------------------------
(***************************************************************************)
(* "chaincode invoke" and "chaincode query" of fabric-cli                  *)
(* (fabric-cli/chaincode/invokecmd.go, querycmd.go, invoketask, querytask, *)
(* multitask): one multi-task per iteration is given to an executor, its   *)
(* tasks run one after the other on a worker, and the command waits,       *)
(* counts and reports.  The executor is what TaskQueue promises of it.     *)
(***************************************************************************)
EXTENDS Args, FiniteSets

CONSTANTS
  Commands,     \* the sets of options and arguments a command is given
  Width,        \* uint16, the type of Concurrency(), counts modulo Width
  NoTask

(* iterations is how often the loop over --iterations runs: not at all for *)
(* a negative number.                                                      *)
ASSUME InvokeAssumption ==
  /\ Width \in Nat \ {0} /\ NoTask \notin Nat
  /\ \A c \in Commands :
       /\ c.query \in BOOLEAN /\ c.verbose \in BOOLEAN
       /\ c.concurrency \in Nat /\ c.iterations \in Nat /\ c.attempts \in Nat
       /\ c.args \in Seq(Seq(STRING))

VARIABLES
  opts,      \* [query, verbose, concurrency, iterations, attempts, args, files]
  pc,        \* the goroutine of the command
  submitted, \* iterations submitted
  waiting,   \* iterations on the executor's channel
  serving,   \* the iteration of each worker
  at,        \* where each worker is: task number, and what it does next
  seq,       \* utils.sequence
  ctxt,      \* the variables of each iteration
  sent,      \* the argument each task was executed with
  attempts,  \* Task.attempt
  lastErr,   \* Task.lastErr
  success, errs, failed,   \* counters: success, len(errs), len(failDurations)
  wg, ticker

vars == <<opts, pc, submitted, waiting, serving, at, seq, ctxt, sent, attempts, lastErr,
          success, errs, failed, wg, ticker>>
main == <<opts, pc, submitted>>
counts == <<success, errs, failed>>
tasks == <<seq, ctxt, sent, attempts, lastErr>>

-----------------------------------------------------------------------------
MaxWorkers == Width - 1
Workers == 1..(opts.concurrency % Width)
Tasks == 1..Len(opts.args)
Iterations == 1..opts.iterations
NumInvocations == opts.iterations * Len(opts.args)
(* Mutant: the responses are always printed.                               *)
VerboseAlways == TRUE

Verbose == opts.verbose \/ opts.iterations = 1

Idle == [task |-> 0, does |-> "idle"]

Init ==
  /\ opts \in Commands
  /\ pc = "submit" /\ submitted = 0 /\ waiting = <<>>
  /\ serving = [w \in 1..MaxWorkers |-> NoTask] /\ at = [w \in 1..MaxWorkers |-> Idle]
  /\ seq = 0 /\ ctxt = [i \in Iterations |-> <<>>]
  /\ sent = [i \in Iterations |-> [k \in Tasks |-> <<>>]]
  /\ attempts = [i \in Iterations |-> [k \in Tasks |-> 1]]
  /\ lastErr = [i \in Iterations |-> [k \in Tasks |-> "none"]]
  /\ success = 0 /\ errs = 0 /\ failed = 0
  /\ wg = opts.iterations /\ ticker = "running"

Up == pc # "crashed"

-----------------------------------------------------------------------------
(* The goroutine of the command.                                           *)

Submit ==
  /\ pc = "submit" /\ submitted < opts.iterations
  /\ submitted' = submitted + 1
  /\ waiting' = Append(waiting, submitted + 1)
  /\ UNCHANGED <<opts, pc, serving, at, tasks, counts, wg, ticker>>

Submitted ==
  /\ pc = "submit" /\ submitted = opts.iterations
  /\ pc' = "wait"
  /\ UNCHANGED <<opts, submitted, waiting, serving, at, tasks, counts, wg, ticker>>

(* Mutant: the command waits for the channel to be empty.                  *)
WaitOverEmpty ==
  /\ pc = "wait" /\ waiting = <<>> /\ ticker = "running"
  /\ pc' = "report" /\ ticker' = "stopped"
  /\ UNCHANGED <<opts, submitted, waiting, serving, at, tasks, counts, wg>>

(* wg.Wait, and then done <- true, which the ticker's goroutine receives.  *)
WaitOver ==
  /\ pc = "wait" /\ wg = 0 /\ ticker = "running"
  /\ pc' = "report" /\ ticker' = "stopped"
  /\ UNCHANGED <<opts, submitted, waiting, serving, at, tasks, counts, wg>>

(* The summary divides by the number of argument lists.                    *)
Report ==
  /\ pc = "report"
  /\ pc' = IF Len(opts.args) = 0 THEN "crashed" ELSE "stop"
  /\ UNCHANGED <<opts, submitted, waiting, serving, at, tasks, counts, wg, ticker>>

(* The deferred executor.Stop(true).                                       *)
Stop ==
  /\ pc = "stop" /\ waiting = <<>> /\ \A w \in Workers : at[w] = Idle
  /\ pc' = "done"
  /\ UNCHANGED <<opts, submitted, waiting, serving, at, tasks, counts, wg, ticker>>

(* The ticker's goroutine prints the counters under the read lock.         *)
Tick ==
  /\ ticker = "running" /\ Up
  /\ ticker' = "printing"
  /\ UNCHANGED <<main, waiting, serving, at, tasks, counts, wg>>

TickPrinted ==
  /\ ticker = "printing" /\ Up
  /\ ticker' = "running"
  /\ UNCHANGED <<main, waiting, serving, at, tasks, counts, wg>>

-----------------------------------------------------------------------------
(* A worker with the multi-task of an iteration.                           *)

GoTo(w, k, step) == at' = [at EXCEPT ![w] = [task |-> k, does |-> step]]
NextTask(w, k) == GoTo(w, k + 1, IF k < Len(opts.args) THEN "args" ELSE "done")

Begin(w) ==
  /\ Up /\ waiting # <<>> /\ serving[w] = NoTask
  /\ serving' = [serving EXCEPT ![w] = Head(waiting)]
  /\ waiting' = Tail(waiting)
  /\ NextTask(w, 0)
  /\ UNCHANGED <<main, tasks, counts, wg, ticker>>

(* Mutant: every task counts from the beginning.                          *)
EnvironmentFresh(i, random) ==
  [seq |-> 0, vars |-> ctxt[i], files |-> opts.files, random |-> random, panic |-> FALSE]

Environment(i, random) ==
  [seq |-> seq, vars |-> ctxt[i], files |-> opts.files, random |-> random, panic |-> FALSE]

SetVars(i, v) == [ctxt EXCEPT ![i] = v]

(* startedCB and AsBytes.                                                  *)
EvalArgs(w) ==
  /\ Up /\ at[w].does = "args"
  /\ \E random \in 0..1 :
       LET i == serving[w]
           k == at[w].task
       IN  \E r \in {GetArg(Environment(i, random), opts.args[k])} :
             /\ seq' = r.env.seq /\ ctxt' = SetVars(i, r.env.vars)
             /\ sent' = [sent EXCEPT ![i][k] = r.text]
             /\ pc' = IF r.env.panic THEN "crashed" ELSE pc
             /\ GoTo(w, k, "execute")
  /\ UNCHANGED <<opts, submitted, waiting, serving, attempts, lastErr, counts, wg, ticker>>

(* channelClient.Execute or InvokeHandler fails in a way that is retried:  *)
(* BeforeRetry counts the attempt.                                         *)
Retry(w) ==
  /\ Up /\ at[w].does = "execute"
  /\ attempts[serving[w]][at[w].task] <= opts.attempts
  /\ attempts' = [attempts EXCEPT ![serving[w]][at[w].task] = @ + 1]
  /\ UNCHANGED <<main, waiting, serving, at, seq, ctxt, sent, lastErr, counts, wg, ticker>>

(* It fails for good: there is nothing to print.                           *)
ExecuteFails(w) ==
  /\ Up /\ at[w].does = "execute"
  /\ lastErr' = [lastErr EXCEPT ![serving[w]][at[w].task] = "transient"]
  /\ GoTo(w, at[w].task, "completed")
  /\ UNCHANGED <<main, waiting, serving, seq, ctxt, sent, attempts, counts, wg, ticker>>

(* It answers; the validation code of an invocation makes an error of it.  *)
Execute(w) ==
  /\ Up /\ at[w].does = "execute"
  /\ \E error \in IF opts.query THEN {"none"} ELSE {"none", "transient", "persistent"} :
       lastErr' = [lastErr EXCEPT ![serving[w]][at[w].task] = error]
  /\ GoTo(w, at[w].task, IF Verbose THEN "print" ELSE "completed")
  /\ UNCHANGED <<main, waiting, serving, seq, ctxt, sent, attempts, counts, wg, ticker>>

Printed(w) ==
  /\ Up /\ at[w].does = "print"
  /\ GoTo(w, at[w].task, "completed")
  /\ UNCHANGED <<main, waiting, serving, tasks, counts, wg, ticker>>

(* completedCB, under the mutex the ticker reads under.                    *)
Completed(w) ==
  /\ Up /\ at[w].does = "completed" /\ ticker # "printing"
  /\ LET ok == lastErr[serving[w]][at[w].task] = "none" IN
       /\ success' = success + (IF ok THEN 1 ELSE 0)
       /\ errs' = errs + (IF ok THEN 0 ELSE 1)
       /\ failed' = failed + (IF ok \/ opts.query THEN 0 ELSE 1)
  /\ NextTask(w, at[w].task)
  /\ UNCHANGED <<main, waiting, serving, tasks, wg, ticker>>

(* Mutant: an iteration that ends with a failed task is not counted down.  *)
MultiDoneOnSuccess(w) ==
  /\ Up /\ at[w].does = "done"
  /\ wg' = wg - (IF \E k \in Tasks : lastErr[serving[w]][k] # "none" THEN 0 ELSE 1)
  /\ serving' = [serving EXCEPT ![w] = NoTask] /\ at' = [at EXCEPT ![w] = Idle]
  /\ UNCHANGED <<main, waiting, tasks, counts, ticker>>

(* The deferred completedCB of the multi-task, wg.Done.                    *)
MultiDone(w) ==
  /\ Up /\ at[w].does = "done"
  /\ wg' = wg - 1
  /\ serving' = [serving EXCEPT ![w] = NoTask] /\ at' = [at EXCEPT ![w] = Idle]
  /\ UNCHANGED <<main, waiting, tasks, counts, ticker>>

Command == Submit \/ Submitted \/ Report \/ Stop
Worker(w) == Begin(w) \/ EvalArgs(w) \/ Retry(w) \/ ExecuteFails(w) \/ Execute(w) \/ Printed(w)
               \/ MultiDone(w)

Next ==
  \/ Command \/ WaitOver \/ Tick \/ TickPrinted
  \/ \E w \in Workers : Worker(w) \/ Completed(w)

(* The mutex goes to a waiting writer in the end, and a select that can    *)
(* receive done does so in the end: strong fairness of these two.          *)
Fairness ==
  /\ WF_vars(Command) /\ WF_vars(TickPrinted) /\ SF_vars(WaitOver)
  /\ \A w \in 1..MaxWorkers : WF_vars(w \in Workers /\ Worker(w)) /\ SF_vars(w \in Workers /\ Completed(w))

Spec == Init /\ [][Next]_vars /\ Fairness

-----------------------------------------------------------------------------
TypeOK ==
  /\ opts \in Commands /\ pc \in {"submit", "wait", "report", "stop", "done", "crashed"}
  /\ submitted \in 0..opts.iterations /\ ToSet(waiting) \subseteq Iterations
  /\ \A w \in 1..MaxWorkers : serving[w] \in Iterations \cup {NoTask}
  /\ \A i \in Iterations, k \in Tasks : attempts[i][k] \in 1..(opts.attempts + 1)
  /\ {success, errs, failed} \subseteq 0..NumInvocations /\ wg \in 0..opts.iterations
  /\ ticker \in {"running", "printing", "stopped"}

(* When the command reports, every task of every iteration has been counted *)
(* exactly once, as a success or as an error, and an error is what the task *)
(* itself keeps as its last error; failed invocations have a duration.     *)
CountedOnce == pc \in {"report", "stop", "done"} =>
  /\ success + errs = NumInvocations
  /\ errs = Cardinality({t \in Iterations \X Tasks : lastErr[t[1]][t[2]] # "none"})
  /\ ~opts.query => failed = errs

(* No two tasks whose argument has a $seq() are executed with the same      *)
(* argument, whatever the workers interleave (util.go:84), unless what the *)
(* $seq() was replaced by is lost (util.go:178).                           *)
Numbered == {t \in Iterations \X Tasks :
  LET arg == opts.args[t[2]] IN sent[t[1]][t[2]] # <<>> /\ "$seq(" \in ToSet(arg) /\ ~LosesText(arg)}
SeqDistinct == \A s, t \in Numbered : sent[s[1]][s[2]] = sent[t[1]][t[2]] => s = t

(* ${x} in a later task of an iteration is what an earlier one of the same *)
(* iteration has $set, however many iterations run at once (README.md of   *)
(* fabric-cli, line 344; here both tasks consist of just that).            *)
SetSeenByIteration == \A i \in Iterations, k, l \in Tasks :
  /\ k < l /\ sent[i][l] # <<>> /\ Len(opts.args[k]) > 3 /\ opts.args[k][1] = "$set("
  /\ opts.args[l] = <<"${", opts.args[k][2], "}">>
  => sent[i][l] = sent[i][k]

(* What is not part of an expression is sent as it was written, in order,  *)
(* unless an expression that is not closed follows one that is             *)
(* (util.go:178).                                                          *)
Literals(text) == SelectSeq(text, LAMBDA t : t \in {"key", "val"})
LiteralsKept == \A i \in Iterations, k \in Tasks :
  sent[i][k] # <<>> /\ ~LosesText(opts.args[k]) => Literals(sent[i][k]) = Literals(opts.args[k])

(* The tasks share one printer, which has no lock: without --verbose no two *)
(* of them print at once, with any concurrency.                            *)
PrintsAlone == ~opts.verbose => Cardinality({w \in Workers : at[w].does = "print"}) <= 1

(* The command panics for two reasons only: an empty array of arguments    *)
(* (invokecmd.go:219) and a random number below zero (util.go:99).         *)
PanicsOnly == pc = "crashed" => opts.args = <<>> \/ \E k \in Tasks : "$rand(" \in ToSet(opts.args[k])

(* What a command reports is what became of its tasks (invokecmd.go:196).  *)
ReportsTrue == TypeOK /\ CountedOnce

(* What is sent is what the arguments say, though tasks of all iterations  *)
(* are evaluated at once, and a command panics for no other argument than  *)
(* those (util.go:54-235).                                                 *)
ArgsMeant == SeqDistinct /\ SetSeenByIteration /\ LiteralsKept /\ PanicsOnly

(* The command ends, and with it the goroutine of its ticker, unless the   *)
(* concurrency is zero as a uint16: then nobody takes its tasks.           *)
Finishes == (Workers # {} \/ opts.iterations = 0) ~> ((pc = "done" /\ ticker = "stopped") \/ pc = "crashed")

=============================================================================
