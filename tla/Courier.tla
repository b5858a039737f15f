------------------------------ MODULE Courier ------------------------------
(***************************************************************************)
(* The courier as a whole while it is being stopped (courier/handler.go,   *)
(* cmd/courier/main.go): the goroutines of syncer, txmanager and HTTP      *)
(* server, and Handler.Stop, which ends them one part after the other.     *)
(* Each part is coarser here than in its own module (BlockSync, TxManager):*)
(* what is kept is who waits for whom, on which channel, and who uses the  *)
(* database.  A queue is a set, a block is one transaction.                *)
(*                                                                         *)
(* handed and refused are observations: the transactions processPreTxs has *)
(* taken, and those whose block Save refused.                              *)
(***************************************************************************)
EXTENDS Naturals, FiniteSets, Bags

CONSTANTS
  Txs,            \* transactions the syncer finds
  Requests,       \* posts of a receipt
  PendingCap, ExecutedCap

ASSUME CourierAssumption ==
  /\ PendingCap \in Nat \ {0} /\ ExecutedCap \in Nat \ {0}

VARIABLES
  stopPc,                           \* Handler.Stop
  panicked,
  syncStop, syncPc, syncTx,         \* the syncer's stopCh, syncBlock
  procPc, procTx,                   \* processPreTxs, in AddCrossTxs
  record,                           \* the database
  pending, pendingCh, sndPc, sndBatch, updates,
  conn, task,                       \* a connection, the goroutine of RecvMsg
  executed, executedCh, rcvPc, rcvBatch, commits,
  handed, refused

syncVars == <<syncStop, syncPc, syncTx>>
procVars == <<procPc, procTx, record, handed, refused>>
sndVars == <<pending, pendingCh, sndPc, sndBatch, updates>>
netVars == <<conn, task>>
rcvVars == <<executed, executedCh, rcvPc, rcvBatch, commits>>
stopVars == <<stopPc, panicked>>
vars == <<stopVars, syncVars, procVars, sndVars, netVars, rcvVars>>

NoTx == "no transaction"

TypeOK ==
  /\ stopPc \in {"no", "syncer", "server", "tasks", "txm", "database", "returned"}
  /\ panicked \in BOOLEAN /\ syncStop \in BOOLEAN
  /\ syncPc \in {"select", "send", "done"} /\ syncTx \in Txs \cup {NoTx}
  /\ procPc \in {"select", "parse", "parseErr", "nil", "push", "save", "addErr",
                 "size", "signal", "done"}
  /\ procTx \in Txs \cup {NoTx}
  /\ record \in [Txs -> {"Absent", "Init", "Pending"}] /\ handed \subseteq Txs
  /\ refused \subseteq Txs
  /\ pending \subseteq Txs /\ pendingCh \in 0..PendingCap
  /\ sndPc \in {"select", "drain", "send", "done"} /\ sndBatch \subseteq Txs
  /\ IsABag(updates) /\ BagToSet(updates) \subseteq SUBSET Txs
  /\ conn \in [Requests -> {"no", "serve", "answer", "over"}]
  /\ task \in [Requests -> {"no", "push", "signal", "over"}]
  /\ executed \subseteq Requests /\ executedCh \in 0..ExecutedCap
  /\ rcvPc \in {"select", "drain", "update", "done"} /\ rcvBatch \subseteq Requests
  /\ IsABag(commits) /\ BagToSet(commits) \subseteq SUBSET Requests

(* After Handler.Start: reload has queued nothing and sent its token.      *)
Init ==
  /\ stopPc = "no" /\ panicked = FALSE
  /\ syncStop = FALSE /\ syncPc = "select" /\ syncTx = NoTx
  /\ procPc = "select" /\ procTx = NoTx
  /\ record = [x \in Txs |-> "Absent"]
  /\ pending = {} /\ pendingCh = 1
  /\ sndPc = "select" /\ sndBatch = {} /\ updates = EmptyBag
  /\ conn = [q \in Requests |-> "no"] /\ task = [q \in Requests |-> "no"]
  /\ executed = {} /\ executedCh = 0
  /\ rcvPc = "select" /\ rcvBatch = {} /\ commits = EmptyBag
  /\ handed = {} /\ refused = {}

-----------------------------------------------------------------------------
(* Handler.Stop: each part is told to stop and waited for, in this order.  *)
Stage(from, to) ==
  /\ ~panicked /\ stopPc = from /\ stopPc' = to
  /\ UNCHANGED <<panicked, procVars, sndVars, netVars, rcvVars>>

Stop == Stage("no", "syncer") /\ syncStop' = TRUE /\ UNCHANGED <<syncPc, syncTx>>

(* Mutant: the syncer is not waited for.                                   *)
SyncerNotAwaited == Stage("syncer", "server") /\ UNCHANGED syncVars

SyncerStopped ==
  syncPc = "done" /\ procPc = "done" /\ Stage("syncer", "server") /\ UNCHANGED syncVars

Serving(q) == conn[q] \in {"serve", "answer"}

(* Shutdown closes the listener; with a request being served it would wait *)
(* on its context, which is nil, and panics.                               *)
ServerStopped ==
  \/ /\ \A q \in Requests : ~Serving(q)
     /\ Stage("server", "tasks") /\ UNCHANGED syncVars
  \/ /\ ~panicked /\ stopPc = "server" /\ \E q \in Requests : Serving(q)
     /\ panicked' = TRUE
     /\ UNCHANGED <<stopPc, syncVars, procVars, sndVars, netVars, rcvVars>>

(* h.stopCh is closed, and taskWg waited for.                              *)
TasksStopping == stopPc \in {"tasks", "txm", "database", "returned"}

TasksDone ==
  /\ \A q \in Requests : task[q] \in {"no", "over"}
  /\ Stage("tasks", "txm") /\ UNCHANGED syncVars

(* Mutant: the txmanager is told to stop first.                            *)
TxmStoppingFirst == stopPc # "no"

TxmStopping == stopPc \in {"txm", "database", "returned"}

(* wg.Wait, which a commit goroutine has left when it begins.              *)
TxmStopped ==
  sndPc = "done" /\ rcvPc = "done" /\ Stage("txm", "database") /\ UNCHANGED syncVars

CloseDB == Stage("database", "returned") /\ UNCHANGED syncVars

DbOpen == stopPc # "returned"

-----------------------------------------------------------------------------
(* The syncer.  An error other than the two it recovers from has it stop   *)
(* itself, and the courier goes on without it.                             *)
FindTx(x) ==
  /\ ~panicked /\ syncPc = "select" /\ x \notin handed
  /\ syncTx' = x
  /\ syncPc' = "send"
  /\ UNCHANGED <<stopVars, syncStop, procVars, sndVars, netVars, rcvVars>>

SyncFails ==
  /\ ~panicked /\ syncPc = "select"
  /\ syncStop' = TRUE
  /\ UNCHANGED <<stopVars, syncPc, syncTx, procVars, sndVars, netVars,
                 rcvVars>>

SyncDone ==
  /\ ~panicked /\ syncPc = "select" /\ syncStop
  /\ syncPc' = "done"
  /\ UNCHANGED <<stopVars, syncStop, syncTx, procVars, sndVars, netVars,
                 rcvVars>>

SendPreTxs ==
  /\ ~panicked /\ syncPc = "send" /\ procPc = "select"
  /\ procTx' = syncTx /\ handed' = handed \cup {syncTx}
  /\ procPc' = "parse"
  /\ syncTx' = NoTx /\ syncPc' = "select"
  /\ UNCHANGED <<stopVars, syncStop, record, refused, sndVars, netVars, rcvVars>>

(* processPreTxs.  An error is sent to syncBlock, which then stops the     *)
(* syncer; what was parsed before it goes on to AddCrossTxs all the same,  *)
(* and a block of which nothing was parsed panics there on a nil entry.    *)
Parse ==
  /\ ~panicked /\ procPc = "parse"
  /\ procPc' \in {"push", "parseErr"}
  /\ UNCHANGED <<stopVars, syncVars, procTx, record, handed, refused, sndVars, netVars,
                 rcvVars>>

AtErrCh == procPc \in {"parseErr", "addErr"}

SendErr ==
  /\ ~panicked /\ AtErrCh /\ syncPc = "select"
  /\ syncStop' = TRUE
  /\ procPc' \in (IF procPc = "parseErr" THEN {"push", "nil"} ELSE {"select"})
  /\ UNCHANGED <<stopVars, syncPc, syncTx, procTx, record, handed, refused, sndVars,
                 netVars, rcvVars>>

NilEntry ==
  /\ ~panicked /\ procPc = "nil"
  /\ panicked' = TRUE
  /\ UNCHANGED <<stopPc, syncVars, procVars, sndVars, netVars, rcvVars>>

AddPush ==
  /\ ~panicked /\ procPc = "push"
  /\ pending' = pending \cup {procTx}
  /\ procPc' = "save"
  /\ UNCHANGED <<stopVars, syncVars, procTx, record, handed, refused, pendingCh, sndPc,
                 sndBatch, updates, netVars, rcvVars>>

AddSave ==
  /\ ~panicked /\ procPc = "save"
  /\ \/ /\ record' = [record EXCEPT ![procTx] = "Init"]
        /\ procPc' = "size"
        /\ UNCHANGED refused
     \/ /\ refused' = refused \cup {procTx}
        /\ procPc' = "addErr"
        /\ UNCHANGED record
  /\ UNCHANGED <<stopVars, syncVars, procTx, handed, sndVars, netVars,
                 rcvVars>>

AddSize ==
  /\ ~panicked /\ procPc = "size"
  /\ procPc' = IF pending # {} THEN "signal" ELSE "select"
  /\ UNCHANGED <<stopVars, syncVars, procTx, record, handed, refused, sndVars, netVars,
                 rcvVars>>

AddSignal ==
  /\ ~panicked /\ procPc = "signal" /\ pendingCh < PendingCap
  /\ pendingCh' = pendingCh + 1
  /\ procPc' = "select"
  /\ UNCHANGED <<stopVars, syncVars, procTx, record, handed, refused, pending, sndPc,
                 sndBatch, updates, netVars, rcvVars>>

ProcDone ==
  /\ ~panicked /\ procPc = "select" /\ syncStop
  /\ procPc' = "done"
  /\ UNCHANGED <<stopVars, syncVars, procTx, record, handed, refused, sndVars, netVars,
                 rcvVars>>

-----------------------------------------------------------------------------
(* ProcessCrossTxs.  An update is spawned for an empty batch too.          *)
SndWake ==
  /\ ~panicked /\ sndPc = "select" /\ pendingCh > 0
  /\ pendingCh' = pendingCh - 1
  /\ sndPc' = "drain"
  /\ UNCHANGED <<stopVars, syncVars, procVars, pending, sndBatch, updates,
                 netVars, rcvVars>>

SndDrain ==
  /\ ~panicked /\ sndPc = "drain"
  /\ sndBatch' = pending /\ pending' = {}
  /\ sndPc' = "send"
  /\ UNCHANGED <<stopVars, syncVars, procVars, pendingCh, updates, netVars,
                 rcvVars>>

SndSend ==
  /\ ~panicked /\ sndPc = "send"
  /\ \E ok \in SUBSET sndBatch :
       /\ pending' = pending \cup (sndBatch \ ok)
       /\ updates' = updates (+) SetToBag({ok})
  /\ sndBatch' = {}
  /\ sndPc' = "select"
  /\ UNCHANGED <<stopVars, syncVars, procVars, pendingCh, netVars, rcvVars>>

SndDone ==
  /\ ~panicked /\ sndPc = "select" /\ TxmStopping
  /\ sndPc' = "done"
  /\ UNCHANGED <<stopVars, syncVars, procVars, pending, pendingCh, sndBatch,
                 updates, netVars, rcvVars>>

(* Its anonymous goroutine, which nobody waits for, panics on an error:    *)
(* the closed database, or a record that is not there yet.                 *)
Update(b) ==
  /\ ~panicked /\ BagIn(b, updates)
  /\ updates' = updates (-) SetToBag({b})
  /\ IF DbOpen /\ \A x \in b : record[x] # "Absent"
       THEN /\ record' = [x \in Txs |-> IF x \in b THEN "Pending" ELSE record[x]]
            /\ UNCHANGED panicked
       ELSE panicked' = TRUE /\ UNCHANGED record
  /\ UNCHANGED <<stopPc, syncVars, procPc, procTx, handed, refused, pending, pendingCh,
                 sndPc, sndBatch, netVars, rcvVars>>

-----------------------------------------------------------------------------
(* The HTTP server, until Shutdown; ServeHTTP and the goroutine of RecvMsg.*)
Accept(q) ==
  /\ ~panicked /\ ~TasksStopping /\ conn[q] = "no"
  /\ conn' = [conn EXCEPT ![q] = "serve"]
  /\ UNCHANGED <<stopVars, syncVars, procVars, sndVars, task, rcvVars>>

ServeHTTP(q) ==
  /\ ~panicked /\ conn[q] = "serve"
  /\ conn' = [conn EXCEPT ![q] = "answer"]
  /\ task' = [task EXCEPT ![q] = "push"]
  /\ UNCHANGED <<stopVars, syncVars, procVars, sndVars, rcvVars>>

Answer(q) ==
  /\ ~panicked /\ conn[q] = "answer"
  /\ conn' = [conn EXCEPT ![q] = "over"]
  /\ UNCHANGED <<stopVars, syncVars, procVars, sndVars, task, rcvVars>>

RecvPush(q) ==
  /\ ~panicked /\ task[q] = "push"
  /\ executed' = executed \cup {q}
  /\ task' = [task EXCEPT ![q] = "signal"]
  /\ UNCHANGED <<stopVars, syncVars, procVars, sndVars, conn, executedCh,
                 rcvPc, rcvBatch, commits>>

RecvSignal(q) ==
  /\ ~panicked /\ task[q] = "signal"
  /\ \/ executedCh < ExecutedCap /\ executedCh' = executedCh + 1
     \/ TasksStopping /\ UNCHANGED executedCh
  /\ task' = [task EXCEPT ![q] = "over"]
  /\ UNCHANGED <<stopVars, syncVars, procVars, sndVars, conn, executed, rcvPc,
                 rcvBatch, commits>>

-----------------------------------------------------------------------------
(* ProcessCrossTxReceipts.  A batch is recorded, discarded or put back.    *)
RcvWake ==
  /\ ~panicked /\ rcvPc = "select" /\ executedCh > 0
  /\ executedCh' = executedCh - 1
  /\ rcvPc' = "drain"
  /\ UNCHANGED <<stopVars, syncVars, procVars, sndVars, netVars, executed,
                 rcvBatch, commits>>

RcvDrain ==
  /\ ~panicked /\ rcvPc = "drain"
  /\ rcvBatch' = executed /\ executed' = {}
  /\ rcvPc' = "update"
  /\ UNCHANGED <<stopVars, syncVars, procVars, sndVars, netVars, executedCh,
                 commits>>

RcvUpdate ==
  /\ ~panicked /\ rcvPc = "update"
  /\ \/ commits' = commits (+) SetToBag({rcvBatch}) /\ UNCHANGED executed
     \/ UNCHANGED <<commits, executed>>
     \/ executed' = executed \cup rcvBatch /\ UNCHANGED commits
  /\ rcvBatch' = {}
  /\ rcvPc' = "select"
  /\ UNCHANGED <<stopVars, syncVars, procVars, sndVars, netVars, executedCh>>

RcvDone ==
  /\ ~panicked /\ rcvPc = "select" /\ TxmStopping
  /\ rcvPc' = "done"
  /\ UNCHANGED <<stopVars, syncVars, procVars, sndVars, netVars, executed,
                 executedCh, rcvBatch, commits>>

(* The goroutine of a batch that was recorded, which nobody waits for;     *)
(* each receipt is pushed back whether its commit succeeds or not.         *)
CommitNext(b) ==
  /\ ~panicked /\ BagIn(b, commits)
  /\ IF b = {}
       THEN commits' = commits (-) SetToBag({b}) /\ UNCHANGED executed
       ELSE \E q \in b : /\ executed' = executed \cup {q}
                         /\ commits' = (commits (-) SetToBag({b})) (+) SetToBag({b \ {q}})
  /\ UNCHANGED <<stopVars, syncVars, procVars, sndVars, netVars, executedCh,
                 rcvPc, rcvBatch>>

-----------------------------------------------------------------------------
Handler == SyncerStopped \/ ServerStopped \/ TasksDone \/ TxmStopped \/ CloseDB

Sync == (\E x \in Txs : FindTx(x)) \/ SyncFails \/ SyncDone

Proc == Parse \/ NilEntry \/ AddPush \/ AddSave \/ AddSize \/ AddSignal \/ ProcDone

Snd == SndWake \/ SndDrain \/ SndSend \/ SndDone

Serve(q) == ServeHTTP(q) \/ Answer(q)

Recv(q) == RecvPush(q) \/ RecvSignal(q)

Rcv == RcvWake \/ RcvDrain \/ RcvUpdate \/ RcvDone

Next ==
  \/ Stop \/ Handler
  \/ Sync \/ SendPreTxs \/ SendErr \/ Proc
  \/ Snd \/ \E b \in BagToSet(updates) : Update(b)
  \/ \E q \in Requests : Accept(q) \/ Serve(q) \/ Recv(q)
  \/ Rcv \/ \E b \in BagToSet(commits) : CommitNext(b)

Spec == Init /\ [][Next]_vars

(* Goroutines are scheduled and a rendezvous both sides wait for happens.  *)
(* Blocks, requests and the order to stop need not come.                   *)
Fairness ==
  /\ WF_vars(Handler) /\ WF_vars(SyncDone) /\ WF_vars(SendPreTxs)
  /\ WF_vars(SendErr) /\ WF_vars(Proc)
  /\ WF_vars(Snd) /\ WF_vars(Rcv)
  /\ \A q \in Requests : WF_vars(Serve(q)) /\ WF_vars(Recv(q))

LiveSpec == Spec /\ Fairness

-----------------------------------------------------------------------------
(* Once taskWg was waited for, no receipt goroutine runs: none is started  *)
(* behind the back of Wait, and none waits for a loop that has ended       *)
(* (handler.go:59-65, 100, 108-112).                                       *)
TasksOver == TxmStopping => \A q \in Requests : task[q] \in {"no", "over"}

(* Nobody that Stop waits for meets the closed database: not the syncer    *)
(* with its number, not AddCrossTxs, not the receipt loop                  *)
(* (handler.go:59-67, txmanager.go:97-98).                                 *)
LoopsOverDb ==
  ~DbOpen => {syncPc, procPc, sndPc, rcvPc} = {"done"}

(* A transaction the syncer handed over is in the database when Stop has   *)
(* returned, unless Save refused it with an error: the syncer, whose       *)
(* number is past it, would not find it again (syncer.go:78, 129-131).     *)
HandedSaved ==
  stopPc = "returned" => \A x \in handed \ refused : record[x] # "Absent"

(* What Stop has waited for at each of its stages is over, in the order in *)
(* which its parts depend on each other (handler.go:58-68).                *)
StopInOrder == TypeOK /\ TasksOver /\ LoopsOverDb /\ HandedSaved

(* The two goroutines of the syncer meet on two unbuffered channels and    *)
(* neither looks at stopCh while it sends: one of them sends what the      *)
(* other, which is sending itself or has ended, will never receive.        *)
SyncerBlocked ==
  \/ syncPc = "send" /\ (procPc = "done" \/ AtErrCh)
  \/ AtErrCh /\ syncPc = "done"

(* Stop returns: AddCrossTxs at a full channel is let go by the sender and *)
(* receipt goroutines by stopCh.  Excepted are a panic, and the blockades  *)
(* of the syncer at `preTxsCh <-` and `errCh <-`, which are for good       *)
(* (handler.go:58-68, syncer.go:129, 162, 186).                            *)
StopReturns == (stopPc = "syncer") ~> (stopPc = "returned" \/ panicked \/ SyncerBlocked)

=============================================================================
