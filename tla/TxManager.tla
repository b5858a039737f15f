----------------------------- MODULE TxManager -----------------------------
(***************************************************************************)
(* The courier's transaction manager (courier/txmanager.go) with the       *)
(* receipt endpoint (courier/handler.go) and the database it works on.     *)
(*                                                                         *)
(* Goroutines and their program counters:                                  *)
(*   add    AddCrossTxs, called by the block syncer, one call at a time    *)
(*   snd    ProcessCrossTxs                                                *)
(*   (bag)  updates: the anonymous goroutines of ProcessCrossTxs           *)
(*   (bag)  posting, signalers: the goroutines of RecvMsg                  *)
(*   rcv    ProcessCrossTxReceipts                                         *)
(*   cmt[s] the anonymous commit goroutines of ProcessCrossTxReceipts      *)
(* db is durable; every other variable but the observations is volatile.   *)
(* fresh, sent, posted, calls, finished, discarded, panics and torn are    *)
(* observations: what the outside world has seen, or a note for a          *)
(* property.  finished is also the state of the Fabric ledger.             *)
(***************************************************************************)
EXTENDS Store, Prque, Integers

CONSTANTS
  CrossIDs,       \* every cross ID a message may name
  Txs,            \* those precommitted on the Fabric ledger
  Values,         \* receipt texts
  Receipts,       \* the receipts that may be posted: [id, val, seq]
  TimeStamp,      \* block time of each transaction
  Slots,          \* bound: commit goroutines alive at once
  PendingCap,     \* capacity of pending.process
  ExecutedCap,    \* capacity of executed.process
  MaxPosts,       \* bound: receipts posted
  MaxRestarts,    \* bound: kills of the process
  MarshalMayFail, SendMayFail, StoreMayFail, FabricMayFail

ASSUME IDsAssumption == Txs \subseteq CrossIDs /\ TimeStamp \in [CrossIDs -> Int]

ASSUME ReceiptsAssumption ==
  /\ Receipts \subseteq [id : CrossIDs, val : Values, seq : Int]
  /\ NoReceipt \notin Values

ASSUME CapsAssumption ==
  /\ PendingCap \in Nat /\ PendingCap > 0
  /\ ExecutedCap \in Nat /\ ExecutedCap > 0

ASSUME BoundsAssumption == MaxPosts \in Nat /\ MaxRestarts \in Nat

ASSUME FailuresAssumption ==
  {MarshalMayFail, SendMayFail, StoreMayFail, FabricMayFail} \subseteq BOOLEAN

VARIABLES
  db,                               \* the database
  up, restarts, panics,             \* the process
  seen,                             \* position in each id's event stream
  fresh,                            \* the precommits this process has taken on
  addPc, addTxs,
  pendingPrq, pendingCh,
  sndPc, sndBatch, sndDone, sndItem, sndTorn,
  updates,
  executedPrq, executedCh,
  posting, signalers, posts,
  rcvPc, rcvBatch, rcvTorn,
  cmtPc, cmtBatch, cmtItem, cmtTorn,
  sent, posted, calls, discarded, finished, torn

procVars == <<up, restarts, panics>>
addVars  == <<seen, fresh, addPc, addTxs>>
penVars  == <<pendingPrq, pendingCh>>
sndVars  == <<sndPc, sndBatch, sndDone, sndItem>>
exeVars  == <<executedPrq, executedCh>>
recvVars == <<posting, signalers, posts>>
rcvVars  == <<rcvPc, rcvBatch>>
cmtVars  == <<cmtPc, cmtBatch, cmtItem>>
obsVars  == <<sent, posted, calls, discarded, finished, torn>>
vars == <<db, procVars, addVars, penVars, sndVars, sndTorn, updates, exeVars,
          recvVars, rcvVars, rcvTorn, cmtVars, cmtTorn, obsVars>>

NoId == "no id"
NoBatch == [i \in CrossIDs |-> "None"]

Batches == [CrossIDs -> {"None", "Init", "Finished"}]

NoItem == [id |-> NoId, val |-> NoReceipt, seq |-> 0]

Records == [status : CStatus \cup {"Absent"}, receipt : Values \cup {NoReceipt}]

(* The type invariant, by kind of value.                                   *)
TypeData ==
  /\ db \in [CrossIDs -> Records]
  /\ seen \in [CrossIDs -> 0..2] /\ fresh \subseteq CrossIDs /\ addTxs \in Batches
  /\ panics \subseteq {"update", "queue"} /\ sndDone \subseteq CrossIDs
  /\ sent \subseteq CrossIDs /\ finished \subseteq Txs
  /\ posted \subseteq Receipts /\ calls \subseteq Receipts /\ discarded \subseteq Receipts

TypeChan ==
  /\ pendingCh \in Nat /\ pendingCh <= PendingCap
  /\ executedCh \in Nat /\ executedCh <= ExecutedCap
  /\ restarts \in Nat /\ signalers \in Nat /\ posts \in Nat

TypeBag ==
  /\ pendingPrq \in [CrossIDs -> Nat] /\ sndBatch \in [CrossIDs -> Nat]
  /\ updates \in [SUBSET CrossIDs -> Nat]
  /\ executedPrq \in [Receipts -> Nat] /\ posting \in [Receipts -> Nat]
  /\ rcvBatch \in [Receipts -> Nat] /\ cmtBatch \in [Slots -> [Receipts -> Nat]]

TypePc ==
  /\ addPc \in {"idle", "save", "size", "signal", "failed"}
  /\ sndPc \in {"wait", "drain", "send", "push"}
  /\ rcvPc \in {"wait", "drain", "update", "push"}
  /\ cmtPc \in [Slots -> {"idle", "invoke", "push"}]
  /\ sndItem \in CrossIDs \cup {NoId} /\ cmtItem \in [Slots -> Receipts \cup {NoItem}]
  /\ sndPc = "push" => sndItem \in CrossIDs
  /\ \A s \in Slots : cmtPc[s] = "push" => cmtItem[s] \in Receipts

TypeFlag ==
  /\ up \in BOOLEAN /\ torn \in BOOLEAN
  /\ sndTorn \in BOOLEAN /\ rcvTorn \in BOOLEAN /\ cmtTorn \in [Slots -> BOOLEAN]

TypeOK == TypeData /\ TypeChan /\ TypeBag /\ TypePc /\ TypeFlag

SeqOf == [r \in Receipts |-> r.seq]

-----------------------------------------------------------------------------
(* The two queues are shared.  An unlocked push is in progress while its   *)
(* goroutine is at "push"; any other operation on the queue tears it.      *)

TearPending == sndTorn' = IF sndPc = "push" THEN TRUE ELSE sndTorn

TearExecuted(self) ==
  /\ rcvTorn' = IF rcvPc = "push" /\ self # "rcv" THEN TRUE ELSE rcvTorn
  /\ cmtTorn' = [s \in Slots |-> IF cmtPc[s] = "push" /\ self # s THEN TRUE
                                                              ELSE cmtTorn[s]]

(* A process that has panicked or been killed keeps nothing but the        *)
(* database; the ledger and the outside world are untouched.               *)
VolatileReset ==
  /\ fresh' = {} /\ addPc' = "idle" /\ addTxs' = addTxs
  /\ pendingPrq' = Empty(CrossIDs) /\ pendingCh' = 0
  /\ sndPc' = "wait" /\ sndBatch' = Empty(CrossIDs) /\ sndDone' = {}
  /\ sndItem' = NoId /\ sndTorn' = FALSE
  /\ updates' = Empty(SUBSET CrossIDs)
  /\ executedPrq' = Empty(Receipts) /\ executedCh' = 0
  /\ posting' = Empty(Receipts) /\ signalers' = 0
  /\ rcvPc' = "wait" /\ rcvBatch' = Empty(Receipts) /\ rcvTorn' = FALSE
  /\ cmtPc' = [s \in Slots |-> "idle"]
  /\ cmtBatch' = [s \in Slots |-> Empty(Receipts)]
  /\ cmtItem' = [s \in Slots |-> NoItem]
  /\ cmtTorn' = [s \in Slots |-> FALSE]

Die ==
  /\ up' = FALSE
  /\ VolatileReset
  /\ UNCHANGED <<db, restarts, seen, posts, sent, posted, calls, discarded, finished, torn>>

Panic(cause) ==
  /\ panics' = panics \cup {cause}
  /\ Die

-----------------------------------------------------------------------------
Init ==
  /\ db = [i \in CrossIDs |-> Absent]
  /\ up = TRUE /\ restarts = 0 /\ panics = {}
  /\ seen = [i \in CrossIDs |-> 0]
  /\ fresh = {} /\ addPc = "idle" /\ addTxs = NoBatch
  /\ pendingPrq = Empty(CrossIDs) /\ pendingCh = 1
  /\ sndPc = "wait" /\ sndBatch = Empty(CrossIDs) /\ sndDone = {}
  /\ sndItem = NoId /\ sndTorn = FALSE
  /\ updates = Empty(SUBSET CrossIDs)
  /\ executedPrq = Empty(Receipts) /\ executedCh = 0
  /\ posting = Empty(Receipts) /\ signalers = 0 /\ posts = 0
  /\ rcvPc = "wait" /\ rcvBatch = Empty(Receipts) /\ rcvTorn = FALSE
  /\ cmtPc = [s \in Slots |-> "idle"]
  /\ cmtBatch = [s \in Slots |-> Empty(Receipts)]
  /\ cmtItem = [s \in Slots |-> NoItem]
  /\ cmtTorn = [s \in Slots |-> FALSE]
  /\ sent = {} /\ posted = {} /\ calls = {} /\ discarded = {} /\ finished = {}
  /\ torn = FALSE

-----------------------------------------------------------------------------
(* AddCrossTxs.  The syncer hands over the transactions of the next block: *)
(* a precommit not yet delivered, or the commit of a finished contract.    *)
Next1(i) ==
  {"None"} \cup (IF i \in Txs /\ seen[i] = 0 THEN {"Init"} ELSE {})
           \cup (IF i \in finished /\ seen[i] = 1 THEN {"Finished"} ELSE {})

Incoming == {b \in Batches : b # NoBatch /\ \A i \in CrossIDs : b[i] \in Next1(i)}

(* The precommits are queued under the lock, before anything is stored.    *)
Deliver(batch) ==
  /\ up /\ addPc = "idle"
  /\ addTxs' = batch
  /\ seen' = [i \in CrossIDs |-> IF batch[i] = "None" THEN seen[i] ELSE seen[i] + 1]
  /\ fresh' = fresh \cup {i \in CrossIDs : batch[i] = "Init"}
  /\ pendingPrq' = [i \in CrossIDs |-> IF batch[i] = "Init" THEN pendingPrq[i] + 1
                                                            ELSE pendingPrq[i]]
  /\ TearPending
  /\ addPc' = "save"
  /\ UNCHANGED <<db, procVars, pendingCh, sndVars, updates, exeVars, recvVars,
                 rcvVars, rcvTorn, cmtVars, cmtTorn, obsVars>>

(* A failed Save is returned to the syncer, which then stops for good.     *)
AddSave ==
  /\ up /\ addPc = "save"
  /\ \/ /\ \E unread \in SUBSET {i \in CrossIDs : addTxs[i] # "None"} :
             /\ unread = {} \/ StoreMayFail
             /\ db' = Save(db, addTxs, unread)
        /\ addPc' = "size"
     \/ /\ StoreMayFail
        /\ addPc' = "failed"
        /\ UNCHANGED db
  /\ UNCHANGED <<procVars, seen, fresh, addTxs, penVars, sndVars, sndTorn, updates, exeVars,
                 recvVars, rcvVars, rcvTorn, cmtVars, cmtTorn, obsVars>>

(* Mutant: Size() > 1 instead of Size() != 0.                              *)
AddSizeOffByOne ==
  /\ up /\ addPc = "size"
  /\ addPc' = IF \E i, j \in Elements(pendingPrq) : i # j \/ pendingPrq[i] > 1
               THEN "signal" ELSE "idle"
  /\ UNCHANGED <<db, procVars, seen, fresh, addTxs, penVars, sndVars, sndTorn, updates, exeVars,
                 recvVars, rcvVars, rcvTorn, cmtVars, cmtTorn, obsVars>>

(* The size is read without the lock.                                      *)
AddSize ==
  /\ up /\ addPc = "size"
  /\ addPc' = IF IsEmpty(pendingPrq) THEN "idle" ELSE "signal"
  /\ UNCHANGED <<db, procVars, seen, fresh, addTxs, penVars, sndVars, sndTorn, updates, exeVars,
                 recvVars, rcvVars, rcvTorn, cmtVars, cmtTorn, obsVars>>

(* Mutant: the channel never blocks.                                       *)
AddSignalUnbounded ==
  /\ up /\ addPc = "signal"
  /\ pendingCh' = pendingCh + 1
  /\ addPc' = "idle"
  /\ UNCHANGED <<db, procVars, seen, fresh, addTxs, pendingPrq, sndVars, sndTorn, updates,
                 exeVars, recvVars, rcvVars, rcvTorn, cmtVars, cmtTorn, obsVars>>

AddSignal ==
  /\ up /\ addPc = "signal" /\ pendingCh < PendingCap
  /\ pendingCh' = pendingCh + 1
  /\ addPc' = "idle"
  /\ UNCHANGED <<db, procVars, seen, fresh, addTxs, pendingPrq, sndVars, sndTorn, updates,
                 exeVars, recvVars, rcvVars, rcvTorn, cmtVars, cmtTorn, obsVars>>

-----------------------------------------------------------------------------
(* ProcessCrossTxs.                                                        *)
SndWake ==
  /\ up /\ sndPc = "wait" /\ pendingCh > 0
  /\ pendingCh' = pendingCh - 1
  /\ sndPc' = "drain"
  /\ UNCHANGED <<db, procVars, addVars, pendingPrq, sndBatch, sndDone, sndItem, sndTorn,
                 updates, exeVars, recvVars, rcvVars, rcvTorn, cmtVars, cmtTorn, obsVars>>

(* Mutant: the drain stops at the last element.                            *)
SndDrainKeepsLast ==
  /\ up /\ sndPc = "drain"
  /\ IF IsEmpty(pendingPrq) THEN UNCHANGED pendingPrq /\ sndBatch' = pendingPrq
     ELSE \E i \in Lasts(pendingPrq, TimeStamp) :
            /\ sndBatch' = Drop(pendingPrq, i)
            /\ pendingPrq' = [Empty(CrossIDs) EXCEPT ![i] = 1]
  /\ sndDone' = {}
  /\ sndPc' = "send"
  /\ UNCHANGED <<db, procVars, addVars, pendingCh, sndItem, sndTorn, updates, exeVars,
                 recvVars, rcvVars, rcvTorn, cmtVars, cmtTorn, obsVars>>

SndDrain ==
  /\ up /\ sndPc = "drain"
  /\ sndBatch' = pendingPrq
  /\ pendingPrq' = Empty(CrossIDs)
  /\ sndDone' = {}
  /\ sndPc' = "send"
  /\ UNCHANGED <<db, procVars, addVars, pendingCh, sndItem, sndTorn, updates, exeVars,
                 recvVars, rcvVars, rcvTorn, cmtVars, cmtTorn, obsVars>>

(* A transaction the outchain refuses goes back to the queue, unlocked; one *)
(* that cannot be encoded is dropped from the queue and from the batch.    *)
SndSend(i) ==
  /\ up /\ sndPc = "send" /\ i \in Firsts(sndBatch, TimeStamp)
  /\ sndBatch' = Drop(sndBatch, i)
  /\ \/ /\ sent' = sent \cup {i}
        /\ sndDone' = sndDone \cup {i}
        /\ UNCHANGED <<fresh, sndPc, sndItem>>
     \/ /\ SendMayFail
        /\ sndPc' = "push" /\ sndItem' = i
        /\ UNCHANGED <<fresh, sent, sndDone>>
     \/ /\ MarshalMayFail
        /\ fresh' = fresh \ {i}
        /\ UNCHANGED <<sent, sndDone, sndPc, sndItem>>
  /\ UNCHANGED <<db, procVars, seen, addPc, addTxs, penVars, sndTorn, updates, exeVars, recvVars,
                 rcvVars, rcvTorn, cmtVars, cmtTorn,
                 posted, calls, discarded, finished, torn>>

SndPushBack ==
  /\ up /\ sndPc = "push"
  /\ pendingPrq' \in AfterPush(pendingPrq, sndItem, sndTorn)
  /\ sndPc' = "send" /\ sndItem' = NoId /\ sndTorn' = FALSE
  /\ torn' = IF sndTorn THEN TRUE ELSE torn
  /\ UNCHANGED <<db, procVars, addVars, pendingCh, sndBatch, sndDone, updates,
                 exeVars, recvVars, rcvVars, rcvTorn, cmtVars, cmtTorn,
                 sent, posted, calls, discarded, finished>>

(* Mutant: the goroutine reads the lists after the next batch reset them.  *)
SndSpawnLate ==
  /\ up /\ sndPc = "send" /\ IsEmpty(sndBatch)
  /\ updates' = updates
  /\ sndDone' = {}
  /\ sndPc' = "wait"
  /\ UNCHANGED <<db, procVars, addVars, penVars, sndBatch, sndItem, sndTorn, exeVars,
                 recvVars, rcvVars, rcvTorn, cmtVars, cmtTorn, obsVars>>

(* The update of an empty list writes nothing and leaves no trace.         *)
SndSpawn ==
  /\ up /\ sndPc = "send" /\ IsEmpty(sndBatch)
  /\ updates' = IF sndDone = {} THEN updates ELSE Push(updates, sndDone)
  /\ sndDone' = {}
  /\ sndPc' = "wait"
  /\ UNCHANGED <<db, procVars, addVars, penVars, sndBatch, sndItem, sndTorn, exeVars,
                 recvVars, rcvVars, rcvTorn, cmtVars, cmtTorn, obsVars>>

ToPending(ids) == [i \in ids |-> [db[i] EXCEPT !.status = "Pending"]]

(* Mutant: what is updated to Pending is committed at once.                *)
UpdateCommits(ids) ==
  /\ up /\ In(ids, updates) /\ AllFound(db, ids)
  /\ db' = Updates(db, ToPending(ids))
  /\ updates' = Drop(updates, ids)
  /\ finished' = finished \cup (ids \cap Txs)
  /\ UNCHANGED <<procVars, addVars, penVars, sndVars, sndTorn, exeVars, recvVars,
                 rcvVars, rcvTorn, cmtVars, cmtTorn, sent, posted, calls, discarded, torn>>

Update(ids) ==
  /\ up /\ In(ids, updates) /\ AllFound(db, ids)
  /\ db' = Updates(db, ToPending(ids))
  /\ updates' = Drop(updates, ids)
  /\ UNCHANGED <<procVars, addVars, penVars, sndVars, sndTorn, exeVars, recvVars,
                 rcvVars, rcvTorn, cmtVars, cmtTorn, obsVars>>

(* An error of Updates is not handled but panics.                          *)
UpdatePanic(ids) ==
  /\ up /\ In(ids, updates) /\ (~AllFound(db, ids) \/ StoreMayFail)
  /\ Panic("update")

-----------------------------------------------------------------------------
(* The outchain is taken at its word: of the precommitted transactions it  *)
(* answers only for those it was sent.  ServeHTTP does not check that, nor *)
(* that the ID is known ("TODO check crossID").                            *)
Answerable == sent \cup (CrossIDs \ Txs)

Post(r) ==
  /\ up /\ posts < MaxPosts
  /\ r.id \in Answerable
  /\ posts' = posts + 1
  /\ posted' = posted \cup {r}
  /\ posting' = Push(posting, r)
  /\ UNCHANGED <<db, procVars, addVars, penVars, sndVars, sndTorn, updates, exeVars,
                 signalers, rcvVars, rcvTorn, cmtVars, cmtTorn,
                 sent, calls, discarded, finished, torn>>

RecvPush(r) ==
  /\ up /\ In(r, posting)
  /\ posting' = Drop(posting, r)
  /\ executedPrq' = Push(executedPrq, r)
  /\ signalers' = signalers + 1
  /\ TearExecuted("recv")
  /\ UNCHANGED <<db, procVars, addVars, penVars, sndVars, sndTorn, updates, executedCh,
                 posts, rcvVars, cmtVars, obsVars>>

RecvSignal ==
  /\ up /\ signalers > 0 /\ executedCh < ExecutedCap
  /\ signalers' = signalers - 1
  /\ executedCh' = executedCh + 1
  /\ UNCHANGED <<db, procVars, addVars, penVars, sndVars, sndTorn, updates, executedPrq,
                 posting, posts, rcvVars, rcvTorn, cmtVars, cmtTorn, obsVars>>

-----------------------------------------------------------------------------
(* ProcessCrossTxReceipts.                                                 *)
RcvWake ==
  /\ up /\ rcvPc = "wait" /\ executedCh > 0
  /\ executedCh' = executedCh - 1
  /\ rcvPc' = "drain"
  /\ UNCHANGED <<db, procVars, addVars, penVars, sndVars, sndTorn, updates, executedPrq,
                 recvVars, rcvBatch, rcvTorn, cmtVars, cmtTorn, obsVars>>

(* Mutant: the drain stops at the last element.                            *)
RcvDrainKeepsLast ==
  /\ up /\ rcvPc = "drain"
  /\ IF IsEmpty(executedPrq) THEN UNCHANGED <<executedPrq, rcvBatch>>
     ELSE \E r \in Lasts(executedPrq, SeqOf) :
            /\ rcvBatch' = Drop(executedPrq, r)
            /\ executedPrq' = [Empty(Receipts) EXCEPT ![r] = 1]
  /\ rcvPc' = IF IsEmpty(rcvBatch') THEN "wait" ELSE "update"
  /\ TearExecuted("rcv")
  /\ UNCHANGED <<db, procVars, addVars, penVars, sndVars, sndTorn, updates, executedCh,
                 recvVars, cmtVars, obsVars>>

RcvDrain ==
  /\ up /\ rcvPc = "drain"
  /\ rcvBatch' = executedPrq
  /\ executedPrq' = Empty(Receipts)
  /\ rcvPc' = IF IsEmpty(executedPrq) THEN "wait" ELSE "update"
  /\ TearExecuted("rcv")
  /\ UNCHANGED <<db, procVars, addVars, penVars, sndVars, sndTorn, updates, executedCh,
                 recvVars, cmtVars, obsVars>>

(* AddCrossTxReceipts.  The updaters are closures over the loop variable,  *)
(* so all of them store the receipt of the last element of the batch; a    *)
(* CommitContract has no receipt to update.                                *)
ToExecuted(ids, last) ==
  [i \in ids |->
    [status  |-> "Executed",
     receipt |-> IF IsPrecommit(db[i].status) THEN last.val ELSE db[i].receipt]]

BatchIDs(q) == {r.id : r \in Elements(q)}

(* Mutant: receipts the database does not know are committed all the same. *)
RcvUpdateCommitsUnknown ==
  /\ up /\ rcvPc = "update"
  /\ IF AllFound(db, BatchIDs(rcvBatch))
       THEN \E last \in Lasts(rcvBatch, SeqOf) :
              db' = Updates(db, ToExecuted(BatchIDs(rcvBatch), last))
       ELSE UNCHANGED db
  /\ \E s \in Slots :
       /\ cmtPc[s] = "idle"
       /\ cmtPc' = [cmtPc EXCEPT ![s] = "invoke"]
       /\ cmtBatch' = [cmtBatch EXCEPT ![s] = rcvBatch]
  /\ rcvPc' = "wait" /\ rcvBatch' = Empty(Receipts)
  /\ UNCHANGED <<procVars, addVars, penVars, sndVars, sndTorn, updates, exeVars, recvVars,
                 rcvTorn, cmtItem, cmtTorn, obsVars>>

RcvUpdate ==
  /\ up /\ rcvPc = "update"
  /\ \/ /\ AllFound(db, BatchIDs(rcvBatch))
        /\ \E last \in Lasts(rcvBatch, SeqOf) :
             db' = Updates(db, ToExecuted(BatchIDs(rcvBatch), last))
        /\ \E s \in Slots :
             /\ cmtPc[s] = "idle"
             /\ cmtPc' = [cmtPc EXCEPT ![s] = "invoke"]
             /\ cmtBatch' = [cmtBatch EXCEPT ![s] = rcvBatch]
        /\ rcvPc' = "wait" /\ rcvBatch' = Empty(Receipts)
        /\ UNCHANGED discarded
     \/ /\ ~AllFound(db, BatchIDs(rcvBatch))
        /\ discarded' = discarded \cup Elements(rcvBatch)
        /\ rcvPc' = "wait" /\ rcvBatch' = Empty(Receipts)
        /\ UNCHANGED <<db, cmtPc, cmtBatch>>
     \/ /\ StoreMayFail
        /\ rcvPc' = "push"
        /\ UNCHANGED <<db, rcvBatch, discarded, cmtPc, cmtBatch>>
  /\ UNCHANGED <<procVars, addVars, penVars, sndVars, sndTorn, updates, exeVars, recvVars,
                 rcvTorn, cmtItem, cmtTorn, sent, posted, calls, finished, torn>>

(* After a database error the batch goes back, one unlocked push each, and *)
(* nobody is signalled.                                                    *)
RcvPushBack(r) ==
  /\ up /\ rcvPc = "push" /\ r \in Firsts(rcvBatch, SeqOf)
  /\ executedPrq' \in AfterPush(executedPrq, r, rcvTorn)
  /\ rcvBatch' = Drop(rcvBatch, r)
  /\ rcvPc' = IF IsEmpty(Drop(rcvBatch, r)) THEN "wait" ELSE "push"
  /\ rcvTorn' = FALSE
  /\ cmtTorn' = [s \in Slots |-> IF cmtPc[s] = "push" THEN TRUE ELSE cmtTorn[s]]
  /\ torn' = IF rcvTorn THEN TRUE ELSE torn
  /\ UNCHANGED <<db, procVars, addVars, penVars, sndVars, sndTorn, updates,
                 executedCh, recvVars, cmtVars, sent, posted, calls, discarded, finished>>

(* A commit takes effect if the contract is there and not yet finished;    *)
(* the chaincode refuses it otherwise.  The result is only logged.         *)
CmtInvoke(s, r) ==
  /\ up /\ cmtPc[s] = "invoke" /\ r \in Firsts(cmtBatch[s], SeqOf)
  /\ calls' = calls \cup {r}
  /\ \/ finished' = finished \cup ({r.id} \cap Txs)
     \/ FabricMayFail /\ finished' = finished
  /\ cmtBatch' = [cmtBatch EXCEPT ![s] = Drop(@, r)]
  /\ cmtItem' = [cmtItem EXCEPT ![s] = r]
  /\ cmtPc' = [cmtPc EXCEPT ![s] = "push"]
  /\ UNCHANGED <<db, procVars, addVars, penVars, sndVars, sndTorn, updates, exeVars,
                 recvVars, rcvVars, rcvTorn, cmtTorn, sent, posted, discarded, torn>>

(* The receipt is pushed back, unlocked, whatever the result.              *)
CmtPushBack(s) ==
  /\ up /\ cmtPc[s] = "push"
  /\ executedPrq' \in AfterPush(executedPrq, cmtItem[s], cmtTorn[s])
  /\ cmtItem' = [cmtItem EXCEPT ![s] = NoItem]
  /\ cmtPc' = [cmtPc EXCEPT ![s] = IF IsEmpty(cmtBatch[s]) THEN "idle" ELSE "invoke"]
  /\ rcvTorn' = IF rcvPc = "push" THEN TRUE ELSE rcvTorn
  /\ cmtTorn' = [z \in Slots |-> IF z = s THEN FALSE
                                 ELSE IF cmtPc[z] = "push" THEN TRUE ELSE cmtTorn[z]]
  /\ torn' = IF cmtTorn[s] THEN TRUE ELSE torn
  /\ UNCHANGED <<db, procVars, addVars, penVars, sndVars, sndTorn, updates, executedCh,
                 recvVars, rcvVars, cmtBatch, sent, posted, calls, discarded, finished>>

(* A torn push may read the nil item and panic.                            *)
TornPanic ==
  /\ up /\ (sndTorn \/ rcvTorn \/ \E s \in Slots : cmtTorn[s])
  /\ Panic("queue")

-----------------------------------------------------------------------------
(* The process is killed between any two steps, and started again.         *)
Kill ==
  /\ up /\ restarts < MaxRestarts
  /\ Die
  /\ UNCHANGED panics

(* Start and reload.  The query for the records at Init names two fields   *)
(* CrossTx does not have, Status and Timestamp; Find fails on the first    *)
(* record, Query drops its error and returns nothing.  So nothing is       *)
(* queued, and one token is sent.  The syncer resumes behind the last      *)
(* block it handed over, or at that block.                                 *)
Restart ==
  /\ ~up /\ restarts < MaxRestarts
  /\ up' = TRUE /\ restarts' = restarts + 1
  /\ pendingPrq' = Empty(CrossIDs)
  /\ pendingCh' = 1
  /\ \/ seen' = seen
     \/ seen' = [i \in CrossIDs |-> IF addTxs[i] = "None" \/ seen[i] = 0
                                      THEN seen[i] ELSE seen[i] - 1]
  /\ fresh' = {} /\ addTxs' = NoBatch /\ torn' = FALSE
  /\ UNCHANGED <<db, panics, addPc, sndVars, sndTorn, updates, exeVars, recvVars,
                 rcvVars, rcvTorn, cmtVars, cmtTorn,
                 sent, posted, calls, discarded, finished>>

-----------------------------------------------------------------------------
Add == (\E b \in Incoming : Deliver(b)) \/ AddSave \/ AddSize \/ AddSignal
Snd == SndWake \/ SndDrain \/ (\E i \in CrossIDs : SndSend(i)) \/ SndPushBack \/ SndSpawn
Recv == (\E r \in Receipts : Post(r) \/ RecvPush(r)) \/ RecvSignal
Rcv == RcvWake \/ RcvDrain \/ RcvUpdate \/ \E r \in Receipts : RcvPushBack(r)
Cmt == \E s \in Slots : CmtPushBack(s) \/ \E r \in Receipts : CmtInvoke(s, r)

Upd == \E ids \in SUBSET CrossIDs : Update(ids) \/ UpdatePanic(ids)

Next == Add \/ Snd \/ Upd \/ Recv \/ Rcv \/ Cmt \/ TornPanic \/ Kill \/ Restart

Spec == Init /\ [][Next]_vars

(* A goroutine that can step is scheduled; of the goroutines of one kind,  *)
(* one of those that can step.  Nothing else is assumed: no block or       *)
(* receipt need arrive, and a dead process need not be restarted.          *)
Fairness ==
  /\ WF_vars(AddSave \/ AddSize \/ AddSignal)
  /\ WF_vars(Snd)
  /\ WF_vars(Upd)
  /\ WF_vars(\E r \in Receipts : RecvPush(r))
  /\ WF_vars(RecvSignal)
  /\ WF_vars(Rcv)
  /\ WF_vars(Cmt)

LiveSpec == Spec /\ Fairness

-----------------------------------------------------------------------------
(* Safety.                                                                 *)

(* A contract is finished on the ledger only if its transaction reached    *)
(* the outchain and the outchain answered with a receipt for that very     *)
(* transaction: the commit phase never runs ahead of the other chain,      *)
(* whatever is lost, replayed, torn or restarted (txmanager.go:148-280).   *)
TwoPhaseAtomicity ==
  \A i \in finished : i \in sent /\ \E r \in posted : r.id = i

(* Commit is invoked only with a receipt that was posted, and only for a   *)
(* transaction the database holds past Init: nothing is committed that is  *)
(* still recorded as waiting to be sent (txmanager.go:246-272).            *)
CommitRecorded ==
  \A r \in calls : r \in posted /\ db[r.id].status \notin {"Absent", "Init"}

(* The database says Finished or Completed only of a contract the ledger   *)
(* has finished (database.go:83-92).                                       *)
CompletedOnLedger ==
  \A i \in CrossIDs : db[i].status \in {"Finished", "Completed"} => i \in finished

InHand(i) ==
  \/ In(i, pendingPrq) \/ In(i, sndBatch) \/ (sndPc = "push" /\ sndItem = i)
  \/ i \in sndDone \/ \E ids \in SUBSET CrossIDs : In(ids, updates) /\ i \in ids

(* A transaction the process has taken on (delivered since it started, and *)
(* not dropped because it cannot be encoded) and recorded at Init is       *)
(* queued, or being sent, or its update to Pending is under way: a refused *)
(* Send loses none of them, unless its unlocked push was torn              *)
(* (txmanager.go:181).  What an earlier process left at Init is excepted,  *)
(* and is in nobody's hands: reload finds nothing (txmanager.go:111,       *)
(* database.go:157).                                                       *)
InitInHand ==
  up /\ ~torn => \A i \in fresh : db[i].status = "Init" => InHand(i)

(* No wake-up is lost between the unlocked size test of AddCrossTxs and    *)
(* the drain of ProcessCrossTxs (txmanager.go:141, 157-166): while the     *)
(* queue holds something a token is there or still to come.  It needs      *)
(* neither Send nor the database to fail: both leave work without a token. *)
PendingWakeup ==
  up /\ ~IsEmpty(pendingPrq) =>
    pendingCh > 0 \/ addPc \in {"save", "size", "signal"} \/ sndPc = "drain"

(* A stored record stays stored and never returns to Init, whatever late   *)
(* update or block delivered twice meets it (database.go:76-96, 124-135).  *)
NeverBackToInit ==
  [][\A i \in CrossIDs : IsStored(db[i]) =>
       /\ IsStored(db'[i])
       /\ db'[i].status = "Init" => db[i].status = "Init"]_vars

Phase(i) ==
  CASE i \in finished                                -> "finished"
    [] i \notin finished /\ \E r \in posted : r.id = i -> "receipted"
    [] i \notin finished /\ ~(\E r \in posted : r.id = i) /\ i \in sent -> "sent"
    [] OTHER                                         -> "precommitted"

(* Every step of the courier is a step of one transaction through the two  *)
(* phases, or none (CrossChain.tla).                                       *)
Chains == INSTANCE CrossChain WITH phase <- [i \in Txs |-> Phase(i)]
ImplementsCrossChain == Chains!Spec

(* Liveness.                                                               *)

(* A transaction delivered since the process started and recorded at Init  *)
(* is sent to the outchain, and the record says so, unless the process     *)
(* dies first (txmanager.go:125-204).                                      *)
InitIsSent ==
  \A i \in Txs :
    (up /\ i \in fresh /\ db[i].status = "Init") ~>
      ((i \in sent /\ db[i].status # "Init") \/ ~up)

(* A receipt accepted by the endpoint is submitted or discarded: it never  *)
(* waits in the executed queue for ever, unless a torn push lost it.       *)
ReceiptHandled ==
  \A r \in Receipts : In(r, posting) ~> (r \in calls \cup discarded \/ torn \/ ~up)

-----------------------------------------------------------------------------
(* What the code takes for granted, and does not keep.                     *)

(* txmanager.go:192-195: the update from Init to Pending does not fail.    *)
UpdateSucceeds == "update" \notin panics

=============================================================================
