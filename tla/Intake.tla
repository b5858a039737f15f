------------------------------- MODULE Intake -------------------------------
(***************************************************************************)
(* From a block to the batch the sender takes: GetPrepareCrossTxs of       *)
(* courier/filter.go with the accessors of courier/utils, then the queue   *)
(* of pending transactions with its sorted stack (courier/utils/prque).    *)
(* What becomes of the block number, of the database and of the batch is   *)
(* in BlockSync, Store and TxManager.  So is the push without the mutex of *)
(* a transaction the outchain refused (txmanager.go:181): here none is     *)
(* refused, and every operation on the queue holds the mutex.  reload      *)
(* pushes nothing (TxManager, Restart).                                    *)
(***************************************************************************)
EXTENDS Sstack, FiniteSets, TLC

CONSTANTS
  Answers,     \* the blocks a peer may answer with: sequences of envelopes
  TxIDs,       \* the transactions in them
  Seconds,     \* the timestamp of each
  MaxPending   \* bound: transactions in the queue

VARIABLES
  pc,        \* the syncer: "idle", "scan", "add", "crashed"
  block,     \* the block it scans
  txIndex, preCrossTxs,
  mu,        \* pending.mu: "free", "add", "drain"
  heap,      \* pending.prq
  sift,      \* the loop of container/heap that runs on it, and where it stands
  pending,   \* the batch the sender is draining
  orderly    \* the keys in the queue have been close to each other since it was empty

intakeVars == <<pc, block, txIndex, preCrossTxs, mu, heap, sift, pending, orderly>>
queueVars  == <<heap, sift, orderly>>

-----------------------------------------------------------------------------
(* An envelope is a record: flag, what the metadata of the block says of   *)
(* it; unpacks, whether envelope and payload can be decoded and have a     *)
(* header; header, the type in the channel header or "bad"; actions, each  *)
(* "bad" (cannot be decoded), "none" (no payload or no event) or the name  *)
(* of its event; txid.                                                     *)
Envelopes ==
  [flag : STRING, unpacks : BOOLEAN, header : {"endorser", "config", "bad"},
   actions : Seq(STRING), txid : TxIDs]

ASSUME IntakeAssumption ==
  /\ Answers \subseteq Seq(Envelopes) /\ MaxPending \in Nat
  /\ Seconds \in [TxIDs -> Int]
  /\ Nil \notin [value : TxIDs, priority : Int]

FilterEvents == {"precommit", "commit"}

Events(e) == {i \in DOMAIN e.actions : e.actions[i] # "none"}

(* Mutant: the last event.                                                 *)
TxEventLast(e) ==
  IF \E i \in DOMAIN e.actions : e.actions[i] = "bad" THEN "error"
  ELSE IF Events(e) = {} THEN "no event" ELSE e.actions[Max(Events(e))]

(* toFilteredActions, getTxEvents: the first event, or an error.           *)
TxEvent(e) ==
  IF \E i \in DOMAIN e.actions : e.actions[i] = "bad" THEN "error"
  ELSE IF Events(e) = {} THEN "no event" ELSE e.actions[Min(Events(e))]

(* What becomes of an envelope, in the order the code asks.  A header that *)
(* cannot be decoded is not refused, only used.                            *)
Outcome(e) ==
  CASE e.flag # "VALID"                 -> "skipped"
    [] ~e.unpacks                       -> "refused"
    [] e.header = "config"              -> "skipped"
    [] TxEvent(e) \notin FilterEvents   -> "skipped"
    [] e.header = "bad"                 -> "panic"
    [] OTHER                            -> "collected"

Item(e) == [value |-> e.txid, priority |-> Wrapped(-Seconds[e.txid])]

NoSift == [loop |-> "none", at |-> 0]
Up(j)   == [loop |-> "up", at |-> j]
Down(i) == [loop |-> "down", at |-> i]

IntakeInit ==
  /\ pc = "idle" /\ block = <<>> /\ txIndex = 1 /\ preCrossTxs = <<>>
  /\ mu = "free" /\ heap = New /\ sift = NoSift /\ pending = <<>> /\ orderly = TRUE

Receive ==
  /\ pc = "idle"
  /\ \E b \in Answers : heap.size + Len(b) <= MaxPending /\ block' = b
  /\ pc' = "scan" /\ txIndex' = 1 /\ preCrossTxs' = <<>>
  /\ UNCHANGED <<mu, pending, queueVars>>

Ended(how) == pc' = how /\ block' = <<>> /\ txIndex' = 1 /\ preCrossTxs' = <<>>

FilterTx ==
  /\ pc = "scan" /\ txIndex <= Len(block)
  /\ LET e == block[txIndex] IN
       CASE Outcome(e) = "skipped" -> txIndex' = txIndex + 1 /\ UNCHANGED <<pc, block, preCrossTxs>>
         [] Outcome(e) = "refused" -> Ended("idle")
         [] Outcome(e) = "panic" -> Ended("crashed")
         [] Outcome(e) = "collected" ->
              /\ txIndex' = txIndex + 1 /\ preCrossTxs' = Append(preCrossTxs, e)
              /\ UNCHANGED <<pc, block>>
  /\ UNCHANGED <<mu, pending, queueVars>>

Ignore ==
  /\ pc = "scan" /\ txIndex > Len(block) /\ preCrossTxs = <<>>
  /\ Ended("idle")
  /\ UNCHANGED <<mu, pending, queueVars>>

(* Mutant: AddCrossTxs does not wait for pending.mu.                       *)
AddUnlocked ==
  /\ pc = "scan" /\ txIndex > Len(block) /\ preCrossTxs # <<>>
  /\ pc' = "add"
  /\ UNCHANGED <<block, txIndex, preCrossTxs, mu, pending, queueVars>>

(* AddCrossTxs takes pending.mu.                                           *)
Add ==
  /\ pc = "scan" /\ txIndex > Len(block) /\ preCrossTxs # <<>>
  /\ mu = "free"
  /\ pc' = "add" /\ mu' = "add"
  /\ UNCHANGED <<block, txIndex, preCrossTxs, pending, queueVars>>

-----------------------------------------------------------------------------
Items(s) == {At(s, i) : i \in {j \in 0..(s.size - 1) : At(s, j) # Nil}}
Queued(s) == [t \in TxIDs |-> Cardinality({j \in 0..(s.size - 1) : At(s, j) # Nil /\ At(s, j).value = t})]

Queue == INSTANCE PriorityQueue WITH bag <- Queued(heap), Elems <- TxIDs, Key <- Seconds, Half <- Width \div 2

SetHeap(s) == heap' = s /\ orderly' = Queue!Orderly(orderly, Queued(s))

(* heap.Push begins: PriorityQueue's Add.  A commit event comes with a     *)
(* contract that is Finished: nothing to send.                             *)
AddPush ==
  /\ pc = "add" /\ sift = NoSift /\ preCrossTxs # <<>>
  /\ preCrossTxs' = Tail(preCrossTxs)
  /\ IF TxEvent(Head(preCrossTxs)) = "commit" THEN UNCHANGED queueVars
     ELSE SetHeap(StackPush(heap, Item(Head(preCrossTxs)))) /\ sift' = Up(heap.size)
  /\ UNCHANGED <<pc, block, txIndex, mu, pending>>

SiftUp ==
  /\ sift.loop = "up"
  /\ \/ /\ Rises(heap, sift.at)
        /\ heap' = Swap(heap, Parent(sift.at), sift.at) /\ sift' = Up(Parent(sift.at))
     \/ /\ ~Rises(heap, sift.at)
        /\ sift' = NoSift /\ heap' = heap
  /\ UNCHANGED <<pc, block, txIndex, preCrossTxs, mu, pending, orderly>>

Added ==
  /\ pc = "add" /\ sift = NoSift /\ preCrossTxs = <<>>
  /\ Ended("idle") /\ mu' = "free"
  /\ UNCHANGED <<pending, queueVars>>

(* ProcessCrossTxs takes pending.mu and empties the queue.                 *)
Drain ==
  /\ mu = "free" /\ heap.size > 0 /\ pc # "crashed"
  /\ mu' = "drain"
  /\ UNCHANGED <<pc, block, txIndex, preCrossTxs, pending, queueVars>>

(* heap.Pop begins.                                                        *)
DrainPop ==
  /\ mu = "drain" /\ sift = NoSift /\ heap.size > 0
  /\ heap' = Swap(heap, 0, heap.size - 1) /\ sift' = Down(0)
  /\ UNCHANGED <<pc, block, txIndex, preCrossTxs, mu, pending, orderly>>

SiftDown ==
  LET child == FirstChild(heap, sift.at, heap.size - 1) IN
    /\ sift.loop = "down" /\ Sinks(heap, sift.at, heap.size - 1)
    /\ heap' = Swap(heap, sift.at, child) /\ sift' = Down(child)
    /\ UNCHANGED <<pc, block, txIndex, preCrossTxs, mu, pending, orderly>>

(* The loop is over and heap.Pop takes the last item: PriorityQueue's Take. *)
Popped ==
  /\ sift.loop = "down" /\ ~Sinks(heap, sift.at, heap.size - 1)
  /\ LET popped == StackPop(heap) IN
       pending' = Append(pending, popped.item) /\ SetHeap(popped.stack)
  /\ sift' = NoSift
  /\ UNCHANGED <<pc, block, txIndex, preCrossTxs, mu>>

Drained ==
  /\ mu = "drain" /\ sift = NoSift /\ heap.size = 0
  /\ mu' = "free" /\ pending' = <<>>
  /\ UNCHANGED <<pc, block, txIndex, preCrossTxs, queueVars>>

IntakeNext ==
  \/ Receive \/ FilterTx \/ Ignore \/ Add \/ AddPush \/ SiftUp \/ Added
  \/ Drain \/ DrainPop \/ SiftDown \/ Popped \/ Drained

IntakeSpec == IntakeInit /\ [][IntakeNext]_intakeVars

-----------------------------------------------------------------------------
(* The stack is well formed whatever is pushed and popped, across the ends *)
(* of its blocks: its items fill the first slots, and no slot keeps an     *)
(* item that was popped.                                                   *)
IntakeOK ==
  /\ pc \in {"idle", "scan", "add", "crashed"} /\ mu \in {"free", "add", "drain"}
  /\ block \in Answers \cup {<<>>} /\ txIndex \in 1..(Len(block) + 1)
  /\ sift \in {NoSift} \cup {Up(i) : i \in 0..(heap.size - 1)} \cup {Down(i) : i \in 0..(heap.size - 1)}
  /\ orderly \in BOOLEAN
  /\ InPlace(heap)

(* A transaction is wanted for what it is, whatever stands next to it.     *)
Wanted(e) ==
  /\ e.flag = "VALID" /\ e.unpacks /\ e.header = "endorser"
  /\ "bad" \notin ToSet(e.actions)
  /\ \E i \in DOMAIN e.actions :
       e.actions[i] \in FilterEvents /\ \A j \in 1..(i - 1) : e.actions[j] = "none"

(* When a block is handed over, every transaction of it that is wanted has *)
(* been collected, in the order of the block, and no other: one that is    *)
(* invalid, of another type or without event neither enters nor ends the   *)
(* scan (filter.go:92-135).                                                *)
WantedCollected ==
  pc = "scan" /\ txIndex > Len(block) =>
    \E place \in [DOMAIN preCrossTxs -> DOMAIN block] :
      /\ \A i, j \in DOMAIN place : i < j => place[i] < place[j]
      /\ \A i \in DOMAIN place : preCrossTxs[i] = block[place[i]]
      /\ {place[i] : i \in DOMAIN place} = {k \in DOMAIN block : Wanted(block[k])}

(* What stands in the block is taken and what is queued stays in its place *)
(* (filter.go:78-135, sstack.go:47-101).                                   *)
TakenAndKept == IntakeOK /\ WantedCollected

(* A batch is taken in the order of the timestamps, and nothing older is   *)
(* left behind or comes in meanwhile, unless timestamps half the range of  *)
(* an int64 apart have been in the queue (sstack.go:89).                   *)
BatchInOrder ==
  mu = "drain" /\ heap.size > 0 /\ orderly =>
    \A i \in DOMAIN pending :
      /\ \A j \in 1..(i - 1) : Seconds[pending[j].value] <= Seconds[pending[i].value]
      /\ \A item \in Items(heap) : Seconds[pending[i].value] <= Seconds[item.value]

(* The sorted stack implements the queue that TxManager takes it for.      *)
ImplementsQueue == Queue!Spec

=============================================================================
