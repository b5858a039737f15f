----------------------------- MODULE BlockSync -----------------------------
(***************************************************************************)
(* The courier's block syncer (courier/syncer.go).  Two goroutines meet on *)
(* two unbuffered channels: syncBlock (sync) walks the chain and offers    *)
(* the cross transactions of each block on preTxsCh; processPreTxs (proc)  *)
(* takes them, parses them and calls TxManager.AddCrossTxs.  An error of   *)
(* proc travels back on errCh.  Neither `preTxsCh <-` nor `errCh <-` looks *)
(* at stopCh.  The block number is persisted before the block is queried.  *)
(*                                                                         *)
(* number and saved are durable; saved (the blocks AddCrossTxs stored) and *)
(* refused (those whose error was met) are observations of a block.        *)
(***************************************************************************)
EXTENDS Naturals, FiniteSets

CONSTANTS
  Kinds,          \* kinds of block that may occur
  MaxHeight,      \* bound: blocks on the chain
  MaxCrashes,     \* bound: crashes of the process
  StoreMayFail, PeerMayFail

(* plain:    no valid transaction with a watched event                     *)
(* cross:    at least one, and every payload parses                        *)
(* badfirst: the first payload does not parse                              *)
(* badlater: a payload behind the first does not parse                     *)
AllKinds == {"plain", "cross", "badfirst", "badlater"}

ASSUME BlockSyncAssumption ==
  /\ Kinds \subseteq AllKinds
  /\ MaxHeight \in Nat /\ MaxCrashes \in Nat
  /\ StoreMayFail \in BOOLEAN /\ PeerMayFail \in BOOLEAN

VARIABLES
  kind, height,                 \* the chain
  number, saved, refused,
  up, crashes, panicked,
  blockNum, timer, syncPc,
  hold, procPc,
  selfStop,                     \* a `go s.Stop()` not yet run
  stopping,                     \* stopCh is closed
  stopPc                        \* Handler.Stop's call of Stop

vars == <<kind, height, number, saved, refused, up, crashes, panicked,
          blockNum, timer, syncPc, hold, procPc, selfStop, stopping, stopPc>>
chainVars == <<kind, height>>
procVars  == <<up, crashes, panicked>>
stopVars  == <<selfStop, stopping, stopPc>>

Blocks == 1..MaxHeight

TypeOK ==
  /\ kind \in [Blocks -> Kinds] /\ height \in 0..MaxHeight
  /\ number \in 0..(MaxHeight + 1) /\ saved \subseteq Blocks /\ refused \subseteq Blocks
  /\ up \in BOOLEAN /\ crashes \in 0..MaxCrashes /\ panicked \in BOOLEAN
  /\ blockNum \in 1..(MaxHeight + 1) /\ timer \in BOOLEAN
  /\ syncPc \in {"select", "query", "send", "done"}
  /\ hold \in 0..MaxHeight
  /\ procPc \in {"select", "parse", "add", "parseErr", "addErr", "done"}
  /\ selfStop \in BOOLEAN /\ stopping \in BOOLEAN
  /\ stopPc \in {"no", "wait", "returned"}

(* Mutant: the number read from the database is not used.                  *)
ResumeFromFirst(n) == 1

Resume(n) == IF n = 0 THEN 1 ELSE n

Init ==
  /\ kind \in [Blocks -> Kinds] /\ height = 0
  /\ number = 0 /\ saved = {} /\ refused = {}
  /\ up = TRUE /\ crashes = 0 /\ panicked = FALSE
  /\ blockNum = Resume(number) /\ timer = TRUE /\ syncPc = "select"
  /\ hold = 0 /\ procPc = "select"
  /\ selfStop = FALSE /\ stopping = FALSE /\ stopPc = "no"

-----------------------------------------------------------------------------
(* The peer appends a block.                                               *)
AppendBlock ==
  /\ height < MaxHeight
  /\ height' = height + 1
  /\ UNCHANGED <<kind, number, saved, refused, procVars, blockNum, timer, syncPc,
                 hold, procPc, stopVars>>

(* syncBlock.  The two recoverable answers of apply re-arm the timer; any  *)
(* other error leaves it off and starts a goroutine that stops the syncer. *)
ApplyDefault == selfStop' = TRUE /\ UNCHANGED <<stopping, stopPc>>

TimerFires ==
  /\ up /\ syncPc = "select" /\ timer
  /\ timer' = FALSE
  /\ \/ /\ number' = blockNum
        /\ syncPc' = "query"
        /\ UNCHANGED stopVars
     \/ /\ StoreMayFail
        /\ ApplyDefault
        /\ UNCHANGED <<number, syncPc>>
  /\ UNCHANGED <<chainVars, saved, refused, procVars, blockNum, hold, procPc>>

(* Mutant: the timer is not armed again when there is no new block.        *)
QueryBlockNoReset ==
  /\ up /\ syncPc = "query"
  /\ \/ /\ blockNum > height
        /\ syncPc' = "select"
        /\ UNCHANGED <<blockNum, timer>>
     \/ /\ blockNum <= height /\ kind[blockNum] = "plain"
        /\ blockNum' = blockNum + 1
        /\ timer' = TRUE /\ syncPc' = "select"
     \/ /\ blockNum <= height /\ kind[blockNum] # "plain"
        /\ syncPc' = "send"
        /\ UNCHANGED <<blockNum, timer>>
  /\ UNCHANGED <<chainVars, number, saved, refused, procVars, hold, procPc, stopVars>>

QueryBlock ==
  /\ up /\ syncPc = "query"
  /\ \/ /\ blockNum > height                        \* "Entry not found in index"
        /\ timer' = TRUE /\ syncPc' = "select"
        /\ UNCHANGED <<blockNum, stopVars>>
     \/ /\ blockNum <= height /\ kind[blockNum] = "plain"            \* "ignore"
        /\ blockNum' = blockNum + 1
        /\ timer' = TRUE /\ syncPc' = "select"
        /\ UNCHANGED stopVars
     \/ /\ blockNum <= height /\ kind[blockNum] # "plain"
        /\ syncPc' = "send"
        /\ UNCHANGED <<blockNum, timer, stopVars>>
     \/ /\ PeerMayFail
        /\ ApplyDefault /\ syncPc' = "select"
        /\ UNCHANGED <<blockNum, timer>>
  /\ UNCHANGED <<chainVars, number, saved, refused, procVars, hold, procPc>>

(* The rendezvous on preTxsCh.                                             *)
SendPreTxs ==
  /\ up /\ syncPc = "send" /\ procPc = "select"
  /\ hold' = blockNum
  /\ procPc' = "parse"
  /\ blockNum' = blockNum + 1
  /\ timer' = TRUE /\ syncPc' = "select"
  /\ UNCHANGED <<chainVars, number, saved, refused, procVars, stopVars>>

(* processPreTxs.  A parse error only leaves the inner loop: AddCrossTxs   *)
(* is still called, with what was parsed before, or with nil entries when  *)
(* nothing was.                                                            *)
Parse ==
  /\ up /\ procPc = "parse"
  /\ procPc' = IF kind[hold] = "cross" THEN "add" ELSE "parseErr"
  /\ UNCHANGED <<chainVars, number, saved, refused, procVars, blockNum, timer, syncPc,
                 hold, stopVars>>

(* The rendezvous on errCh; apply stops the syncer.                        *)
SendErr ==
  /\ up /\ procPc \in {"parseErr", "addErr"} /\ syncPc = "select"
  /\ procPc' = IF procPc = "parseErr" THEN "add" ELSE "select"
  /\ refused' = refused \cup {hold}
  /\ ApplyDefault
  /\ UNCHANGED <<chainVars, number, saved, procVars, blockNum, timer, syncPc, hold>>

(* Mutant: the error of AddCrossTxs is not sent back.                      *)
AddCrossTxsSilent ==
  /\ up /\ procPc = "add" /\ kind[hold] # "badfirst"
  /\ saved' = saved \cup {hold} \/ (StoreMayFail /\ saved' = saved)
  /\ procPc' = "select"
  /\ UNCHANGED <<chainVars, number, refused, procVars, blockNum, timer, syncPc, hold,
                 stopVars>>

AddCrossTxs ==
  /\ up /\ procPc = "add" /\ kind[hold] # "badfirst"
  /\ \/ /\ saved' = saved \cup {hold}
        /\ procPc' = "select"
     \/ /\ StoreMayFail
        /\ procPc' = "addErr"
        /\ UNCHANGED saved
  /\ UNCHANGED <<chainVars, number, refused, procVars, blockNum, timer, syncPc, hold,
                 stopVars>>

-----------------------------------------------------------------------------
(* Stop, called by Handler.Stop or by the goroutine apply started.         *)
SelfStop ==
  /\ up /\ selfStop
  /\ selfStop' = FALSE /\ stopping' = TRUE
  /\ UNCHANGED <<chainVars, number, saved, refused, procVars, blockNum, timer, syncPc,
                 hold, procPc, stopPc>>

Stop ==
  /\ up /\ stopPc = "no"
  /\ stopping' = TRUE /\ stopPc' = "wait"
  /\ UNCHANGED <<chainVars, number, saved, refused, procVars, blockNum, timer, syncPc,
                 hold, procPc, selfStop>>

SyncDone ==
  /\ up /\ syncPc = "select" /\ stopping
  /\ syncPc' = "done" /\ timer' = FALSE
  /\ UNCHANGED <<chainVars, number, saved, refused, procVars, blockNum, hold, procPc,
                 stopVars>>

ProcDone ==
  /\ up /\ procPc = "select" /\ stopping
  /\ procPc' = "done"
  /\ UNCHANGED <<chainVars, number, saved, refused, procVars, blockNum, timer, syncPc,
                 hold, stopVars>>

StopReturn ==
  /\ up /\ stopPc = "wait" /\ syncPc = "done" /\ procPc = "done"
  /\ stopPc' = "returned"
  /\ UNCHANGED <<chainVars, number, saved, refused, procVars, blockNum, timer, syncPc,
                 hold, procPc, selfStop, stopping>>

-----------------------------------------------------------------------------
(* The process ends: killed between any two steps, or on the nil entry of  *)
(* a block whose first payload does not parse.  blockNum is then where the *)
(* next process will begin.                                                *)
Die ==
  /\ up' = FALSE
  /\ timer' = FALSE /\ syncPc' = "done" /\ procPc' = "done" /\ hold' = 0
  /\ selfStop' = FALSE /\ stopping' = FALSE /\ stopPc' = "no"
  /\ blockNum' = Resume(number)
  /\ UNCHANGED <<chainVars, number, saved, refused>>

Crash ==
  /\ up /\ crashes < MaxCrashes
  /\ crashes' = crashes + 1
  /\ Die
  /\ UNCHANGED panicked

NilEntry ==
  /\ up /\ procPc = "add" /\ kind[hold] = "badfirst"
  /\ panicked' = TRUE
  /\ Die
  /\ UNCHANGED crashes

(* NewBlockSync reads the number.                                          *)
Restart ==
  /\ ~up /\ ~panicked
  /\ up' = TRUE
  /\ blockNum' = Resume(number)
  /\ timer' = TRUE /\ syncPc' = "select" /\ procPc' = "select"
  /\ UNCHANGED <<chainVars, number, saved, refused, crashes, panicked, hold, stopVars>>

Sync == TimerFires \/ QueryBlock \/ SyncDone
Proc == Parse \/ AddCrossTxs \/ NilEntry \/ ProcDone

Next == AppendBlock \/ Sync \/ SendPreTxs \/ SendErr \/ Proc \/ SelfStop \/ Stop
          \/ StopReturn \/ Crash \/ Restart

Spec == Init /\ [][Next]_vars

(* Goroutines are scheduled, timers fire and a rendezvous both sides wait  *)
(* for happens.  A select picks among its ready cases at random, so a case *)
(* that is ready again and again is taken: strong fairness.                *)
Fairness ==
  /\ WF_vars(TimerFires) /\ WF_vars(QueryBlock) /\ SF_vars(SyncDone)
  /\ WF_vars(SendPreTxs) /\ SF_vars(SendErr)
  /\ WF_vars(Parse \/ AddCrossTxs \/ NilEntry) /\ SF_vars(ProcDone)
  /\ WF_vars(SelfStop) /\ WF_vars(StopReturn)

LiveSpec == Spec /\ Fairness

-----------------------------------------------------------------------------
Cross == {b \in Blocks : kind[b] # "plain"}

InHand(b) == hold = b /\ procPc \in {"parse", "add", "parseErr", "addErr"}

Behind == {b \in Cross : b < blockNum}

Missing == {b \in Behind : b \notin saved \cup refused /\ ~InHand(b)}

(* A cross block the syncer has gone past is stored, was refused with an   *)
(* error, or is in the hands of processPreTxs; every crash loses at most   *)
(* the one block that was there when the next number was persisted         *)
(* (syncer.go:106, 129-131).                                               *)
AtMostOneLostPerCrash ==
  ~panicked => Cardinality(Missing) <= crashes

(* A restart meets at most one block again that was stored already, the    *)
(* last one: nothing older is delivered twice (syncer.go:33, 106).         *)
RedeliverAtMostOne ==
  \A b \in saved : b >= number => b = number /\ \A c \in saved : c <= b

(* What a restart costs at most: one block lost, one met again, whatever   *)
(* the crash came between (syncer.go:33, 78, 106).                         *)
RestartCosts == TypeOK /\ AtMostOneLostPerCrash /\ RedeliverAtMostOne

(* Blocks reach the database in chain order, across restarts too, so a     *)
(* commit never overtakes the precommit of its contract.                   *)
SavedInOrder ==
  [][\A b \in saved' \ saved : \A c \in saved : c < b]_vars

MutualBlock == syncPc = "send" /\ procPc \in {"parseErr", "addErr"}

(* A block with cross transactions is stored in the end, unless the syncer *)
(* stops, a crash loses the block or comes between its refusal and the     *)
(* stop, the process stays down, or both goroutines wait for each other:   *)
(* each sends what the other does not receive (syncer.go:129, 162, 186).   *)
BlockSaved ==
  \A b \in Blocks :
    (b <= height /\ b \in Cross)
      ~> \/ b \in saved \cup Missing
         \/ stopping
         \/ ~up
         \/ MutualBlock
         \/ b \in refused /\ crashes > 0

=============================================================================
