--------------------------- MODULE Courier_proofs ---------------------------
(***************************************************************************)
(* Stopping the courier: what Handler.Stop has waited for is over, for any *)
(* transactions, requests and capacities.                                  *)
(*                                                                         *)
(* StopInv strengthens StopInOrder.  A part that Stop has waited for may   *)
(* not be brought back to work by one that is still running, so it says    *)
(* what each stage leaves behind (StageInv), who holds a transaction on    *)
(* its way into the database (HoldInv), and that nothing is lost on the    *)
(* way (UnsavedHeld).                                                      *)
(***************************************************************************)
EXTENDS Courier, Integers, TLAPS

After(stages) == stopPc \in stages

StageInv ==
  /\ After({"server", "tasks", "txm", "database", "returned"}) => syncPc = "done" /\ procPc = "done"
  /\ TasksStopping => \A q \in Requests : ~Serving(q)
  /\ TasksOver
  /\ After({"database", "returned"}) => sndPc = "done" /\ rcvPc = "done"

(* The transaction at the rendezvous, and the one processPreTxs holds.     *)
Holding == {"parse", "parseErr", "nil", "push", "save"}

HoldInv ==
  /\ syncPc = "send" => syncTx \in Txs
  /\ procPc \in Holding => procTx \in Txs

UnsavedHeld ==
  \A x \in handed \ refused : record[x] = "Absent" => procPc \in Holding /\ procTx = x

StopInv == TypeOK /\ StageInv /\ HoldInv /\ UnsavedHeld

-----------------------------------------------------------------------------
(* The bags of goroutines.                                                 *)
LEMMA AddToBag ==
  ASSUME NEW S, NEW B, NEW b \in S, IsABag(B), BagToSet(B) \subseteq S
  PROVE  IsABag(B (+) SetToBag({b})) /\ BagToSet(B (+) SetToBag({b})) \subseteq S
<1> DEFINE One == SetToBag({b})
           C == [e \in DOMAIN B \cup DOMAIN One |->
                   (IF e \in DOMAIN B THEN B[e] ELSE 0) + (IF e \in DOMAIN One THEN One[e] ELSE 0)]
<1>1. One = [e \in {b} |-> 1]
  BY DEF SetToBag
<1>2. DOMAIN One = {b} /\ \A e \in DOMAIN One : One[e] = 1
  BY <1>1
<1>3. \A e \in DOMAIN B : B[e] \in {n \in Nat : n > 0}
  BY DEF IsABag
<1> HIDE DEF One
<1>4. DOMAIN C = DOMAIN B \cup {b}
  BY <1>2
<1>5. ASSUME NEW e \in DOMAIN C
      PROVE  C[e] \in {n \in Nat : n > 0}
  <2>1. C[e] = (IF e \in DOMAIN B THEN B[e] ELSE 0) + (IF e \in DOMAIN One THEN One[e] ELSE 0)
    BY <1>5
  <2>2. e \in DOMAIN B \/ e \in DOMAIN One
    BY <1>5
  <2> QED BY <2>1, <2>2, <1>2, <1>3
<1>6. C = [e \in DOMAIN C |-> C[e]]
  OBVIOUS
<1>7. B (+) One = C
  BY DEF (+)
<1> HIDE DEF C
<1>8. C \in [DOMAIN C -> {n \in Nat : n > 0}]
  BY <1>5, <1>6
<1>9. DOMAIN C \subseteq S
  BY <1>4 DEF BagToSet
<1> QED BY <1>7, <1>8, <1>9 DEF IsABag, BagToSet, One

LEMMA TakeFromBag ==
  ASSUME NEW S, NEW B, NEW b, IsABag(B), BagToSet(B) \subseteq S
  PROVE  IsABag(B (-) SetToBag({b})) /\ BagToSet(B (-) SetToBag({b})) \subseteq S
<1> DEFINE One == SetToBag({b})
           D == [e \in DOMAIN B |-> IF e \in DOMAIN One THEN B[e] - One[e] ELSE B[e]]
           C == [e \in {d \in DOMAIN D : D[d] > 0} |-> D[e]]
<1>1. One = [e \in {b} |-> 1]
  BY DEF SetToBag
<1>2. DOMAIN One = {b} /\ \A e \in DOMAIN One : One[e] = 1
  BY <1>1
<1>3. \A e \in DOMAIN B : B[e] \in {n \in Nat : n > 0}
  BY DEF IsABag
<1> HIDE DEF One
<1>4. \A e \in DOMAIN B : D[e] \in Int
  BY <1>2, <1>3
<1>5. B (-) One = C
  BY DEF (-)
<1>6. DOMAIN D = DOMAIN B
  OBVIOUS
<1> HIDE DEF D
<1>7. \A e \in DOMAIN C : C[e] \in {n \in Nat : n > 0}
  BY <1>4, <1>6
<1>8. C = [e \in DOMAIN C |-> C[e]] /\ DOMAIN C \subseteq DOMAIN B
  BY <1>6
<1> HIDE DEF C
<1>9. C \in [DOMAIN C -> {n \in Nat : n > 0}] /\ DOMAIN C \subseteq S
  BY <1>7, <1>8 DEF BagToSet
<1> QED BY <1>5, <1>9 DEF IsABag, BagToSet, One

LEMMA NoBag == \A S : IsABag(EmptyBag) /\ BagToSet(EmptyBag) \subseteq S
<1>1. EmptyBag = [e \in {} |-> 1]
  BY DEF EmptyBag, SetToBag
<1>2. DOMAIN EmptyBag = {} /\ EmptyBag \in [{} -> {n \in Nat : n > 0}]
  BY <1>1
<1> QED BY <1>2 DEF IsABag, BagToSet
-----------------------------------------------------------------------------
(* Typing: the flags, whose values are formulas, and the data apart.       *)
Flags == panicked \in BOOLEAN /\ syncStop \in BOOLEAN

Control ==
  /\ stopPc \in {"no", "syncer", "server", "tasks", "txm", "database", "returned"}
  /\ syncPc \in {"select", "send", "done"} /\ syncTx \in Txs \cup {NoTx}
  /\ procPc \in {"select", "parse", "parseErr", "nil", "push", "save", "addErr",
                 "size", "signal", "done"}
  /\ procTx \in Txs \cup {NoTx}
  /\ sndPc \in {"select", "drain", "send", "done"}
  /\ rcvPc \in {"select", "drain", "update", "done"}

Contents ==
  /\ record \in [Txs -> {"Absent", "Init", "Pending"}] /\ handed \subseteq Txs
  /\ refused \subseteq Txs
  /\ pending \subseteq Txs /\ pendingCh \in 0..PendingCap /\ sndBatch \subseteq Txs
  /\ conn \in [Requests -> {"no", "serve", "answer", "over"}]
  /\ task \in [Requests -> {"no", "push", "signal", "over"}]
  /\ executed \subseteq Requests /\ executedCh \in 0..ExecutedCap /\ rcvBatch \subseteq Requests

UpdatesTyped == IsABag(updates) /\ BagToSet(updates) \subseteq SUBSET Txs

CommitsTyped == IsABag(commits) /\ BagToSet(commits) \subseteq SUBSET Requests

LEMMA Parts == TypeOK <=> Flags /\ Control /\ Contents /\ UpdatesTyped /\ CommitsTyped
BY DEF TypeOK, Flags, Control, Contents, UpdatesTyped, CommitsTyped

LEMMA FlagsStep ==
  ASSUME Flags, Next
  PROVE  Flags'
<1> USE DEF Flags, stopVars, syncVars, procVars, sndVars, netVars, rcvVars
<1>1. CASE Stop \/ Handler
  BY <1>1, Zenon DEF Stop, Handler, Stage, SyncerStopped, ServerStopped, TasksDone, TxmStopped, CloseDB
<1>2. CASE Sync \/ SendPreTxs \/ SendErr \/ Proc
  BY <1>2, Zenon DEF Sync, FindTx, SyncFails, SyncDone, SendPreTxs, SendErr, Proc, Parse, NilEntry, AtErrCh, AddPush, AddSave,
                     AddSize, AddSignal, ProcDone
<1>3. CASE Snd \/ \E b \in BagToSet(updates) : Update(b)
  BY <1>3, Zenon DEF Snd, SndWake, SndDrain, SndSend, SndDone, Update
<1>4. ASSUME NEW q \in Requests, Accept(q) \/ Serve(q) \/ Recv(q)
      PROVE  Flags'
  BY <1>4, Zenon DEF Accept, Serve, ServeHTTP, Answer, Recv, RecvPush, RecvSignal
<1>5. CASE Rcv \/ \E b \in BagToSet(commits) : CommitNext(b)
  BY <1>5, Zenon DEF Rcv, RcvWake, RcvDrain, RcvUpdate, RcvDone, CommitNext
<1> QED BY <1>1, <1>2, <1>3, <1>4, <1>5 DEF Next

LEMMA ControlStep ==
  ASSUME Control, Next
  PROVE  Control'
<1> USE DEF Control, stopVars, syncVars, procVars, sndVars, netVars, rcvVars
<1>1. CASE Stop \/ Handler
  BY <1>1 DEF Stop, Handler, Stage, SyncerStopped, ServerStopped, TasksDone, TxmStopped, CloseDB
<1>2. CASE Sync \/ SendPreTxs \/ SendErr
  BY <1>2 DEF Sync, FindTx, SyncFails, SyncDone, SendPreTxs, SendErr, AtErrCh
<1>3. CASE Proc
  BY <1>3 DEF Proc, Parse, NilEntry, AddPush, AddSave, AddSize, AddSignal, ProcDone
<1>4. CASE Snd
  BY <1>4 DEF Snd, SndWake, SndDrain, SndSend, SndDone
<1>5. ASSUME NEW b \in BagToSet(updates), Update(b)
      PROVE  Control'
  <2>1. UNCHANGED <<stopPc, syncPc, syncTx, procPc, procTx, sndPc, rcvPc>>
    BY <1>5, Zenon DEF Update
  <2> QED BY <2>1
<1>6. ASSUME NEW q \in Requests, Accept(q) \/ Serve(q) \/ Recv(q)
      PROVE  Control'
  BY <1>6 DEF Accept, Serve, ServeHTTP, Answer, Recv, RecvPush, RecvSignal
<1>7. CASE Rcv \/ \E b \in BagToSet(commits) : CommitNext(b)
  BY <1>7 DEF Rcv, RcvWake, RcvDrain, RcvUpdate, RcvDone, CommitNext
<1> QED BY <1>1, <1>2, <1>3, <1>4, <1>5, <1>6, <1>7 DEF Next

LEMMA ContentsStep ==
  ASSUME Contents, HoldInv, UpdatesTyped, CommitsTyped, Next
  PROVE  Contents'
<1> USE CourierAssumption DEF Contents, stopVars, syncVars, procVars, sndVars, netVars, rcvVars
<1>1. CASE Stop \/ Handler
  BY <1>1 DEF Stop, Handler, Stage, SyncerStopped, ServerStopped, TasksDone, TxmStopped, CloseDB
<1>2. CASE Sync \/ SendPreTxs \/ SendErr
  BY <1>2 DEF Sync, FindTx, SyncFails, SyncDone, SendPreTxs, SendErr, AtErrCh, HoldInv
<1>3. CASE Proc
  <2>1. CASE AddPush
    BY <2>1 DEF AddPush, HoldInv, Holding
  <2>2. CASE AddSave
    BY <2>2 DEF AddSave, HoldInv, Holding
  <2>3. CASE Parse \/ NilEntry \/ AddSize \/ ProcDone
    BY <2>3 DEF Parse, NilEntry, AddSize, ProcDone
  <2>4. CASE AddSignal
    BY <2>4 DEF AddSignal
  <2> QED BY <1>3, <2>1, <2>2, <2>3, <2>4 DEF Proc
<1>4. CASE Snd
  <2>1. CASE SndWake \/ SndDrain \/ SndDone
    BY <2>1 DEF SndWake, SndDrain, SndDone
  <2>2. CASE SndSend
    BY <2>2 DEF SndSend
  <2> QED BY <1>4, <2>1, <2>2 DEF Snd
<1>5. ASSUME NEW b \in BagToSet(updates), Update(b)
      PROVE  Contents'
  BY <1>5 DEF Update
<1>6. ASSUME NEW q \in Requests, Accept(q) \/ Serve(q)
      PROVE  Contents'
  BY <1>6 DEF Accept, Serve, ServeHTTP, Answer
<1>7. ASSUME NEW q \in Requests, Recv(q)
      PROVE  Contents'
  BY <1>7 DEF Recv, RecvPush, RecvSignal
<1>8. CASE Rcv
  BY <1>8 DEF Rcv, RcvWake, RcvDrain, RcvUpdate, RcvDone
<1>9. ASSUME NEW b \in BagToSet(commits), CommitNext(b)
      PROVE  Contents'
  <2>1. b \subseteq Requests
    BY DEF CommitsTyped
  <2>2. executed' \subseteq executed \cup b
    BY <1>9 DEF CommitNext
  <2>3. UNCHANGED <<stopVars, procVars, sndVars, netVars, executedCh, rcvBatch>>
    BY <1>9 DEF CommitNext
  <2> QED BY <2>1, <2>2, <2>3
<1> QED BY <1>1, <1>2, <1>3, <1>4, <1>5, <1>6, <1>7, <1>8, <1>9 DEF Next

(* A bag of goroutines grows with a batch and shrinks with one of its own. *)
LEMMA BagsStep ==
  ASSUME Contents, UpdatesTyped, CommitsTyped, Next
  PROVE  UpdatesTyped' /\ CommitsTyped'
<1> USE DEF stopVars, syncVars, procVars, sndVars, netVars, rcvVars
<1>1. CASE UNCHANGED <<updates, commits>>
  BY <1>1, Zenon DEF UpdatesTyped, CommitsTyped
<1>2. CASE SndSend
  <2>1. PICK ok \in SUBSET sndBatch : updates' = updates (+) SetToBag({ok})
    BY <1>2 DEF SndSend
  <2>2. ok \in SUBSET Txs
    BY <2>1 DEF Contents
  <2>3. UpdatesTyped'
    BY <2>1, <2>2, AddToBag DEF UpdatesTyped
  <2> QED BY <1>2, <2>3 DEF SndSend, CommitsTyped
<1>3. ASSUME NEW b \in BagToSet(updates), Update(b)
      PROVE  UpdatesTyped' /\ CommitsTyped'
  <2>1. UpdatesTyped'
    BY <1>3, TakeFromBag DEF Update, UpdatesTyped
  <2> QED BY <1>3, <2>1 DEF Update, CommitsTyped
<1>4. CASE RcvUpdate
  <2>1. UNCHANGED updates /\ (UNCHANGED commits \/ commits' = commits (+) SetToBag({rcvBatch}))
    BY <1>4 DEF RcvUpdate
  <2>2. ASSUME NEW r \in SUBSET Requests, commits' = commits (+) SetToBag({r})
        PROVE  CommitsTyped'
    BY <2>2, AddToBag DEF CommitsTyped
  <2>3. rcvBatch \in SUBSET Requests
    BY DEF Contents
  <2> QED BY <1>1, <2>1, <2>2, <2>3 DEF UpdatesTyped
<1>5. ASSUME NEW b \in BagToSet(commits), CommitNext(b)
      PROVE  UpdatesTyped' /\ CommitsTyped'
  <2> DEFINE Rest == commits (-) SetToBag({b})
  <2>1. IsABag(Rest) /\ BagToSet(Rest) \subseteq SUBSET Requests
    BY TakeFromBag DEF CommitsTyped
  <2>2. UNCHANGED updates
    BY <1>5 DEF CommitNext
  <2>3. CASE commits' = Rest
    BY <2>1, <2>2, <2>3 DEF UpdatesTyped, CommitsTyped
  <2>4. ASSUME NEW q \in b, commits' = Rest (+) SetToBag({b \ {q}})
        PROVE  UpdatesTyped' /\ CommitsTyped'
    <3>1. b \ {q} \in SUBSET Requests
      BY DEF CommitsTyped
    <3> HIDE DEF Rest
    <3>2. ASSUME NEW r \in SUBSET Requests, commits' = Rest (+) SetToBag({r})
          PROVE  CommitsTyped'
      BY <2>1, <3>2, AddToBag DEF CommitsTyped
    <3> QED BY <2>2, <2>4, <3>1, <3>2 DEF UpdatesTyped
  <2> QED BY <1>5, <2>3, <2>4 DEF CommitNext
<1>6. CASE Stop \/ Handler \/ Sync \/ SendPreTxs \/ SendErr \/ Proc
  BY <1>1, <1>6 DEF Stop, Handler, Stage, SyncerStopped, ServerStopped, TasksDone, TxmStopped,
                    CloseDB, Sync, FindTx, SyncFails, SyncDone, SendPreTxs, SendErr, Proc, Parse, NilEntry, AtErrCh, AddPush,
                    AddSave, AddSize, AddSignal, ProcDone
<1>7. CASE SndWake \/ SndDrain \/ SndDone \/ RcvWake \/ RcvDrain \/ RcvDone
  BY <1>1, <1>7 DEF SndWake, SndDrain, SndDone, RcvWake, RcvDrain, RcvDone
<1>8. ASSUME NEW q \in Requests, Accept(q) \/ Serve(q) \/ Recv(q)
      PROVE  UNCHANGED <<updates, commits>>
  BY <1>8 DEF Accept, Serve, ServeHTTP, Answer, Recv, RecvPush, RecvSignal
<1> QED
  BY <1>1, <1>2, <1>3, <1>4, <1>5, <1>6, <1>7, <1>8 DEF Next, Snd, Rcv

LEMMA TypeStep ==
  ASSUME TypeOK, HoldInv, [Next]_vars
  PROVE  TypeOK'
<1>1. CASE UNCHANGED vars
  BY <1>1 DEF vars, stopVars, syncVars, procVars, sndVars, netVars, rcvVars, TypeOK
<1>2. CASE Next
  <2>1. Flags' /\ Control' /\ Contents' /\ UpdatesTyped' /\ CommitsTyped'
    BY <1>2, Parts, FlagsStep, ControlStep, ContentsStep, BagsStep
  <2> QED
    BY <2>1, Zenon DEF TypeOK, Flags, Control, Contents, UpdatesTyped, CommitsTyped
<1> QED BY <1>1, <1>2

-----------------------------------------------------------------------------
(* Each stage, and the transactions on their way.                          *)
LEMMA HoldStep ==
  ASSUME TypeOK, HoldInv, [Next]_vars
  PROVE  HoldInv'
BY DEF HoldInv, Holding, TypeOK, Next, vars, Stop, Handler, Stage, SyncerStopped, ServerStopped, TasksDone,
       TxmStopped, CloseDB, Sync, FindTx, SyncFails, SyncDone, SendPreTxs, SendErr, Proc, Parse, NilEntry, AtErrCh, AddPush, AddSave,
       AddSize, AddSignal, ProcDone, Snd, SndWake, SndDrain, SndSend, SndDone, Update, Accept,
       Serve, ServeHTTP, Answer, Recv, RecvPush, RecvSignal, Rcv, RcvWake, RcvDrain, RcvUpdate,
       RcvDone, CommitNext, stopVars, syncVars, procVars, sndVars, netVars, rcvVars

(* Only the actions of the HTTP server touch a connection or a task.       *)
LEMMA StageStep ==
  ASSUME TypeOK, StageInv, [Next]_vars
  PROVE  StageInv'
<1> USE DEF StageInv, After, TasksStopping, TxmStopping, TasksOver, Serving,
            stopVars, syncVars, procVars, sndVars, netVars, rcvVars
<1>1. CASE Stop \/ Handler
  BY <1>1 DEF Stop, Handler, Stage, SyncerStopped, ServerStopped, TasksDone, TxmStopped, CloseDB, TypeOK
<1>2. CASE Sync \/ SendPreTxs \/ SendErr \/ Proc
  BY <1>2 DEF Sync, FindTx, SyncFails, SyncDone, SendPreTxs, SendErr, Proc, Parse, NilEntry, AtErrCh, AddPush, AddSave, AddSize,
              AddSignal, ProcDone
<1>3. CASE Snd \/ \E b \in BagToSet(updates) : Update(b)
  BY <1>3 DEF Snd, SndWake, SndDrain, SndSend, SndDone, Update
<1>4. ASSUME NEW q \in Requests, Accept(q) \/ Serve(q)
      PROVE  StageInv'
  BY <1>4 DEF Accept, Serve, ServeHTTP, Answer, TypeOK
<1>5. ASSUME NEW q \in Requests, Recv(q)
      PROVE  StageInv'
  BY <1>5 DEF Recv, RecvPush, RecvSignal, TypeOK
<1>6. CASE Rcv \/ \E b \in BagToSet(commits) : CommitNext(b)
  BY <1>6 DEF Rcv, RcvWake, RcvDrain, RcvUpdate, RcvDone, CommitNext
<1>7. CASE UNCHANGED vars
  BY <1>7 DEF vars
<1> QED BY <1>1, <1>2, <1>3, <1>4, <1>5, <1>6, <1>7 DEF Next

LEMMA UnsavedStep ==
  ASSUME TypeOK, HoldInv, UnsavedHeld, [Next]_vars
  PROVE  UnsavedHeld'
<1> USE DEF UnsavedHeld, Holding, stopVars, syncVars, procVars, sndVars, netVars, rcvVars
<1>1. CASE Stop \/ Handler
  BY <1>1 DEF Stop, Handler, Stage, SyncerStopped, ServerStopped, TasksDone, TxmStopped, CloseDB
<1>2. CASE SendPreTxs \/ SendErr
  BY <1>2 DEF SendPreTxs, SendErr, AtErrCh
<1>3. CASE Sync
  BY <1>3 DEF Sync, FindTx, SyncFails, SyncDone
<1>4. CASE AddSave
  BY <1>4 DEF AddSave, TypeOK, HoldInv
<1>5. CASE Proc /\ ~AddSave
  BY <1>5 DEF Proc, Parse, NilEntry, AddPush, AddSize, AddSignal, ProcDone
<1>6. CASE Snd
  BY <1>6 DEF Snd, SndWake, SndDrain, SndSend, SndDone
<1>7. ASSUME NEW b \in BagToSet(updates), Update(b)
      PROVE  UnsavedHeld'
  <2>1. \A x \in handed : x \in Txs
    BY DEF TypeOK
  <2>2. \A x \in handed : record'[x] = "Absent" => record[x] = "Absent"
    BY <1>7, <2>1 DEF Update
  <2> QED BY <1>7, <2>2 DEF Update
<1>8. ASSUME NEW q \in Requests, Accept(q) \/ Serve(q) \/ Recv(q)
      PROVE  UnsavedHeld'
  BY <1>8 DEF Accept, Serve, ServeHTTP, Answer, Recv, RecvPush, RecvSignal
<1>9. CASE Rcv \/ \E b \in BagToSet(commits) : CommitNext(b)
  BY <1>9 DEF Rcv, RcvWake, RcvDrain, RcvUpdate, RcvDone, CommitNext
<1>10. CASE UNCHANGED vars
  BY <1>10 DEF vars
<1> QED BY <1>1, <1>2, <1>3, <1>4, <1>5, <1>6, <1>7, <1>8, <1>9, <1>10 DEF Next

LEMMA InvInit == Init => StopInv
<1> SUFFICES ASSUME Init
             PROVE  StopInv
  OBVIOUS
<1>1. TypeOK
  <2>1. Flags
    BY DEF Init, Flags
  <2>2. Control
    BY DEF Init, Control
  <2>3. Contents
    BY CourierAssumption DEF Init, Contents
  <2>4. UpdatesTyped /\ CommitsTyped
    BY NoBag DEF Init, UpdatesTyped, CommitsTyped
  <2> QED BY <2>1, <2>2, <2>3, <2>4, Parts
<1>2. StageInv /\ HoldInv /\ UnsavedHeld
  BY DEF Init, StageInv, After, TasksStopping, TasksOver, TxmStopping, HoldInv, Holding,
         UnsavedHeld
<1> QED BY <1>1, <1>2 DEF StopInv

LEMMA InvStep == StopInv /\ [Next]_vars => StopInv'
BY TypeStep, StageStep, HoldStep, UnsavedStep DEF StopInv

LEMMA Invariant == Spec => []StopInv
BY InvInit, InvStep, PTL DEF Spec

(* What Stop has waited for at each of its stages is over: no receipt      *)
(* goroutine runs when the loops end, no loop meets the closed database,   *)
(* and no transaction that was handed over is lost (handler.go:58-68).     *)
THEOREM StoppedInOrder == Spec => []StopInOrder
<1>1. StopInv => StopInOrder
  <2> SUFFICES ASSUME StopInv
               PROVE  StopInOrder
    OBVIOUS
  <2>1. LoopsOverDb
    BY DEF StopInv, StageInv, After, LoopsOverDb, DbOpen
  <2>2. HandedSaved
    BY DEF StopInv, StageInv, After, UnsavedHeld, Holding, HandedSaved
  <2> QED BY <2>1, <2>2 DEF StopInv, StageInv, StopInOrder
<1> QED BY <1>1, Invariant, PTL

=============================================================================
