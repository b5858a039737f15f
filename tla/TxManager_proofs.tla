-------------------------- MODULE TxManager_proofs --------------------------
(***************************************************************************)
(* Proofs about TxManager: for any set of transactions, receipts and       *)
(* commit goroutines, any channel capacities and any failures.             *)
(***************************************************************************)
EXTENDS TxManager, TLAPS
(* The operators on queues keep bags bags.                                 *)
LEMMA PushBag ==
  ASSUME NEW S, NEW q \in [S -> Nat], NEW x \in S
  PROVE  Push(q, x) \in [S -> Nat]
BY DEF Push

LEMMA DropBag ==
  ASSUME NEW S, NEW q \in [S -> Nat], NEW x \in S, In(x, q)
  PROVE  Drop(q, x) \in [S -> Nat]
BY DEF Drop, In

LEMMA EmptyBag ==
  ASSUME NEW S
  PROVE  Empty(S) \in [S -> Nat]
BY DEF Empty

LEMMA AfterPushBag ==
  ASSUME NEW S, NEW q \in [S -> Nat], NEW x \in S, NEW t \in BOOLEAN,
         NEW r \in AfterPush(q, x, t)
  PROVE  r \in [S -> Nat]
<1>1. CASE r = Push(q, x)
  BY <1>1, PushBag
<1>2. CASE r = q
  BY <1>2
<1>3. CASE \E y \in Elements(q) : r = Push(Drop(q, y), x)
  <2>1. PICK y \in Elements(q) : r = Push(Drop(q, y), x)
    BY <1>3
  <2>2. y \in S /\ In(y, q)
    BY DEF Elements, In
  <2>3. Drop(q, y) \in [S -> Nat]
    BY <2>2, DropBag
  <2> QED
    BY <2>1, <2>3, PushBag
<1> QED
  BY <1>1, <1>2, <1>3 DEF AfterPush

(* A pushed queue holds nothing but what was there and the pushed element. *)
LEMMA AfterPushElements ==
  ASSUME NEW S, NEW q \in [S -> Nat], NEW x \in S, NEW t \in BOOLEAN,
         NEW r \in AfterPush(q, x, t), NEW z \in S, In(z, r)
  PROVE  In(z, q) \/ z = x
<1>1. CASE r = Push(q, x)
  BY <1>1 DEF Push, In
<1>2. CASE r = q
  BY <1>2
<1>3. CASE \E y \in Elements(q) : r = Push(Drop(q, y), x)
  <2>1. PICK y \in Elements(q) : r = Push(Drop(q, y), x)
    BY <1>3
  <2>2. y \in S /\ In(y, q)
    BY DEF Elements, In
  <2>3. Drop(q, y) \in [S -> Nat]
    BY <2>2, DropBag
  <2> QED
    BY <2>1, <2>2, <2>3 DEF Push, Drop, In
<1> QED
  BY <1>1, <1>2, <1>3 DEF AfterPush

LEMMA SaveRecords ==
  ASSUME NEW d \in [CrossIDs -> Records], NEW batch \in Batches, NEW unread
  PROVE  Save(d, batch, unread) \in [CrossIDs -> Records]
<1>1. SUFFICES ASSUME NEW i \in CrossIDs
      PROVE  SaveOne(d[i], batch[i]) \in Records
  BY DEF Save
<1>2. d[i] \in Records /\ batch[i] \in {"None", "Init", "Finished"}
  BY DEF Batches
<1> QED
  BY <1>2 DEF SaveOne, Records, CStatus, IsStored

LEMMA UpdatesRecords ==
  ASSUME NEW d \in [CrossIDs -> Records], NEW ids \in SUBSET CrossIDs,
         NEW new \in [ids -> Records]
  PROVE  Updates(d, new) \in [CrossIDs -> Records]
BY DEF Updates

LEMMA ToPendingRecords ==
  ASSUME db \in [CrossIDs -> Records], NEW ids \in SUBSET CrossIDs
  PROVE  ToPending(ids) \in [ids -> Records]
BY DEF ToPending, Records, CStatus

LEMMA ToExecutedRecords ==
  ASSUME db \in [CrossIDs -> Records],
         NEW ids \in SUBSET CrossIDs, NEW last \in Receipts
  PROVE  ToExecuted(ids, last) \in [ids -> Records]
<1>1. last.val \in Values
  BY ReceiptsAssumption
<1> QED
  BY <1>1 DEF ToExecuted, Records, CStatus

-----------------------------------------------------------------------------
(* Every state has the declared types: the program counters, channels and  *)
(* queues of txmanager.go and handler.go stay in their ranges.             *)
LEMMA InitType ==
  ASSUME Init
  PROVE  TypeOK
<1>1. TypeData
  BY DEF Init, TypeData, Records, CStatus, Absent, Batches, NoBatch
<1>2. TypeChan
  BY CapsAssumption DEF Init, TypeChan
<1>3. TypeBag
  <2>1. Empty(CrossIDs) \in [CrossIDs -> Nat]
    BY EmptyBag, Zenon
  <2>2. Empty(Receipts) \in [Receipts -> Nat]
    BY EmptyBag, Zenon
  <2>3. Empty(SUBSET CrossIDs) \in [SUBSET CrossIDs -> Nat]
    BY EmptyBag, Zenon
  <2> QED
    BY <2>1, <2>2, <2>3 DEF Init, TypeBag
<1>4. TypePc
  BY DEF Init, TypePc
<1>5. TypeFlag
  BY DEF Init, TypeFlag
<1> QED
  BY <1>1, <1>2, <1>3, <1>4, <1>5 DEF TypeOK

LEMMA DieType ==
  ASSUME TypeOK, Die, panics' \subseteq {"update", "queue"}
  PROVE  TypeOK'
<1>1. TypeData'
  BY DEF TypeOK, TypeData, Die, VolatileReset
<1>2. TypeChan'
  BY CapsAssumption DEF TypeOK, TypeChan, Die, VolatileReset
<1>3. TypeBag'
  <2>1. Empty(CrossIDs) \in [CrossIDs -> Nat]
    BY EmptyBag, Zenon
  <2>2. Empty(Receipts) \in [Receipts -> Nat]
    BY EmptyBag, Zenon
  <2>3. Empty(SUBSET CrossIDs) \in [SUBSET CrossIDs -> Nat]
    BY EmptyBag, Zenon
  <2> QED
    BY <2>1, <2>2, <2>3 DEF Die, VolatileReset, TypeBag
<1>4. TypePc'
  BY DEF Die, VolatileReset, TypePc
<1>5. TypeFlag'
  BY DEF TypeOK, TypeFlag, Die, VolatileReset
<1> QED
  BY <1>1, <1>2, <1>3, <1>4, <1>5 DEF TypeOK

LEMMA TypeStep ==
  ASSUME TypeOK, [Next]_vars
  PROVE  TypeOK'
<1> USE DEF TypeOK, procVars, addVars, penVars, sndVars, exeVars, recvVars, rcvVars,
            cmtVars, obsVars
<1>1. ASSUME NEW b \in Incoming, Deliver(b) PROVE TypeOK'
  <2>1. TypeData'
    <3>1. \A i \in CrossIDs : b[i] # "None" => seen[i] \in 0..1
      BY DEF Incoming, Next1, TypeData
    <3>2. \A i \in CrossIDs :
            (IF b[i] = "None" THEN seen[i] ELSE seen[i] + 1) \in 0..2
      BY <3>1 DEF TypeData
    <3>3. b \in Batches
      BY DEF Incoming
    <3> QED
      BY <1>1, <3>2, <3>3 DEF Deliver, TypeData
  <2>2. TypeChan'
    BY <1>1 DEF Deliver, TearPending, TypeChan
  <2>3. TypeBag'
    BY <1>1 DEF Deliver, TearPending, TypeBag
  <2>4. TypePc'
    BY <1>1 DEF Deliver, TearPending, TypePc
  <2>5. TypeFlag'
    BY <1>1 DEF Deliver, TearPending, TypeFlag
  <2> QED
    BY <2>1, <2>2, <2>3, <2>4, <2>5
<1>2. ASSUME AddSave PROVE TypeOK'
  <2>1. TypeData'
    BY <1>2, SaveRecords DEF AddSave, TypeData
  <2>2. TypeChan'
    BY <1>2 DEF AddSave, TypeChan
  <2>3. TypeBag'
    BY <1>2 DEF AddSave, TypeBag
  <2>4. TypePc'
    BY <1>2 DEF AddSave, TypePc
  <2>5. TypeFlag'
    BY <1>2 DEF AddSave, TypeFlag
  <2> QED
    BY <2>1, <2>2, <2>3, <2>4, <2>5
<1>3. ASSUME AddSize PROVE TypeOK'
  <2>1. TypeData'
    BY <1>3 DEF AddSize, TypeData
  <2>2. TypeChan'
    BY <1>3 DEF AddSize, TypeChan
  <2>3. TypeBag'
    BY <1>3 DEF AddSize, TypeBag
  <2>4. TypePc'
    BY <1>3 DEF AddSize, TypePc
  <2>5. TypeFlag'
    BY <1>3 DEF AddSize, TypeFlag
  <2> QED
    BY <2>1, <2>2, <2>3, <2>4, <2>5
<1>4. ASSUME AddSignal PROVE TypeOK'
  <2>1. TypeData'
    BY <1>4 DEF AddSignal, TypeData
  <2>2. TypeChan'
    BY <1>4, CapsAssumption DEF AddSignal, TypeChan
  <2>3. TypeBag'
    BY <1>4 DEF AddSignal, TypeBag
  <2>4. TypePc'
    BY <1>4 DEF AddSignal, TypePc
  <2>5. TypeFlag'
    BY <1>4 DEF AddSignal, TypeFlag
  <2> QED
    BY <2>1, <2>2, <2>3, <2>4, <2>5
<1>5. ASSUME SndWake PROVE TypeOK'
  <2>1. TypeData'
    BY <1>5 DEF SndWake, TypeData
  <2>2. TypeChan'
    BY <1>5, CapsAssumption DEF SndWake, TypeChan
  <2>3. TypeBag'
    BY <1>5 DEF SndWake, TypeBag
  <2>4. TypePc'
    BY <1>5 DEF SndWake, TypePc
  <2>5. TypeFlag'
    BY <1>5 DEF SndWake, TypeFlag
  <2> QED
    BY <2>1, <2>2, <2>3, <2>4, <2>5
<1>6. ASSUME SndDrain PROVE TypeOK'
  <2>1. TypeData'
    BY <1>6 DEF SndDrain, TypeData
  <2>2. TypeChan'
    BY <1>6 DEF SndDrain, TypeChan
  <2>3. TypeBag'
    BY <1>6, EmptyBag DEF SndDrain, TypeBag
  <2>4. TypePc'
    BY <1>6 DEF SndDrain, TypePc
  <2>5. TypeFlag'
    BY <1>6 DEF SndDrain, TypeFlag
  <2> QED
    BY <2>1, <2>2, <2>3, <2>4, <2>5
<1>7. ASSUME NEW i \in CrossIDs, SndSend(i) PROVE TypeOK'
  <2>1. TypeData'
    BY <1>7 DEF SndSend, Firsts, Elements, In, TypeData
  <2>2. TypeChan'
    BY <1>7 DEF SndSend, Firsts, Elements, In, TypeChan
  <2>3. TypeBag'
    BY <1>7, DropBag DEF SndSend, Firsts, Elements, In, TypeBag
  <2>4. TypePc'
    BY <1>7 DEF SndSend, Firsts, Elements, In, TypePc
  <2>5. TypeFlag'
    BY <1>7 DEF SndSend, Firsts, Elements, In, TypeFlag
  <2> QED
    BY <2>1, <2>2, <2>3, <2>4, <2>5
<1>8. ASSUME SndPushBack PROVE TypeOK'
  <2>1. TypeData'
    BY <1>8 DEF SndPushBack, TypeData
  <2>2. TypeChan'
    BY <1>8 DEF SndPushBack, TypeChan
  <2>3. TypeBag'
    <3>1. sndItem \in CrossIDs /\ sndTorn \in BOOLEAN
      BY <1>8 DEF SndPushBack, TypePc, TypeFlag
    <3>2. pendingPrq \in [CrossIDs -> Nat]
      BY DEF TypeBag
    <3>3. pendingPrq' \in AfterPush(pendingPrq, sndItem, sndTorn)
      BY <1>8 DEF SndPushBack
    <3>4. pendingPrq' \in [CrossIDs -> Nat]
      BY <3>1, <3>2, <3>3, AfterPushBag
    <3> QED
      BY <1>8, <3>4 DEF SndPushBack, TypeBag
  <2>4. TypePc'
    BY <1>8 DEF SndPushBack, TypePc
  <2>5. TypeFlag'
    BY <1>8 DEF SndPushBack, TypeFlag
  <2> QED
    BY <2>1, <2>2, <2>3, <2>4, <2>5
<1>9. ASSUME SndSpawn PROVE TypeOK'
  <2>1. TypeData'
    BY <1>9 DEF SndSpawn, TypeData
  <2>2. TypeChan'
    BY <1>9 DEF SndSpawn, TypeChan
  <2>3. TypeBag'
    <3>1. sndDone \in SUBSET CrossIDs
      BY DEF TypeData
    <3>2. Push(updates, sndDone) \in [SUBSET CrossIDs -> Nat]
      BY <3>1, PushBag DEF TypeBag
    <3> QED
      BY <1>9, <3>2 DEF SndSpawn, TypeBag
  <2>4. TypePc'
    BY <1>9 DEF SndSpawn, TypePc
  <2>5. TypeFlag'
    BY <1>9 DEF SndSpawn, TypeFlag
  <2> QED
    BY <2>1, <2>2, <2>3, <2>4, <2>5
<1>10. ASSUME NEW ids \in SUBSET CrossIDs, Update(ids) PROVE TypeOK'
  <2>1. TypeData'
    BY <1>10, UpdatesRecords, ToPendingRecords DEF Update, TypeData
  <2>2. TypeChan'
    BY <1>10 DEF Update, TypeChan
  <2>3. TypeBag'
    <3>1. Drop(updates, ids) \in [SUBSET CrossIDs -> Nat]
      BY <1>10, DropBag DEF Update, TypeBag
    <3> QED
      BY <1>10, <3>1 DEF Update, TypeBag
  <2>4. TypePc'
    BY <1>10 DEF Update, TypePc
  <2>5. TypeFlag'
    BY <1>10 DEF Update, TypeFlag
  <2> QED
    BY <2>1, <2>2, <2>3, <2>4, <2>5
<1>11. ASSUME NEW ids \in SUBSET CrossIDs, UpdatePanic(ids) PROVE TypeOK'
  BY <1>11, DieType DEF UpdatePanic, Panic, TypeData
<1>12. ASSUME NEW r \in Receipts, Post(r) PROVE TypeOK'
  <2>1. TypeData'
    BY <1>12 DEF Post, TypeData
  <2>2. TypeChan'
    BY <1>12 DEF Post, TypeChan
  <2>3. TypeBag'
    BY <1>12, PushBag DEF Post, TypeBag
  <2>4. TypePc'
    BY <1>12 DEF Post, TypePc
  <2>5. TypeFlag'
    BY <1>12 DEF Post, TypeFlag
  <2> QED
    BY <2>1, <2>2, <2>3, <2>4, <2>5
<1>13. ASSUME NEW r \in Receipts, RecvPush(r) PROVE TypeOK'
  <2>1. TypeData'
    BY <1>13 DEF RecvPush, TearExecuted, TypeData
  <2>2. TypeChan'
    BY <1>13 DEF RecvPush, TearExecuted, TypeChan
  <2>3. TypeBag'
    BY <1>13, PushBag, DropBag DEF RecvPush, TearExecuted, TypeBag
  <2>4. TypePc'
    BY <1>13 DEF RecvPush, TearExecuted, TypePc
  <2>5. TypeFlag'
    BY <1>13 DEF RecvPush, TearExecuted, TypeFlag
  <2> QED
    BY <2>1, <2>2, <2>3, <2>4, <2>5
<1>14. ASSUME RecvSignal PROVE TypeOK'
  <2>1. TypeData'
    BY <1>14 DEF RecvSignal, TypeData
  <2>2. TypeChan'
    BY <1>14, CapsAssumption DEF RecvSignal, TypeChan
  <2>3. TypeBag'
    BY <1>14 DEF RecvSignal, TypeBag
  <2>4. TypePc'
    BY <1>14 DEF RecvSignal, TypePc
  <2>5. TypeFlag'
    BY <1>14 DEF RecvSignal, TypeFlag
  <2> QED
    BY <2>1, <2>2, <2>3, <2>4, <2>5
<1>15. ASSUME RcvWake PROVE TypeOK'
  <2>1. TypeData'
    BY <1>15 DEF RcvWake, TypeData
  <2>2. TypeChan'
    BY <1>15, CapsAssumption DEF RcvWake, TypeChan
  <2>3. TypeBag'
    BY <1>15 DEF RcvWake, TypeBag
  <2>4. TypePc'
    BY <1>15 DEF RcvWake, TypePc
  <2>5. TypeFlag'
    BY <1>15 DEF RcvWake, TypeFlag
  <2> QED
    BY <2>1, <2>2, <2>3, <2>4, <2>5
<1>16. ASSUME RcvDrain PROVE TypeOK'
  <2>1. TypeData'
    BY <1>16 DEF RcvDrain, TearExecuted, TypeData
  <2>2. TypeChan'
    BY <1>16 DEF RcvDrain, TearExecuted, TypeChan
  <2>3. TypeBag'
    BY <1>16, EmptyBag DEF RcvDrain, TearExecuted, TypeBag
  <2>4. TypePc'
    BY <1>16 DEF RcvDrain, TearExecuted, TypePc
  <2>5. TypeFlag'
    BY <1>16 DEF RcvDrain, TearExecuted, TypeFlag
  <2> QED
    BY <2>1, <2>2, <2>3, <2>4, <2>5
<1>17. ASSUME RcvUpdate PROVE TypeOK'
  <2>1. TypeData'
    <3>1. BatchIDs(rcvBatch) \in SUBSET CrossIDs
      BY ReceiptsAssumption DEF ReceiptsAssumption, BatchIDs, Elements, TypeBag
    <3>2. \A last \in Lasts(rcvBatch, SeqOf) : last \in Receipts
      BY DEF Lasts, Elements, TypeBag
    <3>3. db' \in [CrossIDs -> Records]
      <4>0. db \in [CrossIDs -> Records]
        BY DEF TypeData
      <4>1. ASSUME NEW last \in Receipts
            PROVE  Updates(db, ToExecuted(BatchIDs(rcvBatch), last)) \in [CrossIDs -> Records]
        <5>1. ToExecuted(BatchIDs(rcvBatch), last) \in [BatchIDs(rcvBatch) -> Records]
          BY ONLY <3>1, <4>0, <4>1, ToExecutedRecords
        <5> QED
          BY ONLY <3>1, <4>0, <5>1, UpdatesRecords
      <4>2. \/ db' = db
            \/ \E last \in Lasts(rcvBatch, SeqOf) :
                 db' = Updates(db, ToExecuted(BatchIDs(rcvBatch), last))
        BY <1>17 DEF RcvUpdate
      <4> QED
        BY ONLY <3>2, <4>0, <4>1, <4>2
    <3>4. discarded' \subseteq Receipts
      BY <1>17 DEF RcvUpdate, TypeData, TypeBag, Elements
    <3> QED
      BY <1>17, <3>3, <3>4 DEF RcvUpdate, TypeData
  <2>2. TypeChan'
    BY <1>17 DEF RcvUpdate, TypeChan
  <2>3. TypeBag'
    BY <1>17, EmptyBag DEF RcvUpdate, TypeBag
  <2>4. TypePc'
    BY <1>17 DEF RcvUpdate, TypePc
  <2>5. TypeFlag'
    BY <1>17 DEF RcvUpdate, TypeFlag
  <2> QED
    BY <2>1, <2>2, <2>3, <2>4, <2>5
<1>18. ASSUME NEW r \in Receipts, RcvPushBack(r) PROVE TypeOK'
  <2>1. TypeData'
    BY <1>18 DEF RcvPushBack, TypeData
  <2>2. TypeChan'
    BY <1>18 DEF RcvPushBack, TypeChan
  <2>3. TypeBag'
    <3>1. executedPrq \in [Receipts -> Nat] /\ rcvBatch \in [Receipts -> Nat]
      BY DEF TypeBag
    <3>2. rcvTorn \in BOOLEAN
      BY DEF TypeFlag
    <3>3. executedPrq' \in AfterPush(executedPrq, r, rcvTorn)
      BY <1>18 DEF RcvPushBack
    <3>4. executedPrq' \in [Receipts -> Nat]
      BY <3>1, <3>2, <3>3, AfterPushBag
    <3>5. In(r, rcvBatch)
      BY <1>18 DEF RcvPushBack, Firsts, Elements, In
    <3>6. Drop(rcvBatch, r) \in [Receipts -> Nat]
      BY <3>1, <3>5, DropBag
    <3> QED
      BY <1>18, <3>4, <3>6 DEF RcvPushBack, TypeBag
  <2>4. TypePc'
    BY <1>18 DEF RcvPushBack, TypePc
  <2>5. TypeFlag'
    BY <1>18 DEF RcvPushBack, TypeFlag
  <2> QED
    BY <2>1, <2>2, <2>3, <2>4, <2>5
<1>19. ASSUME NEW s \in Slots, NEW r \in Receipts, CmtInvoke(s, r) PROVE TypeOK'
  <2>1. TypeData'
    BY <1>19 DEF CmtInvoke, Firsts, Elements, In, TypeData
  <2>2. TypeChan'
    BY <1>19 DEF CmtInvoke, Firsts, Elements, In, TypeChan
  <2>3. TypeBag'
    BY <1>19, DropBag DEF CmtInvoke, Firsts, Elements, In, TypeBag
  <2>4. TypePc'
    BY <1>19 DEF CmtInvoke, Firsts, Elements, In, TypePc
  <2>5. TypeFlag'
    BY <1>19 DEF CmtInvoke, Firsts, Elements, In, TypeFlag
  <2> QED
    BY <2>1, <2>2, <2>3, <2>4, <2>5
<1>20. ASSUME NEW s \in Slots, CmtPushBack(s) PROVE TypeOK'
  <2>1. TypeData'
    BY <1>20 DEF CmtPushBack, TypeData
  <2>2. TypeChan'
    BY <1>20 DEF CmtPushBack, TypeChan
  <2>3. TypeBag'
    <3>1. cmtItem[s] \in Receipts /\ cmtTorn[s] \in BOOLEAN
      BY <1>20 DEF CmtPushBack, TypePc, TypeFlag
    <3>2. executedPrq \in [Receipts -> Nat]
      BY DEF TypeBag
    <3>3. executedPrq' \in AfterPush(executedPrq, cmtItem[s], cmtTorn[s])
      BY <1>20 DEF CmtPushBack
    <3>4. executedPrq' \in [Receipts -> Nat]
      BY <3>1, <3>2, <3>3, AfterPushBag
    <3> QED
      BY <1>20, <3>4 DEF CmtPushBack, TypeBag
  <2>4. TypePc'
    BY <1>20 DEF CmtPushBack, TypePc
  <2>5. TypeFlag'
    BY <1>20 DEF CmtPushBack, TypeFlag
  <2> QED
    BY <2>1, <2>2, <2>3, <2>4, <2>5
<1>21. ASSUME TornPanic PROVE TypeOK'
  BY <1>21, DieType DEF TornPanic, Panic, TypeData
<1>22. ASSUME Kill PROVE TypeOK'
  BY <1>22, DieType DEF Kill, TypeData
<1>23. ASSUME Restart PROVE TypeOK'
  <2>1. TypeData'
    <3>1. \A i \in CrossIDs :
            (IF addTxs[i] = "None" \/ seen[i] = 0 THEN seen[i] ELSE seen[i] - 1) \in 0..2
      BY DEF TypeData
    <3>2. seen' \in [CrossIDs -> 0..2]
      BY <1>23, <3>1 DEF Restart, TypeData
    <3> QED
      BY <1>23, <3>2 DEF Restart, TypeData, Batches, NoBatch
  <2>2. TypeChan'
    BY <1>23, CapsAssumption DEF Restart, TypeChan
  <2>3. TypeBag'
    <3>1. Empty(CrossIDs) \in [CrossIDs -> Nat]
      BY EmptyBag, Zenon
    <3>2. pendingPrq' \in [CrossIDs -> Nat]
      BY <1>23, <3>1 DEF Restart
    <3> QED
      BY <1>23, <3>2 DEF Restart, TypeBag
  <2>4. TypePc'
    BY <1>23 DEF Restart, TypePc
  <2>5. TypeFlag'
    BY <1>23 DEF Restart, TypeFlag
  <2> QED
    BY <2>1, <2>2, <2>3, <2>4, <2>5
<1>24. ASSUME UNCHANGED vars PROVE TypeOK'
  <2>1. TypeData'
    BY <1>24 DEF vars, TypeData
  <2>2. TypeChan'
    BY <1>24 DEF vars, TypeChan
  <2>3. TypeBag'
    BY <1>24 DEF vars, TypeBag
  <2>4. TypePc'
    BY <1>24 DEF vars, TypePc
  <2>5. TypeFlag'
    BY <1>24 DEF vars, TypeFlag
  <2> QED
    BY <2>1, <2>2, <2>3, <2>4, <2>5
<1> QED
  BY <1>1, <1>2, <1>3, <1>4, <1>5, <1>6, <1>7, <1>8, <1>9, <1>10, <1>11, <1>12,
     <1>13, <1>14, <1>15, <1>16, <1>17, <1>18, <1>19, <1>20, <1>21, <1>22, <1>23, <1>24
  DEF Next, Add, Snd, Upd, Recv, Rcv, Cmt

(* The declared types hold in every reachable state.                       *)
THEOREM TypeCorrect == Spec => []TypeOK
<1>1. Init => TypeOK
  BY InitType
<1>2. TypeOK /\ [Next]_vars => TypeOK'
  BY TypeStep
<1> QED
  BY <1>1, <1>2, PTL DEF Spec

-----------------------------------------------------------------------------
(***************************************************************************)
(* The safety properties of TxManager, proved.                             *)
(*                                                                         *)
(* SafetyInv strengthens them to an inductive invariant.  It says where a  *)
(* receipt may be on its way from the endpoint to the commit (HeldPosted), *)
(* that a receipt answers a transaction that was sent (AnsweredSent), that *)
(* the ledger finishes nothing without a call (FinishedCalled), that what  *)
(* a commit goroutine holds was recorded past Init (CommitPast), and that  *)
(* a commit is taken from a block only if it is on the ledger              *)
(* (LedgerBatch).                                                          *)
(***************************************************************************)
HeldPosted ==
  /\ \A r \in Receipts :
       In(r, posting) \/ In(r, executedPrq) \/ In(r, rcvBatch) => r \in posted
  /\ \A s \in Slots : \A r \in Receipts : In(r, cmtBatch[s]) => r \in posted
  /\ \A s \in Slots : cmtPc[s] = "push" => cmtItem[s] \in posted
  /\ calls \subseteq posted

AnsweredSent == \A r \in posted : r.id \in Txs => r.id \in sent

FinishedCalled == \A i \in finished : \E r \in calls : r.id = i

Past(i) == db[i].status \notin {"Absent", "Init"}

CommitPast ==
  /\ \A r \in calls : Past(r.id)
  /\ \A s \in Slots : \A r \in Receipts : In(r, cmtBatch[s]) => Past(r.id)

LedgerBatch ==
  addPc = "save" => \A i \in CrossIDs : addTxs[i] = "Finished" => i \in finished

SafetyInv ==
  /\ TypeOK
  /\ HeldPosted /\ AnsweredSent /\ FinishedCalled
  /\ CommitPast /\ CompletedOnLedger /\ LedgerBatch

-----------------------------------------------------------------------------
(* What a step does to the database.                                       *)
LEMMA SaveKeeps ==
  ASSUME NEW d \in [CrossIDs -> Records], NEW batch \in Batches, NEW unread,
         NEW i \in CrossIDs, NEW e, e = Save(d, batch, unread)
  PROVE  /\ IsStored(d[i]) => /\ IsStored(e[i])
                              /\ e[i].status = "Init" => d[i].status = "Init"
         /\ e[i].status \in {"Finished", "Completed"} =>
              d[i].status \in {"Finished", "Completed"} \/ batch[i] = "Finished"
<1>1. d[i] \in Records /\ batch[i] \in {"None", "Init", "Finished"}
  BY DEF Batches
<1>2. e[i] = d[i] \/ e[i] = SaveOne(d[i], batch[i])
  BY DEF Save
<1> QED
  BY <1>1, <1>2 DEF SaveOne, Records, CStatus, IsStored

LEMMA DbStep ==
  ASSUME TypeOK, [Next]_vars, NEW i \in CrossIDs
  PROVE  /\ IsStored(db[i]) => /\ IsStored(db'[i])
                               /\ db'[i].status = "Init" => db[i].status = "Init"
         /\ db'[i].status \in {"Finished", "Completed"} =>
              \/ db[i].status \in {"Finished", "Completed"}
              \/ addPc = "save" /\ addTxs[i] = "Finished"
<1>0. db \in [CrossIDs -> Records] /\ addTxs \in Batches
  BY DEF TypeOK, TypeData
<1>1. CASE db' = db
  BY <1>1
<1>2. CASE addPc = "save" /\ \E unread : db' = Save(db, addTxs, unread)
  <2>1. PICK unread : db' = Save(db, addTxs, unread)
    BY <1>2
  <2> QED
    BY <1>0, <1>2, <2>1, SaveKeeps
<1>3. CASE \E ids \in SUBSET CrossIDs :
             AllFound(db, ids) /\ db' = Updates(db, ToPending(ids))
  BY <1>0, <1>3 DEF Updates, ToPending, AllFound, IsStored, Records
<1>4. CASE /\ AllFound(db, BatchIDs(rcvBatch))
           /\ \E last \in Lasts(rcvBatch, SeqOf) :
                db' = Updates(db, ToExecuted(BatchIDs(rcvBatch), last))
  BY <1>0, <1>4 DEF Updates, ToExecuted, AllFound, IsStored
<1>5. db' = db \/ (AddSave \/ (\E ids \in SUBSET CrossIDs : Update(ids)) \/ RcvUpdate)
  BY DEF Next, Add, Snd, Upd, Recv, Rcv, Cmt, vars, Deliver, AddSize, AddSignal, SndWake,
         SndDrain, SndSend, SndPushBack, SndSpawn, UpdatePanic, Panic, Die, Post, RecvPush,
         RecvSignal, RcvWake, RcvDrain, RcvPushBack, CmtInvoke, CmtPushBack, TornPanic,
         Kill, Restart
<1> QED
  BY <1>1, <1>2, <1>3, <1>4, <1>5 DEF AddSave, Update, RcvUpdate

LEMMA PastStays ==
  ASSUME TypeOK, [Next]_vars, NEW i \in CrossIDs, Past(i)
  PROVE  Past(i)'
BY DbStep DEF Past, IsStored

(* A stored record stays stored and never returns to Init: the database    *)
(* step of AddCrossTxs and of both update goroutines moves forward only.   *)
THEOREM NeverBack == Spec => NeverBackToInit
<1>1. TypeOK /\ [Next]_vars =>
        [\A i \in CrossIDs : IsStored(db[i]) =>
           /\ IsStored(db'[i])
           /\ db'[i].status = "Init" => db[i].status = "Init"]_vars
  BY DbStep
<1> QED
  BY <1>1, TypeCorrect, PTL DEF Spec, NeverBackToInit

-----------------------------------------------------------------------------
(* One lemma per part of SafetyInv.                                        *)
LEMMA HeldStep ==
  ASSUME TypeOK, HeldPosted, [Next]_vars
  PROVE  HeldPosted'
<1> USE DEF procVars, addVars, penVars, sndVars, exeVars, recvVars, rcvVars, cmtVars, obsVars
<1>0. /\ executedPrq \in [Receipts -> Nat] /\ posting \in [Receipts -> Nat]
      /\ rcvBatch \in [Receipts -> Nat] /\ cmtBatch \in [Slots -> [Receipts -> Nat]]
      /\ rcvTorn \in BOOLEAN /\ cmtTorn \in [Slots -> BOOLEAN]
      /\ cmtPc \in [Slots -> {"idle", "invoke", "push"}]
      /\ cmtItem \in [Slots -> Receipts \cup {NoItem}]
      /\ \A s \in Slots : cmtPc[s] = "push" => cmtItem[s] \in Receipts
  BY DEF TypeOK, TypeBag, TypePc, TypeFlag
<1>1. CASE UNCHANGED <<posting, executedPrq, rcvBatch, cmtPc, cmtBatch, cmtItem, posted, calls>>
  BY <1>1 DEF HeldPosted, In
<1>2. CASE Die
  BY <1>2 DEF HeldPosted, Die, VolatileReset, Empty, In
<1>3. ASSUME NEW r \in Receipts, Post(r) PROVE HeldPosted'
  BY <1>0, <1>3 DEF Post, HeldPosted, Push, In
<1>4. ASSUME NEW r \in Receipts, RecvPush(r) PROVE HeldPosted'
  BY <1>0, <1>4 DEF RecvPush, HeldPosted, Push, Drop, In
<1>5. CASE RcvDrain
  BY <1>0, <1>5 DEF RcvDrain, HeldPosted, Empty, In
<1>6. CASE RcvUpdate
  BY <1>0, <1>6 DEF RcvUpdate, HeldPosted, Empty, In
<1>7. ASSUME NEW r \in Receipts, RcvPushBack(r) PROVE HeldPosted'
  <2>1. r \in posted
    BY <1>7 DEF RcvPushBack, Firsts, Elements, HeldPosted, In
  <2>2. \A z \in Receipts : In(z, executedPrq') => In(z, executedPrq) \/ z = r
    BY <1>0, <1>7, AfterPushElements DEF RcvPushBack
  <2>3. \A z \in Receipts : In(z, rcvBatch') => In(z, rcvBatch)
    BY <1>0, <1>7 DEF RcvPushBack, Drop, In
  <2> QED
    BY <1>7, <2>1, <2>2, <2>3 DEF RcvPushBack, HeldPosted
<1>8. ASSUME NEW s \in Slots, NEW r \in Receipts, CmtInvoke(s, r) PROVE HeldPosted'
  <2>1. r \in posted
    BY <1>8 DEF CmtInvoke, Firsts, Elements, HeldPosted, In
  <2>2. \A z \in Slots : \A x \in Receipts : In(x, cmtBatch'[z]) => In(x, cmtBatch[z])
    BY <1>0, <1>8 DEF CmtInvoke, Drop, In
  <2>3. \A z \in Slots : cmtPc'[z] = "push" => cmtItem'[z] \in posted
    BY <1>0, <1>8, <2>1 DEF CmtInvoke, HeldPosted
  <2> QED
    BY <1>8, <2>1, <2>2, <2>3 DEF CmtInvoke, HeldPosted
<1>9. ASSUME NEW s \in Slots, CmtPushBack(s) PROVE HeldPosted'
  <2>1. cmtItem[s] \in Receipts /\ cmtItem[s] \in posted
    BY <1>0, <1>9 DEF CmtPushBack, HeldPosted
  <2>2. \A z \in Receipts : In(z, executedPrq') => In(z, executedPrq) \/ z = cmtItem[s]
    <3>1. /\ executedPrq' \in AfterPush(executedPrq, cmtItem[s], cmtTorn[s])
          /\ cmtTorn[s] \in BOOLEAN
      BY <1>0, <1>9 DEF CmtPushBack
    <3> QED
      BY <1>0, <2>1, <3>1, AfterPushElements
  <2>3. \A z \in Slots : cmtPc'[z] = "push" => cmtItem'[z] \in posted
    BY <1>0, <1>9 DEF CmtPushBack, HeldPosted
  <2> QED
    BY <1>9, <2>1, <2>2, <2>3 DEF CmtPushBack, HeldPosted
<1>10. \/ UNCHANGED <<posting, executedPrq, rcvBatch, cmtPc, cmtBatch, cmtItem, posted, calls>>
       \/ Die \/ RcvDrain \/ RcvUpdate
       \/ \E r \in Receipts : Post(r) \/ RecvPush(r) \/ RcvPushBack(r)
       \/ \E s \in Slots : CmtPushBack(s) \/ \E r \in Receipts : CmtInvoke(s, r)
  BY DEF Next, Add, Snd, Upd, Recv, Rcv, Cmt, vars, Deliver, AddSave, AddSize, AddSignal,
         SndWake, SndDrain, SndSend, SndPushBack, SndSpawn, Update, UpdatePanic, Panic,
         RecvSignal, RcvWake, TornPanic, Kill, Restart
<1> QED
  BY <1>1, <1>2, <1>3, <1>4, <1>5, <1>6, <1>7, <1>8, <1>9, <1>10

LEMMA AnsweredStep ==
  ASSUME TypeOK, AnsweredSent, [Next]_vars
  PROVE  AnsweredSent'
<1> USE DEF procVars, addVars, penVars, sndVars, exeVars, recvVars, rcvVars, cmtVars, obsVars
<1>1. sent \subseteq sent'
  BY DEF Next, Add, Snd, Upd, Recv, Rcv, Cmt, vars, Deliver, AddSave, AddSize, AddSignal,
         SndWake, SndDrain, SndSend, SndPushBack, SndSpawn, Update, UpdatePanic, Panic, Die,
         Post, RecvPush, RecvSignal, RcvWake, RcvDrain, RcvUpdate, RcvPushBack, CmtInvoke,
         CmtPushBack, TornPanic, Kill, Restart
<1>2. posted' = posted \/ \E r \in Receipts : Post(r)
  BY DEF Next, Add, Snd, Upd, Recv, Rcv, Cmt, vars, Deliver, AddSave, AddSize, AddSignal,
         SndWake, SndDrain, SndSend, SndPushBack, SndSpawn, Update, UpdatePanic, Panic, Die,
         RecvPush, RecvSignal, RcvWake, RcvDrain, RcvUpdate, RcvPushBack, CmtInvoke,
         CmtPushBack, TornPanic, Kill, Restart
<1>3. ASSUME NEW r \in Receipts, Post(r) PROVE AnsweredSent'
  BY <1>1, <1>3 DEF Post, Answerable, AnsweredSent
<1> QED
  BY <1>1, <1>2, <1>3 DEF AnsweredSent

(* The ledger and the calls change only in the commit goroutine.           *)
LEMMA LedgerStep ==
  ASSUME [Next]_vars
  PROVE  \/ finished' = finished /\ calls' = calls
         \/ \E s \in Slots, r \in Receipts : CmtInvoke(s, r)
BY DEF Next, Add, Snd, Upd, Recv, Rcv, Cmt, vars, obsVars, Deliver, AddSave, AddSize,
       AddSignal, SndWake, SndDrain, SndSend, SndPushBack, SndSpawn, Update, UpdatePanic,
       Panic, Die, Post, RecvPush, RecvSignal, RcvWake, RcvDrain, RcvUpdate, RcvPushBack,
       CmtPushBack, TornPanic, Kill, Restart

LEMMA FinishedStep ==
  ASSUME FinishedCalled, [Next]_vars
  PROVE  FinishedCalled' /\ finished \subseteq finished'
<1>1. ASSUME NEW s \in Slots, NEW r \in Receipts, CmtInvoke(s, r)
      PROVE  FinishedCalled' /\ finished \subseteq finished'
  BY <1>1 DEF CmtInvoke, FinishedCalled
<1> QED
  BY <1>1, LedgerStep DEF FinishedCalled

LEMMA CommitPastStep ==
  ASSUME TypeOK, CommitPast, [Next]_vars
  PROVE  CommitPast'
<1> USE DEF procVars, addVars, penVars, sndVars, exeVars, recvVars, rcvVars, cmtVars, obsVars
<1>0. /\ cmtBatch \in [Slots -> [Receipts -> Nat]] /\ rcvBatch \in [Receipts -> Nat]
      /\ db \in [CrossIDs -> Records] /\ calls \subseteq Receipts
      /\ \A r \in Receipts : r.id \in CrossIDs
  BY ReceiptsAssumption DEF TypeOK, TypeBag, TypeData
<1>1. \A i \in CrossIDs : Past(i) => Past(i)'
  BY PastStays
<1>2. ASSUME NEW s \in Slots, NEW r \in Receipts, CmtInvoke(s, r) PROVE CommitPast'
  <2>1. Past(r.id)
    BY <1>2 DEF CmtInvoke, Firsts, Elements, CommitPast, In
  <2>2. \A z \in Slots : \A x \in Receipts : In(x, cmtBatch'[z]) => In(x, cmtBatch[z])
    BY <1>0, <1>2 DEF CmtInvoke, Drop, In
  <2>3. calls' = calls \cup {r}
    BY <1>2 DEF CmtInvoke
  <2>4. \A x \in calls' : x.id \in CrossIDs /\ Past(x.id)
    BY <1>0, <2>1, <2>3 DEF CommitPast
  <2>5. \A z \in Slots : \A x \in Receipts : In(x, cmtBatch'[z]) => Past(x.id)
    BY <2>2 DEF CommitPast
  <2> QED
    BY <1>0, <1>1, <2>4, <2>5 DEF CommitPast
<1>3. CASE RcvUpdate
  <2>1. calls' = calls
    BY <1>3 DEF RcvUpdate
  <2>2. CASE AllFound(db, BatchIDs(rcvBatch)) /\ cmtBatch' # cmtBatch
    <3>1. PICK last \in Lasts(rcvBatch, SeqOf) :
             db' = Updates(db, ToExecuted(BatchIDs(rcvBatch), last))
      BY <1>3, <2>2 DEF RcvUpdate
    <3>2. PICK s \in Slots : cmtBatch' = [cmtBatch EXCEPT ![s] = rcvBatch]
      BY <1>3, <2>2 DEF RcvUpdate
    <3>3. \A x \in Receipts : In(x, rcvBatch) => Past(x.id)'
      <4>1. SUFFICES ASSUME NEW x \in Receipts, In(x, rcvBatch) PROVE Past(x.id)'
        OBVIOUS
      <4>2. x.id \in BatchIDs(rcvBatch)
        BY <1>0, <4>1 DEF BatchIDs, Elements, In
      <4>3. db'[x.id].status = "Executed"
        BY <1>0, <3>1, <4>2 DEF Updates, ToExecuted
      <4> QED
        BY <4>3 DEF Past
    <3>4. \A z \in Slots : cmtBatch'[z] = rcvBatch \/ cmtBatch'[z] = cmtBatch[z]
      BY <1>0, <3>2
    <3>5. \A z \in Slots : \A x \in Receipts : In(x, cmtBatch'[z]) => Past(x.id)'
      BY <1>0, <1>1, <3>3, <3>4 DEF CommitPast
    <3> QED
      BY <1>0, <1>1, <2>1, <3>5 DEF CommitPast
  <2>3. CASE cmtBatch' = cmtBatch
    BY <1>0, <1>1, <2>1, <2>3 DEF CommitPast
  <2> QED
    BY <1>3, <2>2, <2>3 DEF RcvUpdate
<1>4. CASE Die
  <2>1. calls' = calls /\ \A z \in Slots : \A x \in Receipts : ~In(x, cmtBatch'[z])
    BY <1>4 DEF Die, VolatileReset, Empty, In
  <2> QED
    BY <1>0, <1>1, <2>1 DEF CommitPast
<1>5. CASE UNCHANGED <<calls, cmtBatch>>
  BY <1>0, <1>1, <1>5 DEF CommitPast
<1>6. \/ UNCHANGED <<calls, cmtBatch>> \/ Die \/ RcvUpdate
      \/ \E s \in Slots, r \in Receipts : CmtInvoke(s, r)
  BY DEF Next, Add, Snd, Upd, Recv, Rcv, Cmt, vars, Deliver, AddSave, AddSize, AddSignal,
         SndWake, SndDrain, SndSend, SndPushBack, SndSpawn, Update, UpdatePanic, Panic,
         Post, RecvPush, RecvSignal, RcvWake, RcvDrain, RcvPushBack, CmtPushBack,
         TornPanic, Kill, Restart
<1> QED
  BY <1>2, <1>3, <1>4, <1>5, <1>6

LEMMA LedgerBatchStep ==
  ASSUME TypeOK, LedgerBatch, finished \subseteq finished', [Next]_vars
  PROVE  LedgerBatch'
<1>1. ASSUME NEW b \in Incoming, Deliver(b) PROVE LedgerBatch'
  <2>1. \A i \in CrossIDs : b[i] = "Finished" => i \in finished
    BY DEF Incoming, Next1
  <2> QED
    BY <1>1, <2>1 DEF Deliver, obsVars, LedgerBatch
<1>2. CASE addPc' # "save"
  BY <1>2 DEF LedgerBatch
<1>3. CASE addPc' = addPc /\ addTxs' = addTxs
  BY <1>3 DEF LedgerBatch
<1>4. CASE addTxs' = NoBatch
  BY <1>4 DEF LedgerBatch, NoBatch
<1>5. \/ \E b \in Incoming : Deliver(b)
      \/ addPc' # "save"
      \/ addPc' = addPc /\ addTxs' = addTxs
      \/ addTxs' = NoBatch
  BY DEF Next, Add, Snd, Upd, Recv, Rcv, Cmt, vars, addVars, AddSave, AddSize, AddSignal,
         SndWake, SndDrain, SndSend, SndPushBack, SndSpawn, Update, UpdatePanic,
         Panic, Die, VolatileReset, Post, RecvPush, RecvSignal, RcvWake, RcvDrain, RcvUpdate,
         RcvPushBack, CmtInvoke, CmtPushBack, TornPanic, Kill, Restart
<1> QED
  BY <1>1, <1>2, <1>3, <1>4, <1>5

LEMMA InitSafety ==
  ASSUME Init
  PROVE  SafetyInv
<1>1. TypeOK
  BY InitType
<1>2. HeldPosted
  BY DEF Init, HeldPosted, Empty, In
<1>3. AnsweredSent /\ FinishedCalled /\ LedgerBatch
  BY DEF Init, AnsweredSent, FinishedCalled, LedgerBatch
<1>4. CommitPast
  BY DEF Init, CommitPast, Empty, In
<1>5. CompletedOnLedger
  BY DEF Init, CompletedOnLedger, Absent
<1> QED
  BY <1>1, <1>2, <1>3, <1>4, <1>5 DEF SafetyInv

LEMMA SafetyStep ==
  ASSUME SafetyInv, [Next]_vars
  PROVE  SafetyInv'
<1>1. TypeOK'
  BY TypeStep DEF SafetyInv
<1>2. HeldPosted'
  BY HeldStep DEF SafetyInv
<1>3. AnsweredSent'
  BY AnsweredStep DEF SafetyInv
<1>4. FinishedCalled' /\ finished \subseteq finished'
  BY FinishedStep DEF SafetyInv
<1>5. CommitPast'
  BY CommitPastStep DEF SafetyInv
<1>6. LedgerBatch'
  BY <1>4, LedgerBatchStep DEF SafetyInv
<1>7. CompletedOnLedger'
  BY <1>4, DbStep DEF SafetyInv, CompletedOnLedger, LedgerBatch
<1> QED
  BY <1>1, <1>2, <1>3, <1>4, <1>5, <1>6, <1>7 DEF SafetyInv

LEMMA SafetyHolds == Spec => []SafetyInv
<1>1. Init => SafetyInv
  BY InitSafety
<1>2. SafetyInv /\ [Next]_vars => SafetyInv'
  BY SafetyStep
<1> QED
  BY <1>1, <1>2, PTL DEF Spec

-----------------------------------------------------------------------------
(* A contract is finished on the ledger only after its transaction was     *)
(* sent to the outchain and a receipt of it was posted, for any failures,  *)
(* torn queues and restarts (txmanager.go:148-280).                        *)
THEOREM Atomicity == Spec => []TwoPhaseAtomicity
<1>1. SafetyInv => TwoPhaseAtomicity
  <2>1. SUFFICES ASSUME SafetyInv, NEW i \in finished
        PROVE  i \in sent /\ \E r \in posted : r.id = i
    BY DEF TwoPhaseAtomicity
  <2>2. PICK r \in calls : r.id = i
    BY <2>1 DEF SafetyInv, FinishedCalled
  <2>3. r \in posted
    BY <2>1 DEF SafetyInv, HeldPosted
  <2>4. i \in Txs
    BY <2>1 DEF SafetyInv, TypeOK, TypeData
  <2> QED
    BY <2>1, <2>2, <2>3, <2>4 DEF SafetyInv, AnsweredSent
<1> QED
  BY <1>1, SafetyHolds, PTL

(* Commit is invoked only with a posted receipt of a transaction recorded  *)
(* past Init (txmanager.go:206-268).                                       *)
THEOREM CommitIsRecorded == Spec => []CommitRecorded
<1>1. SafetyInv => CommitRecorded
  BY DEF SafetyInv, HeldPosted, CommitPast, CommitRecorded, Past
<1> QED
  BY <1>1, SafetyHolds, PTL

(* The database never says Finished or Completed of a contract the ledger  *)
(* has not finished (database.go:65-100).                                  *)
THEOREM CompletedIsOnLedger == Spec => []CompletedOnLedger
<1>1. SafetyInv => CompletedOnLedger
  BY DEF SafetyInv
<1> QED
  BY <1>1, SafetyHolds, PTL

-----------------------------------------------------------------------------
(***************************************************************************)
(* The pending queue: no wake-up and no recorded transaction is lost.      *)
(***************************************************************************)
WakeInv == PendingWakeup /\ addPc # "failed" /\ sndPc # "push"

(* While the queue holds something there is a token, or its sender has not *)
(* come to the signal, or the receiver has not come to the drain, provided *)
(* that neither Send nor the database fails (txmanager.go:125-166).        *)
THEOREM Wakeup ==
  ASSUME ~SendMayFail, ~StoreMayFail
  PROVE  Spec => []PendingWakeup
<1>1. Init => WakeInv
  BY DEF Init, WakeInv, PendingWakeup, Empty, IsEmpty
<1>2. ASSUME TypeOK, WakeInv, [Next]_vars PROVE WakeInv'
  <2> USE DEF procVars, addVars, penVars, sndVars, WakeInv, PendingWakeup
  <2>0. pendingCh \in Nat
    BY <1>2 DEF TypeOK, TypeChan
  <2>1. ASSUME NEW b \in Incoming, Deliver(b) PROVE WakeInv'
    BY <1>2, <2>1 DEF Deliver
  <2>2. CASE AddSave
    BY <1>2, <2>2 DEF AddSave
  <2>3. CASE AddSize
    BY <1>2, <2>3 DEF AddSize
  <2>4. CASE AddSignal
    BY <1>2, <2>0, <2>4 DEF AddSignal
  <2>5. CASE SndWake
    BY <1>2, <2>5 DEF SndWake
  <2>6. CASE SndDrain
    BY <1>2, <2>6 DEF SndDrain, IsEmpty, Empty
  <2>7. ASSUME NEW i \in CrossIDs, SndSend(i) PROVE WakeInv'
    BY <1>2, <2>7 DEF SndSend
  <2>8. CASE SndSpawn
    BY <1>2, <2>8 DEF SndSpawn
  <2>9. CASE Die
    BY <2>9 DEF Die, VolatileReset
  <2>10. CASE Restart
    BY <1>2, <2>10 DEF Restart
  <2>11. CASE UNCHANGED <<up, pendingPrq, pendingCh, addPc, sndPc>>
    BY <1>2, <2>11
  <2>12. \/ (\E b \in Incoming : Deliver(b)) \/ AddSave \/ AddSize \/ AddSignal
         \/ SndWake \/ SndDrain \/ (\E i \in CrossIDs : SndSend(i)) \/ SndSpawn
         \/ Die \/ Restart
         \/ UNCHANGED <<up, pendingPrq, pendingCh, addPc, sndPc>>
    BY <1>2 DEF Next, Add, Snd, Upd, Recv, Rcv, Cmt, vars, SndPushBack, Update,
                UpdatePanic, Panic, Post, RecvPush, RecvSignal, RcvWake, RcvDrain,
                RcvUpdate, RcvPushBack, CmtInvoke, CmtPushBack, TornPanic, Kill
  <2> QED
    BY <2>1, <2>2, <2>3, <2>4, <2>5, <2>6, <2>7, <2>8, <2>9, <2>10, <2>11, <2>12
<1>3. WakeInv => PendingWakeup
  BY DEF WakeInv
<1>4. TypeOK /\ WakeInv /\ [Next]_vars => WakeInv'
  BY <1>2
<1> QED
  BY <1>1, <1>3, <1>4, TypeCorrect, PTL DEF Spec

-----------------------------------------------------------------------------
(* InitInHand is not inductive: the batch being saved is about to be at    *)
(* Init, and the sender holds nothing while it waits.                      *)
Owed(i) ==
  /\ i \in fresh
  /\ \/ db[i].status = "Init"
     \/ addPc = "save" /\ addTxs[i] = "Init" /\ db[i].status = "Absent"

HandInv ==
  /\ up /\ ~torn => \A i \in CrossIDs : Owed(i) => InHand(i)
  /\ sndPc \in {"wait", "drain"} => IsEmpty(sndBatch) /\ sndDone = {}

(* A step that adds no debt.                                               *)
NoNewDebt == \A i \in CrossIDs : Owed(i)' => Owed(i)

SameHands == UNCHANGED <<pendingPrq, sndBatch, sndPc, sndItem, sndDone, updates>>

LEMMA SameHandsStep ==
  ASSUME HandInv, SameHands, NoNewDebt, up' => up, torn => torn'
  PROVE  HandInv'
BY DEF HandInv, SameHands, NoNewDebt, InHand

LEMMA HandStep ==
  ASSUME TypeOK, HandInv, [Next]_vars
  PROVE  HandInv'
<1> USE DEF procVars, addVars, penVars, sndVars, exeVars, recvVars, rcvVars, cmtVars, obsVars
<1>0. /\ pendingPrq \in [CrossIDs -> Nat] /\ sndBatch \in [CrossIDs -> Nat]
      /\ updates \in [SUBSET CrossIDs -> Nat] /\ sndDone \in SUBSET CrossIDs
      /\ db \in [CrossIDs -> Records] /\ addTxs \in Batches
  BY DEF TypeOK, TypeBag, TypeData
<1>1. ASSUME NEW b \in Incoming, Deliver(b) PROVE HandInv'
  <2>1. \A i \in CrossIDs : InHand(i) => InHand(i)'
    BY <1>0, <1>1 DEF Deliver, InHand, In
  <2>2. \A i \in CrossIDs : b[i] = "Init" => InHand(i)'
    BY <1>0, <1>1 DEF Deliver, InHand, In
  <2>3. \A i \in CrossIDs : Owed(i)' => Owed(i) \/ b[i] = "Init"
    BY <1>1 DEF Deliver, Owed
  <2>4. UNCHANGED <<up, torn, sndPc, sndBatch, sndDone>>
    BY <1>1 DEF Deliver
  <2> QED
    BY <2>1, <2>2, <2>3, <2>4 DEF HandInv
<1>2. CASE AddSave
  <2>1. NoNewDebt
    <3>1. SUFFICES ASSUME NEW i \in CrossIDs, Owed(i)' PROVE Owed(i)
      BY DEF NoNewDebt
    <3>2. db[i] \in Records /\ addTxs[i] \in {"None", "Init", "Finished"}
      BY <1>0 DEF Batches
    <3>3. (\E unread : db' = Save(db, addTxs, unread)) \/ db' = db
      BY <1>2 DEF AddSave
    <3>4. db'[i] = SaveOne(db[i], addTxs[i]) \/ db'[i] = db[i]
      BY <1>0, <3>3 DEF Save
    <3> QED
      BY <1>2, <3>1, <3>2, <3>4 DEF AddSave, Owed, SaveOne, IsStored, Records
  <2>2. SameHands /\ UNCHANGED <<up, torn>>
    BY <1>2 DEF AddSave, SameHands
  <2> QED
    BY <2>1, <2>2, SameHandsStep
<1>3. CASE SndDrain
  <2>1. \A i \in CrossIDs : InHand(i) => InHand(i)'
    BY <1>0, <1>3 DEF SndDrain, InHand, HandInv, IsEmpty, In
  <2>2. \A i \in CrossIDs : Owed(i)' => Owed(i)
    BY <1>3 DEF SndDrain, Owed
  <2> QED
    BY <1>3, <2>1, <2>2 DEF SndDrain, HandInv
<1>4. ASSUME NEW j \in CrossIDs, SndSend(j) PROVE HandInv'
  <2>1. \A i \in CrossIDs : InHand(i) /\ i \in fresh' => InHand(i)'
    BY <1>0, <1>4 DEF SndSend, InHand, In, Drop
  <2>2. \A i \in CrossIDs : Owed(i)' => Owed(i) /\ i \in fresh'
    BY <1>4 DEF SndSend, Owed
  <2> QED
    BY <1>4, <2>1, <2>2 DEF SndSend, HandInv
<1>5. CASE SndPushBack
  <2>1. ~torn' => \A i \in CrossIDs : InHand(i) => InHand(i)'
    <3>1. SUFFICES ASSUME ~torn' PROVE \A i \in CrossIDs : InHand(i) => InHand(i)'
      OBVIOUS
    <3>2. sndItem \in CrossIDs
      BY <1>5 DEF SndPushBack, TypeOK, TypePc
    <3>3. pendingPrq' = Push(pendingPrq, sndItem)
      BY <1>5, <3>1 DEF SndPushBack, AfterPush
    <3> QED
      BY <1>0, <1>5, <3>2, <3>3 DEF SndPushBack, InHand, In, Push
  <2>2. \A i \in CrossIDs : Owed(i)' => Owed(i)
    BY <1>5 DEF SndPushBack, Owed
  <2> QED
    BY <1>5, <2>1, <2>2 DEF SndPushBack, HandInv
<1>6. CASE SndSpawn
  <2>1. \A i \in CrossIDs : InHand(i) => InHand(i)'
    <3>1. SUFFICES ASSUME NEW i \in CrossIDs, InHand(i) PROVE InHand(i)'
      OBVIOUS
    <3>2. CASE i \in sndDone
      <4>1. In(sndDone, updates')
        BY <1>0, <1>6, <3>2 DEF SndSpawn, Push, In
      <4> QED
        BY <1>0, <3>2, <4>1 DEF InHand
    <3>3. ASSUME NEW ids \in SUBSET CrossIDs, In(ids, updates), i \in ids PROVE InHand(i)'
      <4>1. In(ids, updates')
        BY <1>0, <1>6, <3>3 DEF SndSpawn, Push, In
      <4> QED
        BY <3>3, <4>1 DEF InHand
    <3>4. CASE In(i, pendingPrq)
      BY <1>6, <3>4 DEF SndSpawn, InHand
    <3>5. ~In(i, sndBatch) /\ sndPc # "push"
      BY <1>0, <1>6 DEF SndSpawn, IsEmpty, In
    <3> QED
      BY <3>1, <3>2, <3>3, <3>4, <3>5 DEF InHand
  <2>2. \A i \in CrossIDs : Owed(i)' => Owed(i)
    BY <1>6 DEF SndSpawn, Owed
  <2> QED
    BY <1>6, <2>1, <2>2 DEF SndSpawn, HandInv
<1>7. ASSUME NEW ids \in SUBSET CrossIDs, Update(ids) PROVE HandInv'
  <2>1. \A i \in CrossIDs : Owed(i)' => Owed(i) /\ i \notin ids
    BY <1>0, <1>7 DEF Update, Owed, Updates, ToPending, AllFound, IsStored
  <2>2. \A x \in SUBSET CrossIDs : In(x, updates) /\ x # ids => In(x, updates')
    BY <1>0, <1>7 DEF Update, Drop, In
  <2>3. \A i \in CrossIDs : InHand(i) /\ i \notin ids => InHand(i)'
    BY <1>7, <2>2 DEF Update, InHand
  <2> QED
    BY <1>7, <2>1, <2>3 DEF Update, HandInv
<1>8. CASE RcvUpdate
  <2>1. NoNewDebt
    <3>1. db' = db \/ \E last \in Lasts(rcvBatch, SeqOf) :
                        db' = Updates(db, ToExecuted(BatchIDs(rcvBatch), last))
      BY <1>8 DEF RcvUpdate
    <3>2. \A i \in CrossIDs : db'[i] = db[i] \/ db'[i].status = "Executed"
      BY <1>0, <3>1 DEF Updates, ToExecuted
    <3> QED
      BY <1>8, <3>2 DEF RcvUpdate, NoNewDebt, Owed
  <2>2. SameHands /\ UNCHANGED <<up, torn>>
    BY <1>8 DEF RcvUpdate, SameHands
  <2> QED
    BY <2>1, <2>2, SameHandsStep
<1>9. CASE Die
  BY <1>9 DEF Die, VolatileReset, HandInv, Empty, IsEmpty
<1>10. CASE Restart
  BY <1>10 DEF Restart, Owed, HandInv
<1>11. CASE SameHands /\ UNCHANGED <<db, up, fresh, addTxs>> /\ addPc' \in {addPc, "idle", "signal"}
                      /\ (torn => torn')
  BY <1>11, SameHandsStep DEF NoNewDebt, Owed
<1>12. CASE SndWake
  BY <1>12 DEF SndWake, HandInv, InHand, Owed
<1>13. \/ (\E b \in Incoming : Deliver(b)) \/ AddSave \/ SndWake \/ SndDrain
       \/ (\E i \in CrossIDs : SndSend(i)) \/ SndPushBack \/ SndSpawn
       \/ (\E ids \in SUBSET CrossIDs : Update(ids)) \/ RcvUpdate \/ Die \/ Restart
       \/ SameHands /\ UNCHANGED <<db, up, fresh, addTxs>> /\ addPc' \in {addPc, "idle", "signal"}
                    /\ (torn => torn')
  <2>1. CASE Add
    BY <2>1 DEF Add, AddSize, AddSignal, SameHands
  <2>2. CASE Snd
    BY <2>2 DEF Snd
  <2>3. CASE Upd \/ TornPanic \/ Kill \/ Restart
    BY <2>3 DEF Upd, UpdatePanic, Panic, TornPanic, Kill
  <2>4. CASE Recv
    BY <2>4 DEF Recv, Post, RecvPush, RecvSignal, SameHands
  <2>5. CASE Rcv
    BY <2>5 DEF Rcv, RcvWake, RcvDrain, RcvPushBack, SameHands
  <2>6. ASSUME NEW s \in Slots, CmtPushBack(s)
        PROVE  SameHands /\ UNCHANGED <<db, up, fresh, addTxs, addPc>> /\ (torn => torn')
    BY <2>6 DEF CmtPushBack, SameHands
  <2>7. ASSUME NEW s \in Slots, NEW r \in Receipts, CmtInvoke(s, r)
        PROVE  SameHands /\ UNCHANGED <<db, up, fresh, addTxs, addPc, torn>>
    BY <2>7 DEF CmtInvoke, SameHands
  <2>8. CASE UNCHANGED vars
    BY <2>8 DEF vars, SameHands
  <2> QED
    BY <2>1, <2>2, <2>3, <2>4, <2>5, <2>6, <2>7, <2>8 DEF Next, Cmt
<1> QED
  BY <1>1, <1>2, <1>3, <1>4, <1>5, <1>6, <1>7, <1>8, <1>9, <1>10, <1>11, <1>12, <1>13

(* Until the process dies, a transaction it has taken on and recorded at   *)
(* Init is in somebody's hands, whatever Send refuses, as long as no push  *)
(* was torn.  Of what an earlier process left it says nothing: reload      *)
(* finds nothing (txmanager.go:109-204, database.go:157).                  *)
THEOREM NoneForgotten == Spec => []InitInHand
<1>1. Init => HandInv
  BY DEF Init, HandInv, Owed, Absent, NoBatch, Empty, IsEmpty
<1>2. TypeOK /\ HandInv /\ [Next]_vars => HandInv'
  BY HandStep
<1>3. TypeOK /\ HandInv => InitInHand
  BY DEF TypeOK, TypeData, HandInv, InitInHand, Owed
<1> QED
  BY <1>1, <1>2, <1>3, TypeCorrect, PTL DEF Spec

-----------------------------------------------------------------------------
(***************************************************************************)
(* TxManager implements CrossChain, proved.  Only three steps move a       *)
(* phase: a successful Send, a posted receipt and a successful commit.     *)
(***************************************************************************)
PhaseMap == [i \in Txs |-> Phase(i)]

Answered(i) == \E r \in posted : r.id = i

(* The phase, read off without the CASE.                                   *)
LEMMA PhaseOf ==
  ASSUME NEW i
  PROVE  /\ i \in finished => Phase(i) = "finished"
         /\ i \notin finished /\ Answered(i) => Phase(i) = "receipted"
         /\ i \notin finished /\ ~Answered(i) /\ i \in sent => Phase(i) = "sent"
         /\ i \notin finished /\ ~Answered(i) /\ i \notin sent => Phase(i) = "precommitted"
BY DEF Phase, Answered

(* A step that moves one transaction along Follows advances CrossChain.    *)
LEMMA AdvanceOne ==
  ASSUME NEW j \in Txs,
         Phase(j)' # Phase(j) => <<Phase(j), Phase(j)'>> \in Chains!Follows,
         \A i \in Txs \ {j} : Phase(i)' = Phase(i)
  PROVE  Chains!Next \/ PhaseMap' = PhaseMap
<1>1. CASE Phase(j)' = Phase(j)
  BY <1>1 DEF PhaseMap
<1>2. CASE Phase(j)' # Phase(j)
  <2>1. <<Phase(j), Phase(j)'>> \in Chains!Follows
    BY <1>2
  <2>2. Phase(j)' \in Chains!Phases
    BY <2>1 DEF Chains!Follows, Chains!Phases
  <2>3. PhaseMap' = [PhaseMap EXCEPT ![j] = Phase(j)']
    BY DEF PhaseMap
  <2>4. PhaseMap[j] = Phase(j)
    BY DEF PhaseMap
  <2> QED
    BY <2>1, <2>2, <2>3, <2>4 DEF Chains!Next, Chains!Advance, PhaseMap
<1> QED
  BY <1>1, <1>2

(* The three steps that move a phase, and the rest.                        *)
LEMMA PhaseStep ==
  ASSUME SafetyInv, [Next]_vars
  PROVE  Chains!Next \/ PhaseMap' = PhaseMap
<1> USE DEF procVars, addVars, penVars, sndVars, exeVars, recvVars, rcvVars, cmtVars, obsVars
<1>0. /\ \A i \in Txs : Answered(i) => i \in sent
      /\ \A i \in finished : Answered(i)
  <2>1. \A i \in finished : Answered(i)
    BY DEF SafetyInv, FinishedCalled, HeldPosted, Answered
  <2> QED
    BY <2>1 DEF SafetyInv, AnsweredSent, Answered
<1>1. ASSUME NEW j \in CrossIDs, SndSend(j) PROVE Chains!Next \/ PhaseMap' = PhaseMap
  <2>1. finished' = finished /\ posted' = posted
    BY <1>1 DEF SndSend
  <2>2. sent' = sent \cup {j} \/ sent' = sent
    BY <1>1 DEF SndSend
  <2>3. \A i : Answered(i)' <=> Answered(i)
    BY <2>1 DEF Answered
  <2>4. \A i \in Txs \ {j} : Phase(i)' = Phase(i)
    BY <2>1, <2>2 DEF Phase
  <2>5. CASE j \in Txs
    <3>1. CASE j \in sent
      <4>1. sent' = sent
        BY <2>2, <3>1
      <4> QED
        BY <2>1, <4>1 DEF Phase, PhaseMap
    <3>2. CASE j \notin sent
      <4>1. Phase(j) = "precommitted"
        BY <1>0, <2>5, <3>2, PhaseOf
      <4>2. sent' = sent \/ j \in sent'
        BY <2>2
      <4>3. CASE sent' = sent
        BY <2>1, <4>3 DEF Phase, PhaseMap
      <4>4. CASE j \in sent'
        <5>1. j \notin finished' /\ ~Answered(j)'
          BY <1>0, <2>1, <2>3, <2>5, <3>2
        <5>2. Phase(j)' = "sent"
          BY <4>4, <5>1 DEF Phase, Answered
        <5>3. <<Phase(j), Phase(j)'>> \in Chains!Follows
          BY <4>1, <5>2 DEF Chains!Follows
        <5> QED
          BY <2>4, <2>5, <5>3, AdvanceOne
      <4> QED
        BY <4>2, <4>3, <4>4
    <3> QED
      BY <3>1, <3>2
  <2>6. CASE j \notin Txs
    BY <2>4, <2>6 DEF PhaseMap
  <2> QED
    BY <2>5, <2>6
<1>2. ASSUME NEW r \in Receipts, Post(r) PROVE Chains!Next \/ PhaseMap' = PhaseMap
  <2>1. finished' = finished /\ sent' = sent /\ posted' = posted \cup {r}
    BY <1>2 DEF Post
  <2>2. \A i : Answered(i)' <=> Answered(i) \/ i = r.id
    BY <2>1 DEF Answered
  <2>3. \A i \in Txs \ {r.id} : Phase(i)' = Phase(i)
    BY <2>1 DEF Phase
  <2>4. CASE r.id \in Txs
    <3>1. r.id \in sent
      BY <1>2, <2>4 DEF Post, Answerable
    <3>2. CASE r.id \in finished
      <4>1. Phase(r.id) = "finished"
        BY <3>2, PhaseOf
      <4>2. Phase(r.id)' = "finished"
        BY <2>1, <3>2 DEF Phase
      <4> QED
        BY <2>3, <4>1, <4>2 DEF PhaseMap
    <3>3. CASE r.id \notin finished
      <4>1. Phase(r.id)' = "receipted"
        BY <2>1, <3>3 DEF Phase
      <4>2. Phase(r.id) \in {"receipted", "sent"}
        BY <3>1, <3>3, PhaseOf
      <4>3. Phase(r.id)' # Phase(r.id) => <<Phase(r.id), Phase(r.id)'>> \in Chains!Follows
        BY <4>1, <4>2 DEF Chains!Follows
      <4> QED
        BY <2>3, <2>4, <4>3, AdvanceOne
    <3> QED
      BY <3>2, <3>3
  <2>5. CASE r.id \notin Txs
    BY <2>3, <2>5 DEF PhaseMap
  <2> QED
    BY <2>4, <2>5
<1>3. ASSUME NEW s \in Slots, NEW r \in Receipts, CmtInvoke(s, r)
      PROVE  Chains!Next \/ PhaseMap' = PhaseMap
  <2>1. sent' = sent /\ posted' = posted
    BY <1>3 DEF CmtInvoke
  <2>2. finished' = finished \/ finished' = finished \cup ({r.id} \cap Txs)
    BY <1>3 DEF CmtInvoke
  <2>3. r \in posted
    BY <1>3 DEF CmtInvoke, Firsts, Elements, SafetyInv, HeldPosted, In
  <2>4. \A i \in Txs \ {r.id} : Phase(i)' = Phase(i)
    BY <2>1, <2>2 DEF Phase
  <2>5. CASE r.id \in Txs
    <3>1. CASE r.id \in finished \/ finished' = finished
      <4>1. finished' = finished
        BY <2>2, <3>1
      <4> QED
        BY <2>1, <4>1 DEF Phase, PhaseMap
    <3>2. CASE r.id \notin finished /\ r.id \in finished'
      <4>1. Phase(r.id) = "receipted"
        BY <2>3, <3>2, PhaseOf DEF Answered
      <4>2. Phase(r.id)' = "finished"
        BY <3>2 DEF Phase
      <4>3. <<Phase(r.id), Phase(r.id)'>> \in Chains!Follows
        BY <4>1, <4>2 DEF Chains!Follows
      <4> QED
        BY <2>4, <2>5, <4>3, AdvanceOne
    <3> QED
      BY <2>2, <2>5, <3>1, <3>2
  <2>6. CASE r.id \notin Txs
    BY <2>4, <2>6 DEF PhaseMap
  <2> QED
    BY <2>5, <2>6
<1>4. CASE UNCHANGED <<sent, posted, finished>>
  BY <1>4 DEF Phase, PhaseMap
<1>5. \/ UNCHANGED <<sent, posted, finished>>
      \/ (\E j \in CrossIDs : SndSend(j)) \/ (\E r \in Receipts : Post(r))
      \/ \E s \in Slots, r \in Receipts : CmtInvoke(s, r)
  BY DEF Next, Add, Snd, Upd, Recv, Rcv, Cmt, vars, Deliver, AddSave, AddSize, AddSignal,
         SndWake, SndDrain, SndPushBack, SndSpawn, Update, UpdatePanic, Panic, Die,
         RecvPush, RecvSignal, RcvWake, RcvDrain, RcvUpdate, RcvPushBack, CmtPushBack,
         TornPanic, Kill, Restart
<1> QED
  BY <1>1, <1>2, <1>3, <1>4, <1>5

(* Seen from the two chains, every run of the courier moves transactions   *)
(* one at a time through CrossChain's phases: sending, answering and       *)
(* committing (txmanager.go:170, handler.go:70-114, txmanager.go:260).     *)
THEOREM Refinement == Spec => ImplementsCrossChain
<1>1. Init => Chains!Init
  <2>1. ASSUME Init PROVE PhaseMap = [i \in Txs |-> "precommitted"]
    BY <2>1, PhaseOf DEF Init, PhaseMap, Answered
  <2> QED
    BY <2>1 DEF Chains!Init, PhaseMap
<1>2. SafetyInv /\ [Next]_vars => [Chains!Next]_PhaseMap
  BY PhaseStep
<1> QED
  BY <1>1, <1>2, SafetyHolds, PTL DEF Spec, ImplementsCrossChain, Chains!Spec, PhaseMap

=============================================================================
