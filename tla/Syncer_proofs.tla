---------------------------- MODULE Syncer_proofs ----------------------------
(***************************************************************************)
(* What is proved of the syncer and of the queue it fills, for constants   *)
(* of any value: the restarts of BlockSync, and in Intake the way of a     *)
(* transaction from its block to the batch of the sender, through the      *)
(* sorted stack.                                                           *)
(***************************************************************************)
EXTENDS BlockSync, Intake, FiniteSetTheorems, WellFoundedInduction, TLAPS

-----------------------------------------------------------------------------
(***************************************************************************)
(* BlockSync.  What a restart of the block syncer costs and in which order *)
(* blocks are stored, for chains of any height and any number of crashes,  *)
(* whatever fails.                                                         *)
(***************************************************************************)

(* The type invariant in two parts, which different provers are good at.   *)
Flags ==
  /\ up \in BOOLEAN /\ panicked \in BOOLEAN /\ timer \in BOOLEAN
  /\ selfStop \in BOOLEAN /\ stopping \in BOOLEAN

Data ==
  /\ kind \in [Blocks -> Kinds] /\ height \in 0..MaxHeight
  /\ number \in 0..(MaxHeight + 1) /\ saved \subseteq Blocks /\ refused \subseteq Blocks
  /\ crashes \in 0..MaxCrashes /\ blockNum \in 1..(MaxHeight + 1) /\ hold \in 0..MaxHeight
  /\ syncPc \in {"select", "query", "send", "done"}
  /\ procPc \in {"select", "parse", "add", "parseErr", "addErr", "done"}
  /\ stopPc \in {"no", "wait", "returned"}

LEMMA Parts == TypeOK <=> Flags /\ Data
BY DEF TypeOK, Flags, Data

Busy == {"parse", "add", "parseErr", "addErr"}

(* Where the syncer is.  The persisted number is that of the block it is   *)
(* at, or of the one before while the timer has not fired; what is in hand *)
(* and what is stored is not behind that number, and nothing stored is     *)
(* ahead of what is in hand.  A process that is down has nothing in hand.  *)
Place ==
  /\ number \in {blockNum - 1, blockNum}
  /\ syncPc \in {"query", "send"} => number = blockNum
  /\ syncPc = "send" => blockNum <= height
  /\ procPc \in Busy => hold \in Blocks /\ hold <= number /\ \A c \in saved : c <= hold
  /\ \A c \in saved : c <= number
  /\ ~up => procPc = "done"

(***************************************************************************)
(* A process that dies leaves a state its successor can begin in.          *)
(***************************************************************************)
LEMMA DieKeeps ==
  ASSUME TypeOK, Place, Die, crashes' \in 0..MaxCrashes, panicked' \in BOOLEAN
  PROVE  TypeOK' /\ Place' /\ blockNum' <= blockNum
<1> USE BlockSyncAssumption
<1>1. blockNum' \in 1..(MaxHeight + 1) /\ blockNum' <= blockNum /\ number \in {blockNum' - 1, blockNum'}
  BY DEF Die, Resume, TypeOK, Place
<1>2. TypeOK'
  <2>1. Flags'
    BY Zenon DEF Die, Flags
  <2>2. Data'
    BY <1>1, Parts DEF Data, Die, chainVars
  <2> QED BY <2>1, <2>2, Parts, PTL
<1>3. Place'
  BY <1>1 DEF TypeOK, Place, Die, chainVars, Blocks, Busy
<1> QED BY <1>1, <1>2, <1>3

(***************************************************************************)
(* The type invariant and the place of the syncer are kept together.       *)
(***************************************************************************)
LEMMA PlaceStep == TypeOK /\ Place /\ [Next]_vars => TypeOK' /\ Place'
<1> SUFFICES ASSUME TypeOK, Place, [Next]_vars
             PROVE  TypeOK' /\ Place'
  OBVIOUS
<1> USE BlockSyncAssumption
<1>1. CASE AppendBlock
  BY <1>1 DEF AppendBlock, TypeOK, Place, Blocks, procVars, stopVars
<1>2. CASE TimerFires
  <2>1. TypeOK'
    <3>1. Flags'
      BY <1>2, Parts DEF TimerFires, ApplyDefault, Flags, procVars, stopVars
    <3>2. Data'
      BY <1>2, Parts DEF TimerFires, ApplyDefault, Data, chainVars, procVars, stopVars
    <3> QED BY <3>1, <3>2, Parts, PTL
  <2>2. Place'
    BY <1>2 DEF TimerFires, TypeOK, Place, Blocks, Busy, chainVars, procVars
  <2> QED BY <2>1, <2>2
<1>3. CASE QueryBlock
  <2>1. TypeOK'
    <3>1. Flags'
      BY <1>3, Parts DEF QueryBlock, ApplyDefault, Flags, procVars, stopVars
    <3>2. Data'
      BY <1>3, Parts DEF QueryBlock, ApplyDefault, Data, chainVars, procVars, stopVars
    <3> QED BY <3>1, <3>2, Parts, PTL
  <2>2. Place'
    BY <1>3 DEF QueryBlock, TypeOK, Place, Blocks, Busy, chainVars, procVars
  <2> QED BY <2>1, <2>2
<1>4. CASE SyncDone
  BY <1>4 DEF SyncDone, TypeOK, Place, Blocks, Busy, chainVars, procVars, stopVars
<1>5. CASE SendPreTxs
  BY <1>5 DEF SendPreTxs, TypeOK, Place, Blocks, Busy, chainVars, procVars, stopVars
<1>6. CASE SendErr
  BY <1>6 DEF SendErr, ApplyDefault, TypeOK, Place, Blocks, Busy, chainVars, procVars, stopVars
<1>7. CASE Parse
  BY <1>7 DEF Parse, TypeOK, Place, Blocks, Busy, chainVars, procVars, stopVars
<1>8. CASE AddCrossTxs
  BY <1>8, ZenonT(60) DEF AddCrossTxs, TypeOK, Place, Blocks, Busy, chainVars, procVars, stopVars
<1>9. CASE NilEntry
  BY <1>9, DieKeeps DEF NilEntry, TypeOK
<1>10. CASE ProcDone
  BY <1>10 DEF ProcDone, TypeOK, Place, Blocks, Busy, chainVars, procVars, stopVars
<1>11. CASE SelfStop
  BY <1>11 DEF SelfStop, TypeOK, Place, Blocks, Busy, chainVars, procVars
<1>12. CASE Stop
  BY <1>12 DEF Stop, TypeOK, Place, Blocks, Busy, chainVars, procVars
<1>13. CASE StopReturn
  BY <1>13 DEF StopReturn, TypeOK, Place, Blocks, Busy, chainVars, procVars
<1>14. CASE Crash
  <2>1. crashes' \in 0..MaxCrashes /\ panicked' \in BOOLEAN /\ Die
    BY <1>14 DEF Crash, TypeOK
  <2> QED BY <2>1, DieKeeps
<1>15. CASE Restart
  <2>1. blockNum' \in 1..(MaxHeight + 1) /\ number \in {blockNum' - 1, blockNum'}
    BY <1>15 DEF Restart, Resume, TypeOK, Place
  <2>2. TypeOK'
    BY <1>15, <2>1 DEF Restart, TypeOK, Blocks, chainVars, stopVars
  <2> QED BY <1>15, <2>1, <2>2 DEF Restart, Place, TypeOK, Busy, chainVars, stopVars
<1>16. CASE UNCHANGED vars
  BY <1>16 DEF vars, TypeOK, Place, Blocks, Busy
<1> QED
  BY <1>1, <1>2, <1>3, <1>4, <1>5, <1>6, <1>7, <1>8, <1>9, <1>10, <1>11, <1>12, <1>13, <1>14, <1>15,
     <1>16 DEF Next, Sync, Proc

LEMMA PlaceInit == Init => TypeOK /\ Place
<1> SUFFICES ASSUME Init
             PROVE  TypeOK /\ Place
  OBVIOUS
<1>1. number = 0 /\ blockNum = 1
  BY DEF Init, Resume
<1>2. TypeOK
  <2>1. Flags
    BY DEF Init, Flags
  <2>2. Data
    BY <1>1, BlockSyncAssumption DEF Init, Data
  <2> QED BY <2>1, <2>2, Parts
<1>3. Place
  BY <1>1 DEF Init, Place, Busy
<1> QED BY <1>2, <1>3

(* The invariant of the syncer.                                            *)
LEMMA Placed == Spec => [](TypeOK /\ Place)
BY PlaceInit, PlaceStep, PTL DEF Spec

(***************************************************************************)
(* No step loses more than the block in hand, and only a crash loses it.   *)
(***************************************************************************)
LEMMA MissingFinite ==
  ASSUME TypeOK
  PROVE  IsFiniteSet(Missing) /\ Cardinality(Missing) \in Nat
<1>1. IsFiniteSet(Blocks)
  BY BlockSyncAssumption, FS_Interval DEF Blocks
<1>2. Missing \subseteq Blocks
  BY DEF Missing, Behind, Cross
<1> QED BY <1>1, <1>2, FS_Subset, FS_CardinalityType

(* A step that is no crash loses nothing; a crash loses the block in hand. *)
LEMMA MissingStep ==
  ASSUME TypeOK, Place, [Next]_vars
  PROVE  \/ Missing' \subseteq Missing /\ crashes' = crashes
         \/ Crash /\ Missing' \subseteq Missing \cup {hold}
         \/ panicked'
<1> USE DEF Missing, Behind, Cross, InHand, Blocks
<1>1. CASE AppendBlock
  BY <1>1 DEF AppendBlock, procVars, stopVars
<1>2. CASE TimerFires
  BY <1>2 DEF TimerFires, chainVars, procVars
<1>3. CASE QueryBlock
  BY <1>3 DEF QueryBlock, TypeOK, chainVars, procVars
<1>4. CASE SyncDone
  BY <1>4 DEF SyncDone, chainVars, procVars
<1>5. CASE SendPreTxs
  BY <1>5 DEF SendPreTxs, TypeOK, chainVars, procVars
<1>6. CASE SendErr
  BY <1>6 DEF SendErr, chainVars, procVars
<1>7. CASE Parse
  BY <1>7 DEF Parse, chainVars, procVars
<1>8. CASE AddCrossTxs
  BY <1>8 DEF AddCrossTxs, chainVars, procVars
<1>9. CASE NilEntry
  BY <1>9 DEF NilEntry
<1>10. CASE ProcDone
  BY <1>10 DEF ProcDone, chainVars, procVars
<1>11. CASE SelfStop \/ Stop \/ StopReturn
  BY <1>11 DEF SelfStop, Stop, StopReturn, chainVars, procVars
<1>12. CASE Crash
  <2>1. blockNum' <= blockNum /\ blockNum' \in Nat /\ blockNum \in Nat
    <3>1. crashes' \in 0..MaxCrashes /\ panicked' \in BOOLEAN /\ Die
      BY <1>12, BlockSyncAssumption DEF Crash, TypeOK
    <3> QED BY <3>1, DieKeeps DEF TypeOK
  <2>2. ASSUME NEW b \in Missing', b # hold
        PROVE  b \in Missing
    BY <1>12, <2>1, <2>2 DEF Crash, Die, chainVars
  <2> QED BY <1>12, <2>2
<1>13. CASE Restart
  <2>1. blockNum' <= blockNum /\ blockNum' \in Nat /\ blockNum \in Nat
    BY <1>13 DEF Restart, Resume, TypeOK, Place
  <2>2. /\ saved' = saved /\ refused' = refused /\ kind' = kind /\ crashes' = crashes
        /\ procPc' = "select" /\ hold' = hold /\ procPc = "done"
    BY <1>13 DEF Restart, Place, chainVars
  <2> QED BY <2>1, <2>2
<1>14. CASE UNCHANGED vars
  BY <1>14 DEF vars
<1> QED
  BY <1>1, <1>2, <1>3, <1>4, <1>5, <1>6, <1>7, <1>8, <1>9, <1>10, <1>11, <1>12, <1>13, <1>14
     DEF Next, Sync, Proc

LEMMA LostStep ==
  ASSUME TypeOK, Place, [Next]_vars, AtMostOneLostPerCrash
  PROVE  AtMostOneLostPerCrash'
<1> SUFFICES ASSUME ~panicked'
             PROVE  Cardinality(Missing') <= crashes'
  BY DEF AtMostOneLostPerCrash
<1>1. Cardinality(Missing) <= crashes
  <2>1. ~panicked
    BY DEF Next, Sync, Proc, AppendBlock, TimerFires, QueryBlock, SyncDone, SendPreTxs, SendErr, Parse,
           AddCrossTxs, NilEntry, ProcDone, SelfStop, Stop, StopReturn, Crash, Restart, procVars, vars
  <2> QED BY <2>1 DEF AtMostOneLostPerCrash
<1>2. IsFiniteSet(Missing) /\ Cardinality(Missing) \in Nat
  BY MissingFinite
<1>3. ASSUME Missing' \subseteq Missing, crashes' = crashes
      PROVE  Cardinality(Missing') <= crashes'
  <2>1. IsFiniteSet(Missing') /\ Cardinality(Missing') <= Cardinality(Missing)
    BY <1>2, <1>3, FS_Subset
  <2>2. Cardinality(Missing') \in Nat
    BY <2>1, FS_CardinalityType
  <2> QED BY <1>1, <1>2, <1>3, <2>1, <2>2, BlockSyncAssumption DEF TypeOK
<1>4. ASSUME Crash, Missing' \subseteq Missing \cup {hold}
      PROVE  Cardinality(Missing') <= crashes'
  <2>1. /\ IsFiniteSet(Missing \cup {hold})
        /\ \/ Cardinality(Missing \cup {hold}) = Cardinality(Missing)
           \/ Cardinality(Missing \cup {hold}) = Cardinality(Missing) + 1
    BY <1>2, FS_AddElement
  <2>2. IsFiniteSet(Missing') /\ Cardinality(Missing') <= Cardinality(Missing \cup {hold})
    BY <1>4, <2>1, FS_Subset
  <2>3. Cardinality(Missing') \in Nat
    BY <2>2, FS_CardinalityType
  <2>4. crashes' = crashes + 1
    BY <1>4 DEF Crash
  <2> QED BY <1>1, <1>2, <2>1, <2>2, <2>3, <2>4, BlockSyncAssumption DEF TypeOK
<1> QED BY <1>3, <1>4, MissingStep

(* A restart loses at most the block that was in hand when the process was *)
(* killed, and meets at most the last stored one again, at every height    *)
(* and after any number of crashes (syncer.go:33, 78, 106).                *)
THEOREM RestartIsCheap == Spec => []RestartCosts
<1>1. Init => AtMostOneLostPerCrash
  <2> SUFFICES ASSUME Init
               PROVE  AtMostOneLostPerCrash
    OBVIOUS
  <2>1. Missing = {}
    BY DEF Init, Missing, Behind, Cross, Blocks, Resume
  <2> QED BY <2>1, FS_EmptySet DEF Init, AtMostOneLostPerCrash
<1>2. TypeOK /\ Place /\ AtMostOneLostPerCrash /\ [Next]_vars => AtMostOneLostPerCrash'
  BY LostStep
<1>3. TypeOK /\ Place /\ AtMostOneLostPerCrash => RestartCosts
  BY DEF RestartCosts, RedeliverAtMostOne, Place, TypeOK, Blocks
<1> QED BY <1>1, <1>2, <1>3, Placed, PTL DEF Spec

(* Blocks reach the database in the order of the chain, so a commit never  *)
(* overtakes the precommit of its contract (syncer.go:78, 129).            *)
THEOREM StoredInOrder == Spec => SavedInOrder
<1> DEFINE Ordered == \A b \in saved' \ saved : \A c \in saved : c < b
<1>1. TypeOK /\ Place /\ [Next]_vars => Ordered \/ UNCHANGED vars
  <2> SUFFICES ASSUME TypeOK, Place, [Next]_vars, NEW b \in saved' \ saved, NEW c \in saved
               PROVE  c < b
    OBVIOUS
  <2>1. AddCrossTxs /\ b = hold
    BY DEF Next, Sync, Proc, AppendBlock, TimerFires, QueryBlock, SyncDone, SendPreTxs, SendErr, Parse,
           AddCrossTxs, NilEntry, ProcDone, SelfStop, Stop, StopReturn, Crash, Restart, Die, vars
  <2> QED BY <2>1 DEF AddCrossTxs, Place, Busy, TypeOK, Blocks
<1>2. TypeOK /\ Place /\ [Next]_vars => [Ordered]_vars
  BY <1>1
<1> QED BY <1>2, Placed, PTL DEF Spec, SavedInOrder

-----------------------------------------------------------------------------
(***************************************************************************)
(* Intake.  The slots of the sorted stack: arithmetic on indices.          *)
(***************************************************************************)

(* Natural division as every proof below uses it: a quotient and a         *)
(* remainder.                                                              *)
LEMMA Division ==
  ASSUME NEW m \in Nat \ {0}, NEW i \in Nat
  PROVE  /\ i \div m \in Nat /\ i % m \in 0..(m - 1)
         /\ i = m * (i \div m) + (i % m)
BY SMTT(30)

LEMMA Monotone == ASSUME NEW m \in Nat, NEW x \in Nat, NEW y \in Nat, x <= y PROVE m * x <= m * y
BY SMTT(30)

LEMMA Quotient ==
  ASSUME NEW m \in Nat \ {0}, NEW q \in Nat, NEW r \in 0..(m - 1)
  PROVE  (m * q + r) \div m = q /\ (m * q + r) % m = r
BY SMTT(30)

(* The block of an index lies among the blocks there are.                  *)
LEMMA InRange ==
  ASSUME NEW m \in Nat \ {0}, NEW n \in Nat, NEW i \in 0..(n * m - 1)
  PROVE  (i \div m) + 1 \in 1..n
<1>1. PICK q \in Nat : q = i \div m
  BY Division
<1>2. m * q <= i
  BY <1>1, SMTT(30)
<1>3. ASSUME q >= n
      PROVE  m * q >= n * m
  BY <1>3, SMTT(30)
<1>4. m * q \in Nat /\ n * m \in Nat
  OBVIOUS
<1> QED BY <1>1, <1>2, <1>3, <1>4

Slots == {Nil} \cup [value : TxIDs, priority : Int]

(* A stack: its blocks have BlockSize slots each, a slot nil or an item.   *)
Stacks ==
  [blocks : Seq([0..(BlockSize - 1) -> Slots]), active : Nat, offset : Nat, size : Nat]

Indices(s) == 0..(Capacity(s) - 1)

LEMMA CapacityType == ASSUME NEW s \in Stacks PROVE Capacity(s) \in Nat
BY SizeAssumption DEF Capacity, Stacks

(* An index below the capacity names a block, an offset in it and a slot.  *)
LEMMA SlotAt ==
  ASSUME NEW s \in Stacks, NEW i \in Indices(s)
  PROVE  /\ (i \div BlockSize) + 1 \in DOMAIN s.blocks
         /\ i % BlockSize \in 0..(BlockSize - 1)
         /\ At(s, i) \in Slots
<1>1. i \in 0..(Len(s.blocks) * BlockSize - 1) /\ Len(s.blocks) \in Nat /\ BlockSize \in Nat \ {0}
  BY SizeAssumption DEF Indices, Capacity, Stacks
<1>2. (i \div BlockSize) + 1 \in 1..Len(s.blocks)
  BY <1>1, InRange
<1>3. i \in Nat
  BY <1>1, SMTT(30)
<1>4. i % BlockSize \in 0..(BlockSize - 1)
  BY <1>1, <1>3, Division
<1>5. ASSUME NEW q \in 1..Len(s.blocks), NEW r \in 0..(BlockSize - 1)
      PROVE  q \in DOMAIN s.blocks /\ s.blocks[q][r] \in Slots
  <2>1. s.blocks \in Seq([0..(BlockSize - 1) -> Slots])
    BY DEF Stacks
  <2>2. q \in DOMAIN s.blocks /\ s.blocks[q] \in [0..(BlockSize - 1) -> Slots]
    BY <2>1
  <2> QED BY <2>2
<1>6. At(s, i) = s.blocks[(i \div BlockSize) + 1][i % BlockSize]
  BY DEF At
<1> QED BY <1>2, <1>4, <1>5, <1>6, Zenon

(* No two indices share a slot.                                            *)
LEMMA SlotsDiffer ==
  ASSUME NEW i \in Nat, NEW j \in Nat, i \div BlockSize = j \div BlockSize, i % BlockSize = j % BlockSize
  PROVE  i = j
BY SizeAssumption, Division

(* A write changes the slot of its index and no other.                     *)
LEMMA AfterPut ==
  ASSUME NEW s \in Stacks, NEW i \in Indices(s), NEW item \in Slots
  PROVE  /\ Put(s, i, item) \in Stacks /\ Len(Put(s, i, item).blocks) = Len(s.blocks)
         /\ Put(s, i, item).size = s.size /\ Put(s, i, item).offset = s.offset
         /\ Put(s, i, item).active = s.active
         /\ \A k \in Indices(s) : At(Put(s, i, item), k) = IF k = i THEN item ELSE At(s, k)
<1> DEFINE q == (i \div BlockSize) + 1
           r == i % BlockSize
<1>1. q \in DOMAIN s.blocks /\ r \in 0..(BlockSize - 1)
  BY SlotAt
<1>2. Put(s, i, item) = [s EXCEPT !.blocks = [s.blocks EXCEPT ![q] = [s.blocks[q] EXCEPT ![r] = item]]]
  BY DEF Put
<1> HIDE DEF q, r
<1>3. /\ Put(s, i, item) \in Stacks /\ Len(Put(s, i, item).blocks) = Len(s.blocks)
      /\ Put(s, i, item).blocks = [s.blocks EXCEPT ![q] = [s.blocks[q] EXCEPT ![r] = item]]
      /\ Put(s, i, item).size = s.size /\ Put(s, i, item).offset = s.offset
      /\ Put(s, i, item).active = s.active
  <2>1. s.blocks \in Seq([0..(BlockSize - 1) -> Slots]) /\ DOMAIN s.blocks = 1..Len(s.blocks)
    BY DEF Stacks
  <2>2. s.blocks[q] \in [0..(BlockSize - 1) -> Slots]
    BY <1>1, <2>1
  <2>3. [s.blocks[q] EXCEPT ![r] = item] \in [0..(BlockSize - 1) -> Slots]
    BY <2>2
  <2> DEFINE b == [s.blocks EXCEPT ![q] = [s.blocks[q] EXCEPT ![r] = item]]
  <2>4. b \in Seq([0..(BlockSize - 1) -> Slots]) /\ Len(b) = Len(s.blocks)
    BY <1>1, <2>1, <2>3
  <2> HIDE DEF b
  <2>5. [s EXCEPT !.blocks = b] \in Stacks
    BY <2>4 DEF Stacks
  <2>6. [s EXCEPT !.blocks = b].blocks = b
    BY DEF Stacks
  <2>7. /\ [s EXCEPT !.blocks = b].size = s.size /\ [s EXCEPT !.blocks = b].offset = s.offset
        /\ [s EXCEPT !.blocks = b].active = s.active
    BY DEF Stacks
  <2> QED BY <1>2, <2>4, <2>5, <2>6, <2>7 DEF b
<1>4. ASSUME NEW k \in Indices(s)
      PROVE  At(Put(s, i, item), k) = IF k = i THEN item ELSE At(s, k)
  <2>1. (k \div BlockSize) + 1 \in DOMAIN s.blocks /\ k % BlockSize \in 0..(BlockSize - 1)
    BY SlotAt
  <2>2. k \in Nat /\ i \in Nat /\ k \div BlockSize \in Nat /\ i \div BlockSize \in Nat
    <3>1. k \in Nat /\ i \in Nat
      BY CapacityType DEF Indices
    <3> QED BY <3>1, SizeAssumption, Division
  <2>3. k = i <=> (k \div BlockSize) + 1 = q /\ k % BlockSize = r
    BY <2>2, SlotsDiffer DEF q, r
  <2>4. ASSUME NEW x \in DOMAIN s.blocks, NEW y \in 0..(BlockSize - 1)
        PROVE  Put(s, i, item).blocks[x][y] = IF x = q /\ y = r THEN item ELSE s.blocks[x][y]
    <3>1. s.blocks \in Seq([0..(BlockSize - 1) -> Slots])
      BY DEF Stacks
    <3>2. s.blocks[q] \in [0..(BlockSize - 1) -> Slots]
      BY <1>1, <3>1
    <3> QED BY <1>1, <1>3, <3>2, ZenonT(60)
  <2> QED BY <2>1, <2>3, <2>4, Zenon DEF At
<1> QED BY <1>3, <1>4

(* Two slots are exchanged and no other is touched.                        *)
LEMMA AfterSwap ==
  ASSUME NEW s \in Stacks, NEW i \in Indices(s), NEW j \in Indices(s)
  PROVE  /\ Swap(s, i, j) \in Stacks /\ Len(Swap(s, i, j).blocks) = Len(s.blocks)
         /\ Swap(s, i, j).size = s.size /\ Swap(s, i, j).offset = s.offset
         /\ Swap(s, i, j).active = s.active
         /\ \A k \in Indices(s) :
              At(Swap(s, i, j), k) = IF k = j THEN At(s, i) ELSE IF k = i THEN At(s, j) ELSE At(s, k)
<1> DEFINE p == Put(s, i, At(s, j))
<1>1. At(s, i) \in Slots /\ At(s, j) \in Slots
  BY SlotAt
<1>2. /\ p \in Stacks /\ Len(p.blocks) = Len(s.blocks)
      /\ p.size = s.size /\ p.offset = s.offset /\ p.active = s.active
      /\ \A k \in Indices(s) : At(p, k) = IF k = i THEN At(s, j) ELSE At(s, k)
  BY <1>1, AfterPut
<1>3. Indices(p) = Indices(s)
  BY <1>2 DEF Indices, Capacity
<1>4. Swap(s, i, j) = Put(p, j, At(s, i))
  BY DEF Swap
<1> HIDE DEF p
<1>5. /\ Put(p, j, At(s, i)) \in Stacks /\ Len(Put(p, j, At(s, i)).blocks) = Len(p.blocks)
      /\ Put(p, j, At(s, i)).size = p.size /\ Put(p, j, At(s, i)).offset = p.offset
      /\ Put(p, j, At(s, i)).active = p.active
      /\ \A k \in Indices(p) : At(Put(p, j, At(s, i)), k) = IF k = j THEN At(s, i) ELSE At(p, k)
  BY <1>1, <1>2, <1>3, AfterPut
<1> QED BY <1>2, <1>3, <1>4, <1>5

-----------------------------------------------------------------------------
(***************************************************************************)
(* Pushing and popping keep the stack well formed, at the end of a block   *)
(* and anywhere else.                                                      *)
(***************************************************************************)

(* The items fill the first slots and the offset is after the last.        *)
WellFormed(s) == s \in Stacks /\ InPlace(s)

(* In a well-formed stack an index holds an item when it is below the      *)
(* size.                                                                   *)
LEMMA InPlaceSlots ==
  ASSUME NEW s, WellFormed(s)
  PROVE  /\ Capacity(s) \in Nat /\ s.size \in 0..Capacity(s)
         /\ \A k \in Indices(s) : (At(s, k) = Nil) <=> (k >= s.size)
BY CapacityType DEF WellFormed, InPlace, Indices

(* Whether a block is appended, the next one is entered or neither, no     *)
(* item moves and there is room at the offset.                             *)
LEMMA AfterExpand ==
  ASSUME NEW s, WellFormed(s)
  PROVE  /\ WellFormed(Expanded(s)) /\ Expanded(s).size = s.size
         /\ s.size < Capacity(Expanded(s)) /\ Expanded(s).offset < BlockSize
         /\ \A k \in 0..(s.size - 1) : At(Expanded(s), k) = At(s, k)
<1> DEFINE n == Len(s.blocks)
<1>1. /\ s \in Stacks /\ s.blocks \in Seq([0..(BlockSize - 1) -> Slots]) /\ n \in Nat
      /\ BlockSize \in Nat \ {0} /\ Capacity(s) = n * BlockSize /\ Capacity(s) \in Nat
      /\ s.size \in 0..Capacity(s) /\ s.offset \in 0..BlockSize /\ s.active \in 1..n
      /\ s.size = (s.active - 1) * BlockSize + s.offset
  BY SizeAssumption, CapacityType DEF WellFormed, InPlace, Stacks, Capacity
<1>2. s \in Stacks
  BY <1>1
<1>3. CASE s.size = Capacity(s)
  <2> DEFINE b == Append(s.blocks, NewBlock)
  <2>1. PICK e : e = Expanded(s) /\ e = [s EXCEPT !.blocks = b, !.active = n + 1, !.offset = 0]
    BY <1>3 DEF Expanded
  <2>2. NewBlock \in [0..(BlockSize - 1) -> Slots] /\ \A r \in 0..(BlockSize - 1) : NewBlock[r] = Nil
    BY DEF NewBlock, Slots
  <2>3. /\ b \in Seq([0..(BlockSize - 1) -> Slots]) /\ Len(b) = n + 1
        /\ b[n + 1] = NewBlock /\ \A q \in 1..n : b[q] = s.blocks[q]
    BY <1>1, <2>2
  <2> HIDE DEF b
  <2>4. /\ e \in Stacks /\ e.blocks = b /\ e.size = s.size /\ e.active = n + 1 /\ e.offset = 0
    <3>1. PICK a \in Nat : a = n + 1
      BY <1>1
    <3>2. b \in Seq([0..(BlockSize - 1) -> Slots]) /\ e = [s EXCEPT !.blocks = b, !.active = a, !.offset = 0]
      BY <2>1, <2>3, <3>1
    <3>3. e \in Stacks
      BY <1>2, <3>2 DEF Stacks
    <3>4. e.blocks = b /\ e.active = a /\ e.offset = 0 /\ e.size = s.size
      BY <1>2, <3>2 DEF Stacks
    <3> QED BY <3>1, <3>3, <3>4
  <2>5. Capacity(e) = Capacity(s) + BlockSize
    <3>1. Capacity(e) = (n + 1) * BlockSize
      BY <2>3, <2>4 DEF Capacity
    <3>2. (n + 1) * BlockSize = n * BlockSize + BlockSize
      BY <1>1
    <3> QED BY <1>1, <3>1, <3>2
  <2>6. ASSUME NEW k \in Indices(s)
        PROVE  At(e, k) = At(s, k)
    <3>1. (k \div BlockSize) + 1 \in DOMAIN s.blocks
      BY <1>1, SlotAt
    <3>2. b[(k \div BlockSize) + 1] = s.blocks[(k \div BlockSize) + 1]
      <4>1. (k \div BlockSize) + 1 \in 1..n
        BY <1>1, <3>1
      <4> QED BY <2>3, <4>1, Zenon
    <3> QED BY <2>4, <3>2 DEF At
  <2>7. ASSUME NEW k \in Indices(e), k >= Capacity(s)
        PROVE  At(e, k) = Nil
    <3>1. k \in Nat /\ k < (n + 1) * BlockSize /\ k >= n * BlockSize
      BY <1>1, <2>3, <2>4, <2>7 DEF Indices, Capacity
    <3>2. (k \div BlockSize) + 1 \in 1..(n + 1)
      <4>1. k \in 0..((n + 1) * BlockSize - 1) /\ n + 1 \in Nat
        BY <1>1, <3>1
      <4> QED BY <1>1, <4>1, InRange
    <3>3. PICK q \in Nat, r \in 0..(BlockSize - 1) : q = k \div BlockSize /\ r = k % BlockSize /\ k = BlockSize * q + r
      BY <1>1, <3>1, Division
    <3>4. ASSUME q < n
          PROVE  FALSE
      <4>1. q + 1 <= n
        BY <1>1, <3>3, <3>4
      <4>2. BlockSize * (q + 1) <= n * BlockSize
        <5>1. BlockSize * (q + 1) <= BlockSize * n
          <6>1. q + 1 \in Nat
            BY <3>3
          <6> QED BY <1>1, <4>1, <6>1, Monotone
        <5> QED BY <1>1, <5>1
      <4>3. BlockSize * (q + 1) = BlockSize * q + BlockSize
        BY <1>1, <3>3
      <4>4. BlockSize * q \in Nat /\ n * BlockSize \in Nat
        BY <1>1, <3>3
      <4>5. r < BlockSize /\ r \in Nat /\ k = BlockSize * q + r /\ k >= n * BlockSize
        BY <1>1, <3>1, <3>3
      <4>6. PICK x \in Nat, y \in Nat : x = BlockSize * q /\ y = n * BlockSize
        BY <4>4
      <4>7. x + BlockSize <= y /\ k = x + r /\ k >= y
        BY <4>2, <4>3, <4>5, <4>6
      <4>8. r < BlockSize /\ r \in Nat /\ BlockSize \in Nat /\ x \in Nat /\ y \in Nat
        BY <1>1, <4>5, <4>6
      <4> QED BY <4>7, <4>8
    <3>5. q = n
      <4>1. q \in Nat /\ q + 1 \in 1..(n + 1) /\ n \in Nat
        BY <1>1, <3>2, <3>3
      <4> QED BY <3>4, <4>1
    <3> QED BY <1>1, <2>2, <2>3, <2>4, <3>3, <3>5, SMTT(60) DEF At
  <2>8. InPlace(e)
    <3>1. \A k \in Indices(e) : (At(e, k) = Nil) <=> (k >= s.size)
      <4> SUFFICES ASSUME NEW k \in Indices(e) PROVE (At(e, k) = Nil) <=> (k >= s.size)
        OBVIOUS
      <4>1. CASE k \in Indices(s)
        BY <4>1, <2>6, InPlaceSlots
      <4>2. CASE k \notin Indices(s)
        <5>1. k >= Capacity(s) /\ k \in Int
          BY <4>2, <1>1, <2>5 DEF Indices
        <5> QED BY <5>1, <1>3, <2>7
      <4> QED BY <4>1, <4>2
    <3>2. s.size = ((n + 1) - 1) * BlockSize + 0
      BY <1>1, <1>3
    <3> QED BY <1>1, <2>3, <2>4, <2>5, <3>1, <3>2, SMTT(60) DEF InPlace, Indices
  <2>9. \A k \in 0..(s.size - 1) : k \in Indices(s)
    BY <1>1 DEF Indices
  <2> QED BY <1>1, <1>3, <2>1, <2>4, <2>5, <2>6, <2>8, <2>9 DEF WellFormed
<1>4. CASE s.size # Capacity(s) /\ s.offset = BlockSize
  <2> DEFINE a == (s.size \div BlockSize) + 1
  <2>1. PICK e : e = Expanded(s) /\ e = [s EXCEPT !.active = a, !.offset = 0]
    BY <1>4 DEF Expanded
  <2>2. s.size = BlockSize * s.active /\ s.active \in Nat
    <3>1. (s.active - 1) * BlockSize + BlockSize = BlockSize * s.active
      BY <1>1
    <3> QED BY <1>1, <1>4, <3>1
  <2>3. a = s.active + 1
    <3>1. (BlockSize * s.active + 0) \div BlockSize = s.active
      BY <1>1, <2>2, Quotient
    <3> QED BY <1>1, <2>2, <3>1
  <2>4. a \in 1..n
    <3>1. s.size \in 0..(n * BlockSize - 1)
      BY <1>1, <1>4
    <3> QED BY <1>1, <3>1, InRange
  <2> HIDE DEF a
  <2>5. e \in Stacks /\ e.blocks = s.blocks /\ e.size = s.size /\ e.active = a /\ e.offset = 0
    <3>1. PICK c \in Nat : c = a
      BY <1>1, <2>4
    <3>2. e = [s EXCEPT !.active = c, !.offset = 0]
      BY <2>1, <3>1
    <3>3. e \in Stacks
      BY <1>2, <3>2 DEF Stacks
    <3>4. e.blocks = s.blocks /\ e.active = c /\ e.offset = 0 /\ e.size = s.size
      BY <1>2, <3>2 DEF Stacks
    <3> QED BY <3>1, <3>3, <3>4
  <2>6. Capacity(e) = Capacity(s) /\ \A k : At(e, k) = At(s, k)
    BY <2>5 DEF Capacity, At
  <2>7. s.size = (a - 1) * BlockSize + 0
    <3>1. a - 1 = s.active
      BY <1>1, <2>3
    <3> QED BY <1>1, <2>2, <3>1
  <2>8. InPlace(e)
    BY <1>1, <2>4, <2>5, <2>6, <2>7 DEF InPlace, WellFormed
  <2> QED BY <1>1, <1>4, <2>1, <2>5, <2>6, <2>8 DEF WellFormed
<1>5. CASE s.size # Capacity(s) /\ s.offset # BlockSize
  BY <1>1, <1>5 DEF Expanded
<1> QED BY <1>3, <1>4, <1>5

(* heap.Push puts its item after the last, with or without a new block.    *)
LEMMA AfterPush ==
  ASSUME NEW s, WellFormed(s), NEW item \in Slots, item # Nil
  PROVE  /\ WellFormed(StackPush(s, item)) /\ StackPush(s, item).size = s.size + 1
         /\ At(StackPush(s, item), s.size) = item
         /\ \A k \in 0..(s.size - 1) : At(StackPush(s, item), k) = At(s, k)
<1>1. PICK e : e = Expanded(s)
  OBVIOUS
<1>2. /\ WellFormed(e) /\ e.size = s.size /\ e.size < Capacity(e) /\ e.offset < BlockSize
      /\ \A k \in 0..(e.size - 1) : At(e, k) = At(s, k)
  BY <1>1, AfterExpand
<1>3. /\ e \in Stacks /\ Capacity(e) \in Nat /\ e.size \in Nat /\ e.offset \in 0..(BlockSize - 1)
      /\ e.active \in 1..Len(e.blocks) /\ e.size = (e.active - 1) * BlockSize + e.offset
  BY <1>2, CapacityType, SizeAssumption DEF WellFormed, InPlace, Stacks
<1>4. e.size \in Indices(e)
  BY <1>2, <1>3 DEF Indices
<1>5. e.size \div BlockSize = e.active - 1 /\ e.size % BlockSize = e.offset
  <2>1. PICK q \in Nat : q = e.active - 1
    BY <1>3
  <2>2. e.size = BlockSize * q + e.offset
    BY <1>3, <2>1, SizeAssumption
  <2>3. (BlockSize * q + e.offset) \div BlockSize = q /\ (BlockSize * q + e.offset) % BlockSize = e.offset
    BY <1>3, SizeAssumption, Quotient
  <2> QED BY <2>1, <2>2, <2>3
<1>6. PICK p : p = Put(e, e.size, item)
  OBVIOUS
<1>7. /\ p \in Stacks /\ Len(p.blocks) = Len(e.blocks) /\ p.size = e.size
      /\ p.offset = e.offset /\ p.active = e.active
      /\ \A k \in Indices(e) : At(p, k) = IF k = e.size THEN item ELSE At(e, k)
  BY <1>3, <1>4, <1>6, AfterPut
<1>8. p = [e EXCEPT !.blocks[e.active][e.offset] = item]
  <2>1. e.size \div BlockSize + 1 = e.active
    BY <1>3, <1>5
  <2> QED BY <1>5, <1>6, <2>1, Zenon DEF Put
<1>9. PICK t : t = StackPush(s, item) /\ t = [p EXCEPT !.offset = @ + 1, !.size = @ + 1]
  <2>1. StackPush(s, item) = [e EXCEPT !.blocks[e.active][e.offset] = item, !.offset = @ + 1, !.size = @ + 1]
    BY <1>1 DEF StackPush
  <2>2. StackPush(s, item) = [p EXCEPT !.offset = @ + 1, !.size = @ + 1]
    BY <2>1, <1>8
  <2> QED BY <2>2
<1>10. t \in Stacks /\ t.blocks = p.blocks /\ t.active = p.active /\ t.offset = p.offset + 1 /\ t.size = p.size + 1
  <2>1. p.offset \in Nat /\ p.size \in Nat
    BY <1>7 DEF Stacks
  <2>2. t = [p EXCEPT !.offset = p.offset + 1, !.size = p.size + 1]
    BY <1>9
  <2>3. PICK o \in Nat, z \in Nat : o = p.offset + 1 /\ z = p.size + 1
    BY <2>1
  <2>4. t = [p EXCEPT !.offset = o, !.size = z]
    BY <2>2, <2>3
  <2>5. t \in Stacks
    BY <1>7, <2>4 DEF Stacks
  <2>6. t.blocks = p.blocks /\ t.active = p.active /\ t.offset = o /\ t.size = z
    BY <1>7, <2>4 DEF Stacks
  <2> QED BY <2>3, <2>5, <2>6
<1>11. Capacity(t) = Capacity(e) /\ \A k : At(t, k) = At(p, k)
  BY <1>7, <1>10 DEF Capacity, At
<1>12. InPlace(t)
  <2>1. t.size \in 0..Capacity(t) /\ t.offset \in 0..BlockSize /\ t.active \in 1..Len(t.blocks)
    BY <1>2, <1>3, <1>7, <1>10, <1>11, SizeAssumption
  <2>2. ASSUME NEW k \in 0..(Capacity(t) - 1)
        PROVE  (At(t, k) = Nil) <=> (k >= t.size)
    <3>1. k \in Indices(e)
      BY <1>11 DEF Indices
    <3>2. (At(e, k) = Nil) <=> (k >= e.size)
      BY <1>2, <3>1, InPlaceSlots
    <3>3. At(t, k) = IF k = e.size THEN item ELSE At(e, k)
      BY <1>7, <1>11, <3>1
    <3>4. k \in Int /\ t.size = e.size + 1
      BY <1>3, <1>7, <1>10, <1>11
    <3> QED BY <1>3, <3>2, <3>3, <3>4
  <2>3. t.size = (t.active - 1) * BlockSize + t.offset
    BY <1>3, <1>7, <1>10, SizeAssumption
  <2> QED BY <2>1, <2>2, <2>3 DEF InPlace
<1>13. At(t, s.size) = item
  BY <1>2, <1>4, <1>7, <1>11
<1>14. ASSUME NEW k \in 0..(s.size - 1)
       PROVE  At(t, k) = At(s, k)
  <2>1. k \in Indices(e) /\ k # e.size /\ k \in 0..(e.size - 1)
    BY <1>2, <1>3 DEF Indices
  <2> QED BY <1>2, <1>7, <1>11, <2>1
<1>15. t.size = s.size + 1
  BY <1>2, <1>7, <1>10
<1> QED BY <1>9, <1>10, <1>12, <1>13, <1>14, <1>15 DEF WellFormed

(* heap.Pop's last write takes the last item, across the start of a block  *)
(* too, and leaves its slot nil.                                           *)
LEMMA AfterPop ==
  ASSUME NEW s, WellFormed(s), s.size > 0
  PROVE  /\ WellFormed(StackPop(s).stack) /\ StackPop(s).stack.size = s.size - 1
         /\ StackPop(s).item = At(s, s.size - 1)
         /\ \A k \in 0..(s.size - 2) : At(StackPop(s).stack, k) = At(s, k)
<1>1. /\ s \in Stacks /\ Capacity(s) \in Nat /\ s.size \in 1..Capacity(s) /\ s.offset \in 0..BlockSize
      /\ s.active \in 1..Len(s.blocks) /\ s.size = (s.active - 1) * BlockSize + s.offset
      /\ BlockSize \in Nat \ {0} /\ Len(s.blocks) \in Nat /\ Capacity(s) = Len(s.blocks) * BlockSize
  BY CapacityType, SizeAssumption DEF WellFormed, InPlace, Stacks, Capacity
<1>2. s.size - 1 \in Indices(s)
  BY <1>1 DEF Indices
<1>3. PICK r : r = Retreated(s)
  OBVIOUS
<1>4. /\ r \in Stacks /\ r.blocks = s.blocks /\ r.size = s.size - 1
      /\ r.active = ((s.size - 1) \div BlockSize) + 1 /\ r.offset = (s.size - 1) % BlockSize
  <2>1. PICK z \in Nat : z = s.size - 1
    BY <1>1
  <2>2. CASE s.offset > 0
    <3>1. PICK o \in Nat : o = s.offset - 1
      BY <1>1, <2>2
    <3>2. r = [s EXCEPT !.size = z, !.offset = o]
      BY <1>3, <2>1, <2>2, <3>1 DEF Retreated
    <3>3. r \in Stacks
      BY <1>1, <3>2 DEF Stacks
    <3>4. r.blocks = s.blocks /\ r.active = s.active /\ r.offset = o /\ r.size = z
      BY <1>1, <3>2 DEF Stacks
    <3>5. z \div BlockSize = s.active - 1 /\ z % BlockSize = o
      <4>1. PICK q \in Nat : q = s.active - 1
        BY <1>1
      <4>2. z = BlockSize * q + o
        <5>1. (s.active - 1) * BlockSize = BlockSize * q /\ BlockSize * q \in Nat
          BY <1>1, <4>1
        <5>2. PICK x \in Nat : x = BlockSize * q
          BY <5>1
        <5>3. s.size = x + s.offset
          BY <1>1, <5>1, <5>2
        <5>4. s.offset \in Nat
          BY <1>1
        <5> QED BY <2>1, <3>1, <5>2, <5>3, <5>4
      <4>3. o \in 0..(BlockSize - 1)
        BY <1>1, <3>1
      <4>4. (BlockSize * q + o) \div BlockSize = q /\ (BlockSize * q + o) % BlockSize = o
        BY <1>1, <4>3, Quotient
      <4> QED BY <4>1, <4>2, <4>4
    <3>6. s.active = (z \div BlockSize) + 1
      BY <1>1, <3>5
    <3> QED BY <2>1, <3>3, <3>4, <3>5, <3>6
  <2>3. CASE s.offset = 0
    <3>1. PICK o \in Nat : o = BlockSize - 1
      BY <1>1
    <3>2. PICK a \in Nat : a = (z \div BlockSize) + 1
      <4>1. z \div BlockSize \in Nat
        BY SizeAssumption, Division
      <4> QED BY <4>1
    <3>3. r = [s EXCEPT !.size = z, !.offset = o, !.active = a]
      BY <1>3, <2>1, <2>3, <3>1, <3>2 DEF Retreated
    <3>4. r \in Stacks
      BY <1>1, <3>3 DEF Stacks
    <3>5. r.blocks = s.blocks /\ r.active = a /\ r.offset = o /\ r.size = z
      BY <1>1, <3>3 DEF Stacks
    <3>6. z % BlockSize = o
      <4>1. PICK q \in Int : q = s.active - 2
        BY <1>1
      <4>2. z = BlockSize * q + o
        <5>1. (s.active - 1) * BlockSize = BlockSize * q + BlockSize /\ BlockSize * q \in Int
          <6>1. PICK b \in Nat : b = BlockSize
            BY <1>1
          <6>2. s.active - 1 = q + 1
            BY <1>1, <4>1
          <6>3. (q + 1) * b = b * q + b /\ b * q \in Int
            OBVIOUS
          <6> QED BY <6>1, <6>2, <6>3
        <5>2. PICK x \in Int : x = BlockSize * q
          BY <5>1
        <5>3. s.size = x + BlockSize
          BY <1>1, <2>3, <5>1, <5>2
        <5> QED BY <1>1, <2>1, <3>1, <5>2, <5>3
      <4>3. q >= 0
        <5>1. ASSUME s.active = 1
              PROVE  FALSE
          <6>1. s.size = 0 * BlockSize + 0
            BY <1>1, <2>3, <5>1
          <6> QED BY <1>1, <6>1
        <5>2. s.active \in Nat \ {0}
          BY <1>1
        <5> QED BY <4>1, <5>1, <5>2
      <4>4. (BlockSize * q + o) % BlockSize = o
        <5>1. q \in Nat /\ o \in 0..(BlockSize - 1)
          BY <1>1, <3>1, <4>3
        <5> QED BY <5>1, SizeAssumption, Quotient
      <4> QED BY <4>2, <4>4
    <3> QED BY <2>1, <3>2, <3>4, <3>5, <3>6
  <2> QED BY <1>1, <2>2, <2>3
<1>5. PICK i \in Nat : i = s.size - 1
  BY <1>1
<1>6. StackPop(s).item = At(s, i)
  BY <1>3, <1>4, <1>5 DEF StackPop, At
<1>7. PICK t : t = StackPop(s).stack
  OBVIOUS
<1>8. t = Put(r, i, Nil)
  BY <1>3, <1>4, <1>5, <1>7 DEF StackPop, Put
<1>9. Indices(r) = Indices(s) /\ Capacity(r) = Capacity(s) /\ \A k : At(r, k) = At(s, k)
  BY <1>4 DEF Indices, Capacity, At
<1>10. /\ t \in Stacks /\ Len(t.blocks) = Len(r.blocks) /\ t.size = r.size
       /\ t.offset = r.offset /\ t.active = r.active
       /\ \A k \in Indices(r) : At(t, k) = IF k = i THEN Nil ELSE At(r, k)
  BY <1>2, <1>4, <1>5, <1>8, <1>9, AfterPut DEF Slots
<1>11. Capacity(t) = Capacity(s)
  BY <1>4, <1>10 DEF Capacity
<1>12. InPlace(t)
  <2>1. t.size = i /\ i < s.size
    BY <1>1, <1>4, <1>5, <1>10
  <2>2. t.offset \in 0..BlockSize /\ t.active \in 1..Len(t.blocks)
    <3>1. i \in 0..(Len(s.blocks) * BlockSize - 1)
      BY <1>1, <1>5
    <3>2. (i \div BlockSize) + 1 \in 1..Len(s.blocks) /\ i % BlockSize \in 0..(BlockSize - 1)
      BY <1>1, <3>1, InRange, Division
    <3> QED BY <1>1, <1>4, <1>5, <1>10, <3>2
  <2>3. t.size = (t.active - 1) * BlockSize + t.offset
    <3>1. i = BlockSize * (i \div BlockSize) + (i % BlockSize) /\ i \div BlockSize \in Nat
      BY SizeAssumption, Division
    <3>2. t.active - 1 = i \div BlockSize /\ t.offset = i % BlockSize
      BY <1>4, <1>5, <1>10, <3>1
    <3>3. PICK q \in Nat : q = i \div BlockSize
      BY <3>1
    <3>4. t.size = BlockSize * q + t.offset /\ t.active - 1 = q
      BY <2>1, <3>1, <3>2, <3>3
    <3> QED BY <1>1, <3>4
  <2>4. ASSUME NEW k \in 0..(Capacity(t) - 1)
        PROVE  (At(t, k) = Nil) <=> (k >= t.size)
    <3>1. k \in Indices(s) /\ k \in Int
      BY <1>11 DEF Indices
    <3>2. (At(s, k) = Nil) <=> (k >= s.size)
      BY <3>1, InPlaceSlots
    <3>3. At(t, k) = IF k = i THEN Nil ELSE At(s, k)
      BY <1>9, <1>10, <3>1
    <3> QED BY <1>1, <1>5, <2>1, <3>1, <3>2, <3>3
  <2> QED BY <1>1, <1>5, <1>11, <2>1, <2>2, <2>3, <2>4, SMTT(60) DEF InPlace
<1>13. ASSUME NEW k \in 0..(s.size - 2)
       PROVE  At(t, k) = At(s, k)
  <2>1. k \in Indices(s) /\ k # i
    BY <1>1, <1>5, SMTT(60) DEF Indices
  <2> QED BY <1>9, <1>10, <2>1
<1> QED BY <1>4, <1>5, <1>6, <1>7, <1>10, <1>12, <1>13 DEF WellFormed

-----------------------------------------------------------------------------
(***************************************************************************)
(* The parts of the invariant of Intake.                                   *)
(***************************************************************************)

(* What AddCrossTxs pushes.                                                *)
Queueable == {[value |-> t, priority |-> Wrapped(-Seconds[t])] : t \in TxIDs}

Time(s, i) == Seconds[At(s, i).value]

(* The item at k does not come before its parent.                          *)
Ordered(s, k) == Time(s, Parent(k)) <= Time(s, k)

(* The first n items are a heap.                                           *)
Heap(s, n) == \A k \in 1..(n - 1) : Ordered(s, k)

(* A heap but for the item at j, which may come before its parent.         *)
HeapUp(s, j) ==
  /\ \A k \in 1..(s.size - 1) : k # j => Ordered(s, k)
  /\ j > 0 => \A k \in 1..(s.size - 1) : Parent(k) = j => Time(s, Parent(j)) <= Time(s, k)

(* The last item comes before all others, and those are a heap but for the *)
(* item at i, which may come after its children.                           *)
HeapDown(s, i) ==
  LET n == s.size - 1 IN
    /\ \A k \in 1..(n - 1) : Parent(k) # i => Ordered(s, k)
    /\ i > 0 => \A k \in 1..(n - 1) : Parent(k) = i => Time(s, Parent(i)) <= Time(s, k)
    /\ \A k \in 0..(n - 1) : Time(s, n) <= Time(s, k)

(* While the keys have been close, the stack is in heap order, but for the *)
(* item the running loop stands at.                                        *)
HeapInOrder ==
  orderly =>
    /\ Queue!Close(Queued(heap))
    /\ sift.loop = "none" => Heap(heap, heap.size)
    /\ sift.loop = "up" => HeapUp(heap, sift.at)
    /\ sift.loop = "down" => HeapDown(heap, sift.at)

(* Who holds pending.mu, which loop runs, and what the sender has in hand. *)
Hands ==
  /\ pc = "add" <=> mu = "add"
  /\ sift.loop = "up" => pc = "add"
  /\ sift.loop = "down" => mu = "drain"
  /\ mu # "drain" => pending = <<>>

Contents ==
  /\ \A k \in 0..(heap.size - 1) : At(heap, k) \in Queueable
  /\ pending \in Seq(Queueable) /\ preCrossTxs \in Seq(Envelopes)

SiftOK ==
  sift \in {NoSift} \cup {Up(i) : i \in 0..(heap.size - 1)} \cup {Down(i) : i \in 0..(heap.size - 1)}

(* The type invariant and what goes with it, the flag apart.               *)
Shape ==
  /\ pc \in {"idle", "scan", "add", "crashed"} /\ mu \in {"free", "add", "drain"}
  /\ block \in Answers \cup {<<>>} /\ txIndex \in 1..(Len(block) + 1)
  /\ SiftOK /\ WellFormed(heap) /\ Contents /\ Hands

(* The n first envelopes of the block: place leads from what was collected *)
(* to where it was wanted, in the order of the block.                      *)
Placement(place, collected, n) ==
  /\ place \in [DOMAIN collected -> 1..n]
  /\ \A i, j \in DOMAIN collected : i < j => place[i] < place[j]
  /\ \A i \in DOMAIN collected : collected[i] = block[place[i]]
  /\ \A k \in 1..n : Wanted(block[k]) <=> \E i \in DOMAIN collected : place[i] = k

(* What the scan has collected so far.                                     *)
Collected == pc = "scan" => \E place : Placement(place, preCrossTxs, txIndex - 1)

-----------------------------------------------------------------------------
(***************************************************************************)
(* Priorities.  When the times in the queue are close, the comparison that *)
(* may overflow is the comparison of the times.                            *)
(***************************************************************************)
Half == Width \div 2

(* Half the range, and the range is two of it.                             *)
LEMMA Halves == Half \in Nat \ {0} /\ Width = Half + Half /\ Width \in Nat \ {0}
<1>1. Width \in Nat \ {0} /\ Width % 2 = 0
  BY SizeAssumption
<1>2. Width = 2 * (Width \div 2) + (Width % 2) /\ Width \div 2 \in Nat
  BY <1>1, Division
<1> QED BY <1>1, <1>2 DEF Half

(* The wrapped number differs from the number by whole ranges.             *)
LEMMA Wraps ==
  ASSUME NEW n \in Int
  PROVE  /\ Wrapped(n) \in Int /\ -Half <= Wrapped(n) /\ Wrapped(n) < Half
         /\ \E k \in Int : Wrapped(n) = n + Width * k
<1>1. PICK w \in Nat \ {0} : w = Width
  BY Halves
<1>2. PICK x \in Int : x = n + Half
  BY Halves
<1>3. x \div w \in Int /\ x % w \in 0..(w - 1) /\ x = w * (x \div w) + (x % w)
  BY SMTT(30)
<1>4. PICK q \in Int, r \in 0..(w - 1) : q = x \div w /\ r = x % w /\ x = w * q + r
  BY <1>3
<1>5. Wrapped(n) = r - Half
  BY <1>1, <1>2, <1>4 DEF Wrapped, Half
<1>6. PICK k \in Int : k = -q
  OBVIOUS
<1>7. Wrapped(n) = n + w * k
  <2>1. w * k = -(w * q) /\ w * q \in Int /\ w * k \in Int
    BY <1>6
  <2>2. PICK y \in Int : y = w * q
    BY <2>1
  <2>3. n + Half = y + r /\ w * k = -y /\ Wrapped(n) = r - Half /\ r \in Int /\ Half \in Int
    BY <1>2, <1>4, <1>5, <2>1, <2>2, Halves
  <2> QED BY <2>3
<1> QED BY <1>1, <1>5, <1>7, Halves

(* The only multiple of w closer to zero than w.                           *)
LEMMA Multiple ==
  ASSUME NEW w \in Nat \ {0}, NEW k \in Int, -w < w * k, w * k < w
  PROVE  k = 0
<1>1. ASSUME k >= 1
      PROVE  FALSE
  <2>1. w * 1 <= w * k
    BY <1>1, Monotone
  <2> QED BY <2>1
<1>2. ASSUME k <= -1
      PROVE  FALSE
  <2>1. PICK l \in Nat : l = -k /\ 1 <= l
    BY <1>2
  <2>2. w * 1 <= w * l
    BY <2>1, Monotone
  <2>3. w * l = -(w * k) /\ w * k \in Int
    BY <2>1
  <2> QED BY <2>2, <2>3
<1> QED BY <1>1, <1>2

(* Two times less than half the range apart: the difference of their       *)
(* priorities is that of the times, whatever the negation and the          *)
(* subtraction overflow.                                                   *)
LEMMA WrappedDifference ==
  ASSUME NEW a \in Int, NEW b \in Int, a - b < Half, b - a < Half
  PROVE  Wrapped(Wrapped(-a) - Wrapped(-b)) = b - a
<1>1. PICK p \in Int, k \in Int : p = Wrapped(-a) /\ p = (-a) + Width * k
  BY Wraps
<1>2. PICK q \in Int, l \in Int : q = Wrapped(-b) /\ q = (-b) + Width * l
  BY Wraps
<1>3. PICK d \in Int, m \in Int : d = Wrapped(p - q) /\ d = (p - q) + Width * m /\ -Half <= d /\ d < Half
  BY Wraps
<1>4. PICK n \in Int : n = k - l + m
  OBVIOUS
<1>5. d = (b - a) + Width * n
  <2>1. Width * n = Width * k - Width * l + Width * m
    BY <1>4, Halves
  <2>2. PICK x \in Int, y \in Int, z \in Int : x = Width * k /\ y = Width * l /\ z = Width * m
    BY Halves
  <2>3. p = (-a) + x /\ q = (-b) + y /\ d = (p - q) + z /\ Width * n = x - y + z
    BY <1>1, <1>2, <1>3, <2>1, <2>2
  <2> QED BY <2>3
<1>6. n = 0
  <2>1. PICK x \in Int : x = Width * n
    BY Halves
  <2>2. -Width < x /\ x < Width
    BY <1>3, <1>5, <2>1, Halves
  <2> QED BY <2>1, <2>2, Halves, Multiple
<1>7. Width * n = 0
  BY <1>6, Halves
<1> QED BY <1>1, <1>2, <1>3, <1>5, <1>7

(* The items are queueable and their times close to each other.            *)
Near(s) ==
  /\ \A k \in 0..(s.size - 1) : At(s, k) \in Queueable
  /\ \A i, j \in 0..(s.size - 1) : Time(s, i) - Time(s, j) < Half

LEMMA TimeType ==
  ASSUME NEW s, NEW k, At(s, k) \in Queueable
  PROVE  /\ Time(s, k) \in Int /\ At(s, k).value \in TxIDs /\ At(s, k) # Nil /\ At(s, k) \in Slots
         /\ At(s, k).priority = Wrapped(-Time(s, k))
<1>1. PICK t \in TxIDs : At(s, k) = [value |-> t, priority |-> Wrapped(-Seconds[t])]
  BY DEF Queueable
<1>2. Seconds[t] \in Int
  BY IntakeAssumption
<1>3. Wrapped(-Seconds[t]) \in Int
  BY <1>2, Wraps
<1> QED BY <1>1, <1>2, <1>3, IntakeAssumption DEF Time, Slots

(* Among such items the comparison of the stack is that of the times.      *)
LEMMA LessMeans ==
  ASSUME NEW s, s.size \in Nat, Near(s), NEW i \in 0..(s.size - 1), NEW j \in 0..(s.size - 1)
  PROVE  Less(s, i, j) <=> Time(s, i) < Time(s, j)
<1>1. At(s, i) \in Queueable /\ At(s, j) \in Queueable
  BY DEF Near
<1>2. PICK a \in Int, b \in Int : a = Time(s, i) /\ b = Time(s, j)
  BY <1>1, TimeType
<1>3. a - b < Half /\ b - a < Half
  BY <1>2 DEF Near
<1>4. Wrapped(At(s, i).priority - At(s, j).priority) = b - a
  BY <1>1, <1>2, <1>3, TimeType, WrappedDifference
<1> QED BY <1>2, <1>4 DEF Less

-----------------------------------------------------------------------------
(* A nonempty set of naturals has a least element.                         *)
LEMMA Least ==
  ASSUME NEW S \in SUBSET Nat, S # {}
  PROVE  \E m \in S : \A n \in S : m <= n
<1> DEFINE R == OpToRel(<, Nat)
<1>1. PICK m \in S : \A y \in S : <<y, m>> \notin R
  <2> HIDE DEF R
  <2> QED BY WFMin, NatLessThanWellFounded DEF R
<1>2. \A y \in S : ~(y < m)
  BY <1>1 DEF OpToRel
<1> QED BY <1>2

(***************************************************************************)
(* The loops of container/heap, one turn at a time.                        *)
(***************************************************************************)
LEMMA ParentOf ==
  ASSUME NEW k \in Nat \ {0}
  PROVE  Parent(k) \in Nat /\ Parent(k) < k /\ k \in {2 * Parent(k) + 1, 2 * Parent(k) + 2}
BY DEF Parent

LEMMA ParentIs ==
  ASSUME NEW i \in Nat, NEW k \in {2 * i + 1, 2 * i + 2}
  PROVE  Parent(k) = i
BY DEF Parent

(* The items of a well-formed stack are at the indices below its size.     *)
LEMMA Positions ==
  ASSUME NEW s, WellFormed(s)
  PROVE  s \in Stacks /\ s.size \in Nat /\ \A k \in 0..(s.size - 1) : k \in Indices(s) /\ At(s, k) # Nil
<1>1. Capacity(s) \in Nat /\ s.size \in 0..Capacity(s)
  BY InPlaceSlots
<1>2. \A k \in 0..(s.size - 1) : k \in Indices(s) /\ ~(k >= s.size)
  BY <1>1 DEF Indices
<1> QED BY <1>1, <1>2, InPlaceSlots DEF WellFormed

(* Exchanging two items leaves a well-formed stack.                        *)
LEMMA SwapKeeps ==
  ASSUME NEW s, WellFormed(s), NEW i \in 0..(s.size - 1), NEW j \in 0..(s.size - 1)
  PROVE  /\ WellFormed(Swap(s, i, j)) /\ Swap(s, i, j).size = s.size
         /\ \A k \in 0..(s.size - 1) :
              At(Swap(s, i, j), k) = IF k = j THEN At(s, i) ELSE IF k = i THEN At(s, j) ELSE At(s, k)
<1>1. PICK t : t = Swap(s, i, j)
  OBVIOUS
<1>2. /\ s \in Stacks /\ i \in Indices(s) /\ j \in Indices(s) /\ s.size \in Nat
      /\ \A k \in 0..(s.size - 1) : k \in Indices(s) /\ At(s, k) # Nil
  BY Positions
<1>3. /\ t \in Stacks /\ Len(t.blocks) = Len(s.blocks)
      /\ t.size = s.size /\ t.offset = s.offset /\ t.active = s.active
      /\ \A k \in Indices(s) : At(t, k) = IF k = j THEN At(s, i) ELSE IF k = i THEN At(s, j) ELSE At(s, k)
  BY <1>1, <1>2, AfterSwap
<1>4. Capacity(t) = Capacity(s)
  BY <1>3 DEF Capacity
<1>5. ASSUME NEW k \in 0..(Capacity(t) - 1)
      PROVE  (At(t, k) = Nil) <=> (k >= t.size)
  <2>1. k \in Indices(s) /\ k \in Int
    BY <1>4, InPlaceSlots DEF Indices
  <2>2. (At(s, k) = Nil) <=> (k >= s.size)
    BY <2>1, InPlaceSlots
  <2> QED BY <1>2, <1>3, <2>1, <2>2
<1>6. InPlace(t)
  BY <1>3, <1>4, <1>5 DEF WellFormed, InPlace
<1> QED BY <1>1, <1>2, <1>3, <1>6 DEF WellFormed

(* Exchanging two items keeps the items, so they stay close to each other. *)
LEMMA SwapTimes ==
  ASSUME NEW s, WellFormed(s), Near(s), NEW i \in 0..(s.size - 1), NEW j \in 0..(s.size - 1)
  PROVE  /\ Near(Swap(s, i, j))
         /\ \A k \in 0..(s.size - 1) : Time(s, k) \in Int
         /\ \A k \in 0..(s.size - 1) :
              Time(Swap(s, i, j), k) = IF k = j THEN Time(s, i) ELSE IF k = i THEN Time(s, j) ELSE Time(s, k)
<1>1. PICK t : t = Swap(s, i, j)
  OBVIOUS
<1>2. /\ t.size = s.size
      /\ \A k \in 0..(s.size - 1) : At(t, k) = IF k = j THEN At(s, i) ELSE IF k = i THEN At(s, j) ELSE At(s, k)
  BY <1>1, SwapKeeps
<1>3. \A k \in 0..(s.size - 1) : Time(t, k) = IF k = j THEN Time(s, i) ELSE IF k = i THEN Time(s, j) ELSE Time(s, k)
  BY <1>2 DEF Time
<1>4. Near(t)
  BY <1>2, <1>3 DEF Near
<1>5. \A k \in 0..(s.size - 1) : Time(s, k) \in Int
  BY TimeType DEF Near
<1> QED BY <1>1, <1>3, <1>4, <1>5

(* One turn of the loop of heap.Push: only the parent may now come after   *)
(* its own parent.                                                         *)
LEMMA RiseStep ==
  ASSUME NEW s, WellFormed(s), Near(s), NEW j \in 0..(s.size - 1), HeapUp(s, j), Rises(s, j)
  PROVE  /\ Parent(j) \in 0..(s.size - 1)
         /\ Near(Swap(s, Parent(j), j)) /\ HeapUp(Swap(s, Parent(j), j), Parent(j))
<1>1. PICK p : p = Parent(j)
  OBVIOUS
<1>2. s.size \in Nat /\ j \in Nat \ {0} /\ p \in 0..(s.size - 1) /\ p < j
  BY <1>1, Positions, ParentOf DEF Rises
<1>3. Time(s, j) < Time(s, p)
  BY <1>1, <1>2, LessMeans DEF Rises
<1>4. PICK t : t = Swap(s, p, j)
  OBVIOUS
<1>5. /\ t.size = s.size /\ Near(t)
      /\ \A k \in 0..(s.size - 1) : Time(s, k) \in Int
      /\ \A k \in 0..(s.size - 1) : Time(t, k) = IF k = j THEN Time(s, p) ELSE IF k = p THEN Time(s, j) ELSE Time(s, k)
  BY <1>2, <1>4, SwapKeeps, SwapTimes
<1>6. ASSUME NEW k \in 1..(s.size - 1), k # p
      PROVE  Ordered(t, k)
  <2>1. Parent(k) \in 0..(s.size - 1) /\ k \in 0..(s.size - 1) /\ Parent(k) < k
    BY <1>2, ParentOf
  <2>2. k # j => Time(s, Parent(k)) <= Time(s, k)
    BY DEF HeapUp, Ordered
  <2>3. Parent(k) = j => Time(s, p) <= Time(s, k)
    BY <1>1, <1>2 DEF HeapUp
  <2> QED BY <1>1, <1>2, <1>3, <1>5, <1>6, <2>1, <2>2, <2>3 DEF Ordered
<1>7. ASSUME p > 0, NEW k \in 1..(s.size - 1), Parent(k) = p
      PROVE  Time(t, Parent(p)) <= Time(t, k)
  <2>1. Parent(p) \in 0..(s.size - 1) /\ Parent(p) < p /\ k \in 0..(s.size - 1) /\ p < k
    BY <1>2, <1>7, ParentOf
  <2>2. Time(s, Parent(p)) <= Time(s, p)
    BY <1>2, <1>7 DEF HeapUp, Ordered
  <2>3. k # j => Time(s, p) <= Time(s, k)
    BY <1>7 DEF HeapUp, Ordered
  <2> QED BY <1>2, <1>3, <1>5, <2>1, <2>2, <2>3
<1> QED BY <1>1, <1>2, <1>4, <1>5, <1>6, <1>7 DEF HeapUp

(* The loop of heap.Push ends with a heap.                                 *)
LEMMA RiseEnd ==
  ASSUME NEW s, WellFormed(s), Near(s), NEW j \in 0..(s.size - 1), HeapUp(s, j), ~Rises(s, j)
  PROVE  Heap(s, s.size)
<1> SUFFICES ASSUME NEW k \in 1..(s.size - 1)
             PROVE  Ordered(s, k)
  BY DEF Heap
<1>1. CASE k = j
  <2>1. s.size \in Nat /\ k \in Nat \ {0} /\ Parent(k) \in 0..(s.size - 1) /\ k \in 0..(s.size - 1)
    BY Positions, ParentOf
  <2>2. ~Less(s, k, Parent(k))
    BY <1>1, <2>1 DEF Rises
  <2>3. ~(Time(s, k) < Time(s, Parent(k)))
    BY <2>1, <2>2, LessMeans
  <2>4. Time(s, k) \in Int /\ Time(s, Parent(k)) \in Int
    BY <2>1, TimeType DEF Near
  <2> QED BY <2>3, <2>4 DEF Ordered
<1>2. CASE k # j
  BY <1>2 DEF HeapUp
<1> QED BY <1>1, <1>2

(* No item of a heap comes before its root: otherwise one of least index   *)
(* does, and its parent does too.                                          *)
LEMMA RootFirst ==
  ASSUME NEW s, WellFormed(s), Near(s), NEW n \in 1..s.size, Heap(s, n), NEW i \in 0..(n - 1)
  PROVE  Time(s, 0) <= Time(s, i)
<1> DEFINE S == {k \in 0..(n - 1) : Time(s, k) < Time(s, 0)}
<1>1. s.size \in Nat /\ n \in Nat /\ \A k \in 0..(n - 1) : Time(s, k) \in Int
  BY Positions, TimeType DEF Near
<1>2. CASE S = {}
  BY <1>1, <1>2
<1>3. CASE S # {}
  <2>1. PICK m \in S : \A k \in S : m <= k
    <3>1. S \in SUBSET Nat
      BY <1>1
    <3> HIDE DEF S
    <3> QED BY <1>3, <3>1, Least
  <2>2. m \in 1..(n - 1)
    BY <1>1, <2>1
  <2>3. Parent(m) \in 0..(n - 1) /\ Parent(m) < m
    BY <1>1, <2>2, ParentOf
  <2>4. Time(s, Parent(m)) <= Time(s, m)
    BY <2>2 DEF Heap, Ordered
  <2>5. Parent(m) \in S
    BY <1>1, <2>1, <2>3, <2>4
  <2> QED BY <2>1, <2>3, <2>5, <1>1
<1> QED BY <1>2, <1>3

(* heap.Pop exchanges root and last item: only the new root may come after *)
(* its children.                                                           *)
LEMMA PopStart ==
  ASSUME NEW s, WellFormed(s), Near(s), s.size > 0, Heap(s, s.size)
  PROVE  Near(Swap(s, 0, s.size - 1)) /\ HeapDown(Swap(s, 0, s.size - 1), 0)
<1>1. PICK n \in Nat : n = s.size - 1 /\ s.size = n + 1 /\ s.size \in Nat /\ 0..(s.size - 1) = 0..n
  BY Positions
<1>2. PICK t : t = Swap(s, 0, n)
  OBVIOUS
<1>3. /\ t.size = s.size /\ Near(t)
      /\ \A k \in 0..n : Time(s, k) \in Int
      /\ \A k \in 0..n : Time(t, k) = IF k = n THEN Time(s, 0) ELSE IF k = 0 THEN Time(s, n) ELSE Time(s, k)
  <2>1. 0 \in 0..(s.size - 1) /\ n \in 0..(s.size - 1)
    BY <1>1
  <2>2. /\ t.size = s.size /\ Near(t)
        /\ \A k \in 0..(s.size - 1) : Time(s, k) \in Int
        /\ \A k \in 0..(s.size - 1) :
             Time(t, k) = IF k = n THEN Time(s, 0) ELSE IF k = 0 THEN Time(s, n) ELSE Time(s, k)
    BY <1>2, <2>1, SwapKeeps, SwapTimes
  <2> QED BY <1>1, <2>2
<1>4. ASSUME NEW k \in 1..(n - 1), Parent(k) # 0
      PROVE  Ordered(t, k)
  <2>1. Parent(k) \in 1..(n - 1)
    BY <1>1, <1>4, ParentOf
  <2>2. Ordered(s, k)
    BY <1>1 DEF Heap
  <2> QED BY <1>1, <1>3, <2>1, <2>2 DEF Ordered
<1>5. ASSUME NEW k \in 0..(n - 1)
      PROVE  Time(t, n) <= Time(t, k)
  <2>1. \A i \in 0..n : Time(s, 0) <= Time(s, i)
    <3>1. s.size \in 1..s.size
      BY <1>1
    <3>2. \A i \in 0..(s.size - 1) : Time(s, 0) <= Time(s, i)
      BY <3>1, RootFirst
    <3> QED BY <1>1, <3>2
  <2> QED BY <1>1, <1>3, <2>1
<1>6. t.size - 1 = n
  BY <1>1, <1>3
<1>7. HeapDown(t, 0)
  BY <1>4, <1>5, <1>6 DEF HeapDown
<1> QED BY <1>1, <1>2, <1>3, <1>7

(* The first child is a child, and no other comes before it.               *)
LEMMA ChildFirst ==
  ASSUME NEW s, WellFormed(s), Near(s), NEW i \in Nat, 2 * i + 1 < s.size - 1
  PROVE  LET c == FirstChild(s, i, s.size - 1) IN
           /\ c \in 1..(s.size - 2) /\ Parent(c) = i /\ i < c
           /\ \A k \in 1..(s.size - 2) : Parent(k) = i => Time(s, c) <= Time(s, k)
<1>1. PICK n \in Nat : n = s.size - 1 /\ s.size = n + 1 /\ s.size \in Nat /\ 0..(s.size - 1) = 0..n
  BY Positions
<1>2. PICK c : c = FirstChild(s, i, n)
  OBVIOUS
<1>3. PICK l \in Nat, r \in Nat : l = 2 * i + 1 /\ r = 2 * i + 2
  OBVIOUS
<1>4. Parent(l) = i /\ Parent(r) = i
  BY <1>3, ParentIs
<1>5. l \in 0..(s.size - 1) /\ Time(s, l) \in Int
  BY <1>1, <1>3, TimeType DEF Near
<1> DEFINE First == /\ c \in 1..(n - 1) /\ Parent(c) = i /\ i < c
                    /\ \A k \in 1..(n - 1) : Parent(k) = i => Time(s, c) <= Time(s, k)
<1>6. ASSUME r < n
      PROVE  First
  <2>1. r \in 0..(s.size - 1) /\ Time(s, r) \in Int
    BY <1>1, <1>3, <1>6, TimeType DEF Near
  <2>2. Less(s, r, l) <=> Time(s, r) < Time(s, l)
    BY <1>1, <1>5, <2>1, LessMeans, Zenon
  <2>3. c = IF Less(s, r, l) THEN r ELSE l
    BY <1>2, <1>3, <1>6 DEF FirstChild
  <2>4. Time(s, c) <= Time(s, l) /\ Time(s, c) <= Time(s, r)
    BY <1>5, <2>1, <2>2, <2>3
  <2>5. \A k \in 1..(n - 1) : Parent(k) = i => k = l \/ k = r
    <3>1. \A k \in 1..(n - 1) : k \in Nat \ {0}
      OBVIOUS
    <3> QED BY <1>3, <3>1, ParentOf
  <2>6. c \in {l, r} /\ l \in 1..(n - 1) /\ r \in 1..(n - 1) /\ i < l /\ i < r
    BY <1>1, <1>3, <1>6, <2>3
  <2> QED BY <1>4, <2>4, <2>5, <2>6
<1>7. ASSUME ~(r < n)
      PROVE  First
  <2>1. c = l
    BY <1>2, <1>3, <1>7 DEF FirstChild
  <2>2. \A k \in 1..(n - 1) : Parent(k) = i => k = l
    BY <1>1, <1>3, <1>7, ParentOf
  <2>3. l \in 1..(n - 1) /\ i < l
    BY <1>1, <1>3
  <2> QED BY <1>4, <1>5, <2>1, <2>2, <2>3
<1>8. s.size - 1 = n /\ s.size - 2 = n - 1
  BY <1>1
<1> QED BY <1>2, <1>6, <1>7, <1>8

(* One turn of the loop of heap.Pop: only the child may now come after its *)
(* own children.                                                           *)
LEMMA SinkStep ==
  ASSUME NEW s, WellFormed(s), Near(s), NEW i \in 0..(s.size - 1), HeapDown(s, i), Sinks(s, i, s.size - 1),
         NEW c, c = FirstChild(s, i, s.size - 1)
  PROVE  c \in 0..(s.size - 1) /\ Near(Swap(s, i, c)) /\ HeapDown(Swap(s, i, c), c)
<1>1. PICK n \in Nat : n = s.size - 1 /\ s.size = n + 1 /\ s.size \in Nat /\ 0..(s.size - 1) = 0..n
  BY Positions
<1>2. /\ c \in 1..(n - 1) /\ Parent(c) = i /\ i < c /\ i \in Nat
      /\ \A k \in 1..(n - 1) : Parent(k) = i => Time(s, c) <= Time(s, k)
  <2>1. i \in Nat /\ 2 * i + 1 < s.size - 1 /\ s.size - 2 = n - 1
    BY <1>1 DEF Sinks
  <2>2. /\ c \in 1..(s.size - 2) /\ Parent(c) = i /\ i < c
        /\ \A k \in 1..(s.size - 2) : Parent(k) = i => Time(s, c) <= Time(s, k)
    BY <2>1, ChildFirst
  <2> QED BY <2>1, <2>2
<1>3. Time(s, c) < Time(s, i)
  <2>1. c \in 0..(s.size - 1) /\ Less(s, c, i)
    BY <1>1, <1>2 DEF Sinks
  <2> QED BY <1>1, <2>1, LessMeans
<1>4. PICK t : t = Swap(s, i, c)
  OBVIOUS
<1>5. /\ t.size = s.size /\ Near(t)
      /\ \A k \in 0..n : Time(s, k) \in Int
      /\ \A k \in 0..n : Time(t, k) = IF k = c THEN Time(s, i) ELSE IF k = i THEN Time(s, c) ELSE Time(s, k)
  <2>1. c \in 0..(s.size - 1)
    BY <1>1, <1>2
  <2>2. /\ t.size = s.size /\ Near(t)
        /\ \A k \in 0..(s.size - 1) : Time(s, k) \in Int
        /\ \A k \in 0..(s.size - 1) :
             Time(t, k) = IF k = c THEN Time(s, i) ELSE IF k = i THEN Time(s, c) ELSE Time(s, k)
    BY <1>4, <2>1, SwapKeeps, SwapTimes
  <2> QED BY <1>1, <2>2
<1>6. ASSUME NEW k \in 1..(n - 1), Parent(k) # c
      PROVE  Ordered(t, k)
  <2>1. Parent(k) \in 0..(n - 1) /\ Parent(k) < k
    BY <1>1, ParentOf
  <2>2. Parent(k) # i => Time(s, Parent(k)) <= Time(s, k)
    BY <1>1 DEF HeapDown, Ordered
  <2>3. CASE k = i
    <3>1. Time(s, Parent(i)) <= Time(s, c)
      BY <1>1, <1>2, <2>3 DEF HeapDown
    <3> QED BY <1>1, <1>2, <1>5, <2>1, <2>3, <3>1 DEF Ordered
  <2>4. CASE k # i
    BY <1>1, <1>2, <1>3, <1>5, <1>6, <2>1, <2>2, <2>4 DEF Ordered
  <2> QED BY <2>3, <2>4
<1>7. ASSUME NEW k \in 1..(n - 1), Parent(k) = c
      PROVE  Time(t, Parent(c)) <= Time(t, k)
  <2>1. c < k
    BY <1>7, ParentOf
  <2>2. Time(s, c) <= Time(s, k)
    BY <1>1, <1>2, <1>7 DEF HeapDown, Ordered
  <2> QED BY <1>1, <1>2, <1>5, <2>1, <2>2
<1>8. ASSUME NEW k \in 0..(n - 1)
      PROVE  Time(t, n) <= Time(t, k)
  <2>1. \A x \in 0..(n - 1) : Time(s, n) <= Time(s, x)
    BY <1>1 DEF HeapDown
  <2> QED BY <1>1, <1>2, <1>5, <2>1
<1>9. t.size - 1 = n
  BY <1>1, <1>5
<1>10. HeapDown(t, c)
  BY <1>6, <1>7, <1>8, <1>9 DEF HeapDown
<1>11. c \in 0..(s.size - 1)
  BY <1>1, <1>2
<1> QED BY <1>4, <1>5, <1>10, <1>11

(* The loop of heap.Pop ends with a heap and, after it, an item that comes *)
(* first.                                                                  *)
LEMMA SinkEnd ==
  ASSUME NEW s, WellFormed(s), Near(s), NEW i \in 0..(s.size - 1), HeapDown(s, i), ~Sinks(s, i, s.size - 1)
  PROVE  /\ Heap(s, s.size - 1)
         /\ \A k \in 0..(s.size - 1) : Time(s, s.size - 1) <= Time(s, k)
<1>1. PICK n \in Nat : n = s.size - 1 /\ s.size = n + 1 /\ s.size \in Nat /\ 0..(s.size - 1) = 0..n
  BY Positions
<1>2. \A k \in 0..n : Time(s, k) \in Int
  BY <1>1, TimeType DEF Near
<1>3. ASSUME NEW k \in 1..(n - 1)
      PROVE  Ordered(s, k)
  <2>1. CASE Parent(k) = i
    <3>1. 2 * i + 1 < n
      <4>1. k \in Nat \ {0} /\ k < n
        BY <1>1
      <4> QED BY <1>1, <2>1, <4>1, ParentOf
    <3>2. PICK c : c = FirstChild(s, i, n)
      OBVIOUS
    <3>3. c \in 1..(n - 1) /\ i \in Nat /\ Time(s, c) <= Time(s, k)
      <4>1. i \in Nat /\ 2 * i + 1 < s.size - 1 /\ s.size - 2 = n - 1
        BY <1>1, <3>1
      <4>2. /\ c \in 1..(s.size - 2)
            /\ \A x \in 1..(s.size - 2) : Parent(x) = i => Time(s, c) <= Time(s, x)
        BY <1>1, <3>2, <4>1, ChildFirst
      <4> QED BY <2>1, <4>1, <4>2
    <3>4. ~Less(s, c, i)
      BY <1>1, <3>1, <3>2 DEF Sinks
    <3>5. ~(Time(s, c) < Time(s, i))
      <4>1. c \in 0..(s.size - 1)
        BY <1>1, <3>3
      <4> QED BY <1>1, <3>4, <4>1, LessMeans
    <3> QED BY <1>1, <1>2, <2>1, <3>3, <3>5 DEF Ordered
  <2>2. CASE Parent(k) # i
    BY <1>1, <2>2 DEF HeapDown
  <2> QED BY <2>1, <2>2
<1>4. \A k \in 0..(n - 1) : Time(s, n) <= Time(s, k)
  BY <1>1 DEF HeapDown
<1> QED BY <1>1, <1>2, <1>3, <1>4 DEF Heap

-----------------------------------------------------------------------------
(***************************************************************************)
(* The bag of what is queued, counted by index.                            *)
(***************************************************************************)
(* The indices that hold t.                                                *)
Holds(s, t) == {k \in 0..(s.size - 1) : At(s, k) # Nil /\ At(s, k).value = t}

(* The indices that hold a transaction are finitely many.                  *)
LEMMA HoldsFinite ==
  ASSUME NEW s, s.size \in Nat, NEW t
  PROVE  IsFiniteSet(Holds(s, t)) /\ Cardinality(Holds(s, t)) \in Nat
<1>1. IsFiniteSet(0..(s.size - 1))
  BY FS_Interval
<1>2. Holds(s, t) \subseteq 0..(s.size - 1)
  BY DEF Holds
<1> QED BY <1>1, <1>2, FS_Subset, FS_CardinalityType

LEMMA QueuedIs ==
  ASSUME NEW s, s.size \in Nat
  PROVE  /\ Queued(s) \in [TxIDs -> Nat]
         /\ \A t \in TxIDs : Queued(s)[t] = Cardinality(Holds(s, t))
<1>1. Queued(s) = [t \in TxIDs |-> Cardinality(Holds(s, t))]
  BY DEF Queued, Holds
<1>2. \A t \in TxIDs : Cardinality(Holds(s, t)) \in Nat
  BY HoldsFinite
<1> QED BY <1>1, <1>2

(* An exchange leaves the bag: the indices that hold a transaction map one *)
(* to one to those that held it.                                           *)
LEMMA SwapQueued ==
  ASSUME NEW s, WellFormed(s), NEW i \in 0..(s.size - 1), NEW j \in 0..(s.size - 1)
  PROVE  Queued(Swap(s, i, j)) = Queued(s)
<1>1. PICK u : u = Swap(s, i, j)
  OBVIOUS
<1>2. /\ s.size \in Nat /\ WellFormed(u) /\ u.size = s.size
      /\ \A k \in 0..(s.size - 1) : At(u, k) = IF k = j THEN At(s, i) ELSE IF k = i THEN At(s, j) ELSE At(s, k)
  BY <1>1, SwapKeeps, Positions
<1>3. ASSUME NEW t \in TxIDs
      PROVE  Cardinality(Holds(u, t)) = Cardinality(Holds(s, t))
  <2> DEFINE H == Holds(s, t)
             G == Holds(u, t)
  <2>1. IsFiniteSet(H) /\ Cardinality(H) \in Nat
    BY <1>2, HoldsFinite
  <2>2. ASSUME NEW k \in 0..(s.size - 1)
        PROVE  /\ k \in G <=> (IF k = j THEN i \in H ELSE IF k = i THEN j \in H ELSE k \in H)
    BY <1>2, <2>2 DEF Holds
  <2>3. H \subseteq 0..(s.size - 1) /\ G \subseteq 0..(s.size - 1)
    BY <1>2 DEF Holds
  <2> HIDE DEF H, G
  <2>4. CASE (i \in H) <=> (j \in H)
    <3>1. G = H
      BY <2>2, <2>3, <2>4
    <3> QED BY <3>1 DEF G, H
  <2>5. ASSUME NEW a, NEW b, a \in H, b \notin H, G = (H \ {a}) \cup {b}
        PROVE  Cardinality(G) = Cardinality(H)
    <3>1. IsFiniteSet(H \ {a}) /\ Cardinality(H \ {a}) = Cardinality(H) - 1
      BY <2>1, <2>5, FS_RemoveElement
    <3>2. b \notin H \ {a}
      BY <2>5
    <3>3. Cardinality((H \ {a}) \cup {b}) = Cardinality(H \ {a}) + 1
      BY <3>1, <3>2, FS_AddElement
    <3> QED BY <2>1, <2>5, <3>1, <3>3
  <2>6. CASE i \in H /\ j \notin H
    <3>1. G = (H \ {i}) \cup {j}
      BY <2>2, <2>3, <2>6
    <3> QED BY <2>5, <2>6, <3>1 DEF G, H
  <2>7. CASE j \in H /\ i \notin H
    <3>1. G = (H \ {j}) \cup {i}
      BY <2>2, <2>3, <2>7
    <3> QED BY <2>5, <2>7, <3>1 DEF G, H
  <2> QED BY <2>4, <2>6, <2>7
<1> QED BY <1>1, <1>2, <1>3, QueuedIs

(* A push adds its transaction to the bag.                                 *)
LEMMA PushQueued ==
  ASSUME NEW s, WellFormed(s), NEW item \in Slots, item # Nil
  PROVE  Queued(StackPush(s, item)) = Queue!Push(Queued(s), item.value)
<1>1. PICK u : u = StackPush(s, item)
  OBVIOUS
<1>2. /\ s.size \in Nat /\ u.size = s.size + 1 /\ At(u, s.size) = item
      /\ \A k \in 0..(s.size - 1) : At(u, k) = At(s, k)
  BY <1>1, AfterPush, Positions
<1>3. ASSUME NEW t \in TxIDs
      PROVE  Cardinality(Holds(u, t)) = Cardinality(Holds(s, t)) + (IF t = item.value THEN 1 ELSE 0)
  <2>1. IsFiniteSet(Holds(s, t)) /\ Cardinality(Holds(s, t)) \in Nat
    BY <1>2, HoldsFinite
  <2>2. s.size \notin Holds(s, t)
    BY <1>2 DEF Holds
  <2>3. CASE t = item.value
    <3>1. Holds(u, t) = Holds(s, t) \cup {s.size}
      BY <1>2, <2>3 DEF Holds
    <3> QED BY <2>1, <2>2, <2>3, <3>1, FS_AddElement
  <2>4. CASE t # item.value
    <3>1. Holds(u, t) = Holds(s, t)
      BY <1>2, <2>4 DEF Holds
    <3> QED BY <2>1, <2>4, <3>1
  <2> QED BY <2>3, <2>4
<1>4. u.size \in Nat
  BY <1>2
<1>5. /\ Queued(s) \in [TxIDs -> Nat] /\ Queued(u) \in [TxIDs -> Nat]
      /\ \A t \in TxIDs : Queued(u)[t] = Queued(s)[t] + (IF t = item.value THEN 1 ELSE 0)
  BY <1>2, <1>3, <1>4, QueuedIs
<1> QED BY <1>1, <1>5 DEF Queue!Push

(* A pop takes the transaction of the last item out of the bag.            *)
LEMMA PopQueued ==
  ASSUME NEW s, WellFormed(s), s.size > 0
  PROVE  Queued(StackPop(s).stack) = Queue!Drop(Queued(s), At(s, s.size - 1).value)
<1>1. PICK u : u = StackPop(s).stack
  OBVIOUS
<1>2. PICK n \in Nat : n = s.size - 1 /\ s.size = n + 1 /\ s.size \in Nat
  BY Positions
<1>3. u.size = n /\ At(s, n) # Nil /\ \A k \in 0..(n - 1) : At(u, k) = At(s, k)
  <2>1. s.size - 2 = n - 1 /\ n \in 0..(s.size - 1)
    BY <1>2
  <2> QED BY <1>1, <1>2, <2>1, AfterPop, Positions
<1>4. 0..(s.size - 1) = (0..(n - 1)) \cup {n} /\ 0..(u.size - 1) = 0..(n - 1) /\ n \notin 0..(n - 1)
  <2>1. 0..n = (0..(n - 1)) \cup {n} /\ n \notin 0..(n - 1)
    OBVIOUS
  <2> QED BY <1>2, <1>3, <2>1, Zenon
<1>5. ASSUME NEW t \in TxIDs
      PROVE  Cardinality(Holds(u, t)) = Cardinality(Holds(s, t)) - (IF t = At(s, n).value THEN 1 ELSE 0)
  <2>1. IsFiniteSet(Holds(s, t)) /\ Cardinality(Holds(s, t)) \in Nat
    BY <1>2, HoldsFinite
  <2>2. CASE t = At(s, n).value
    <3>1. n \in Holds(s, t)
      BY <1>3, <1>4, <2>2 DEF Holds
    <3>2. Holds(u, t) = Holds(s, t) \ {n}
      BY <1>3, <1>4, <2>2 DEF Holds
    <3> QED BY <2>1, <2>2, <3>1, <3>2, FS_RemoveElement
  <2>3. CASE t # At(s, n).value
    <3>1. Holds(u, t) = Holds(s, t)
      BY <1>3, <1>4, <2>3 DEF Holds
    <3> QED BY <2>1, <2>3, <3>1
  <2> QED BY <2>2, <2>3
<1>6. u.size \in Nat
  BY <1>3
<1>7. /\ Queued(s) \in [TxIDs -> Nat] /\ Queued(u) \in [TxIDs -> Nat]
      /\ \A t \in TxIDs : Queued(u)[t] = Queued(s)[t] - (IF t = At(s, n).value THEN 1 ELSE 0)
  BY <1>2, <1>6, <1>5, QueuedIs
<1>8. PICK v : v = At(s, n).value
  OBVIOUS
<1>9. Queued(u) = Queue!Drop(Queued(s), v)
  BY <1>7, <1>8 DEF Queue!Drop
<1> QED BY <1>1, <1>2, <1>8, <1>9

(* A transaction is in the bag when it is in the stack.                    *)
LEMMA InQueue ==
  ASSUME NEW s, s.size \in Nat, NEW t \in TxIDs
  PROVE  Queued(s)[t] > 0 <=> \E k \in 0..(s.size - 1) : At(s, k) # Nil /\ At(s, k).value = t
<1>1. IsFiniteSet(Holds(s, t)) /\ Cardinality(Holds(s, t)) \in Nat
  BY HoldsFinite
<1>2. Cardinality(Holds(s, t)) > 0 <=> Holds(s, t) # {}
  BY <1>1, FS_EmptySet
<1>3. Queued(s)[t] = Cardinality(Holds(s, t))
  BY QueuedIs
<1> QED BY <1>2, <1>3 DEF Holds

-----------------------------------------------------------------------------
(***************************************************************************)
(* Every action keeps the stack well formed, and lock, loop and batch      *)
(* consistent.                                                             *)
(***************************************************************************)

(* What is queued is an item of a slot, not nil.                           *)
LEMMA QueueableSlot ==
  ASSUME NEW x \in Queueable
  PROVE  x \in Slots /\ x # Nil /\ x.value \in TxIDs
<1>1. PICK t \in TxIDs : x = [value |-> t, priority |-> Wrapped(-Seconds[t])]
  BY DEF Queueable
<1>2. Wrapped(-Seconds[t]) \in Int
  BY IntakeAssumption, Wraps
<1> QED BY <1>1, <1>2, IntakeAssumption DEF Slots

LEMMA ItemQueueable ==
  ASSUME NEW e \in Envelopes
  PROVE  e.txid \in TxIDs /\ Item(e) \in Queueable /\ Item(e).value = e.txid
BY DEF Envelopes, Item, Queueable

(* A loop that runs stands at an item.                                     *)
LEMMA SiftAt ==
  ASSUME SiftOK
  PROVE  /\ sift.loop \in {"none", "up", "down"}
         /\ sift.loop = "none" => sift = NoSift
         /\ sift.loop # "none" => sift.at \in 0..(heap.size - 1)
BY DEF SiftOK, NoSift, Up, Down

LEMMA SiftAfter ==
  ASSUME NEW s, NEW i \in 0..(s.size - 1), heap' = s, sift' \in {Up(i), Down(i)}
  PROVE  SiftOK' /\ sift'.at = i /\ sift'.loop = IF sift' = Up(i) THEN "up" ELSE "down"
BY DEF SiftOK, Up, Down

LEMMA ChildIndex ==
  ASSUME NEW s, s.size \in Nat, NEW i \in Nat, 2 * i + 1 < s.size - 1
  PROVE  FirstChild(s, i, s.size - 1) \in 0..(s.size - 1)
BY DEF FirstChild

(* The stack of prque.New is well formed.                                  *)
LEMMA NewStack == WellFormed(New) /\ New.size = 0
<1>1. NewBlock \in [0..(BlockSize - 1) -> Slots] /\ \A o \in 0..(BlockSize - 1) : NewBlock[o] = Nil
  BY DEF NewBlock, Slots
<1>2. New \in Stacks /\ New.size = 0 /\ New.active = 1 /\ New.offset = 0 /\ New.blocks = <<NewBlock>>
  BY <1>1 DEF New, Stacks
<1>3. Capacity(New) = BlockSize
  BY <1>2, SizeAssumption DEF Capacity
<1>4. ASSUME NEW i \in 0..(BlockSize - 1)
      PROVE  At(New, i) = Nil
  <2>1. i \in Nat /\ i \in 0..(1 * BlockSize - 1)
    BY SizeAssumption
  <2>2. (i \div BlockSize) + 1 \in 1..1 /\ i % BlockSize \in 0..(BlockSize - 1)
    BY <2>1, SizeAssumption, InRange, Division
  <2>3. (i \div BlockSize) + 1 = 1
    BY <2>2
  <2>4. At(New, i) = NewBlock[i % BlockSize]
    BY <1>2, <2>3 DEF At
  <2> QED BY <1>1, <2>2, <2>4
<1>5. InPlace(New)
  BY <1>2, <1>3, <1>4, SizeAssumption DEF InPlace
<1> QED BY <1>2, <1>5 DEF WellFormed

LEMMA ShapeInit == IntakeInit => Shape
<1> SUFFICES ASSUME IntakeInit
             PROVE  Shape
  OBVIOUS
<1>1. WellFormed(heap) /\ heap.size = 0
  BY NewStack DEF IntakeInit
<1>2. SiftOK /\ sift.loop = "none"
  BY DEF IntakeInit, SiftOK, NoSift
<1>3. Contents
  BY <1>1 DEF IntakeInit, Contents
<1>4. Hands
  BY <1>2 DEF IntakeInit, Hands
<1> QED BY <1>1, <1>2, <1>3, <1>4 DEF IntakeInit, Shape

(* What an action that leaves the queue alone leaves alone.                *)
LEMMA QueueLeft ==
  ASSUME SiftOK, WellFormed(heap), UNCHANGED queueVars
  PROVE  /\ SiftOK' /\ WellFormed(heap)' /\ heap' = heap /\ sift' = sift /\ orderly' = orderly
         /\ Items(heap') = Items(heap)
BY DEF queueVars, SiftOK

LEMMA BlockType ==
  ASSUME NEW b \in Answers \cup {<<>>}
  PROVE  b \in Seq(Envelopes) /\ Len(b) \in Nat
<1>1. b \in Seq(Envelopes)
  <2>1. <<>> \in Seq(Envelopes) /\ Answers \subseteq Seq(Envelopes)
    BY IntakeAssumption
  <2> QED BY <2>1, Zenon
<1> QED BY <1>1

(* The steps of the syncer.                                                *)
LEMMA SyncShape ==
  ASSUME Shape, Receive \/ FilterTx \/ Ignore \/ Add \/ Added
  PROVE  Shape'
<1>1. /\ SiftOK' /\ WellFormed(heap)' /\ heap' = heap /\ sift' = sift /\ pending' = pending
  <2>1. UNCHANGED queueVars
    BY DEF Receive, FilterTx, Ignore, Add, Added, Ended
  <2>2. pending' = pending
    BY DEF Receive, FilterTx, Ignore, Add, Added, Ended
  <2>3. SiftOK /\ WellFormed(heap)
    BY DEF Shape
  <2> QED BY <2>1, <2>2, <2>3, QueueLeft
<1>2. block \in Seq(Envelopes) /\ Len(block) \in Nat
  BY BlockType DEF Shape
<1>3. CASE Receive
  <2>1. block' \in Answers /\ pc = "idle" /\ pc' = "scan" /\ txIndex' = 1 /\ preCrossTxs' = <<>> /\ mu' = mu
    BY <1>3 DEF Receive
  <2>2. block' \in Seq(Envelopes)
    BY <2>1, IntakeAssumption
  <2>3. txIndex' \in 1..(Len(block') + 1)
    BY <2>1, <2>2
  <2>4. Contents' /\ Hands'
    BY <1>1, <2>1 DEF Shape, Contents, Hands
  <2>5. block' \in Answers \cup {<<>>} /\ pc' \in {"idle", "scan", "add", "crashed"}
    BY <2>1
  <2>6. mu' \in {"free", "add", "drain"}
    BY <2>1 DEF Shape
  <2> QED BY <1>1, <2>3, <2>4, <2>5, <2>6 DEF Shape
<1>4. CASE FilterTx
  <2>1. CASE Ended("idle") \/ Ended("crashed")
    <3>1. /\ block' = <<>> /\ txIndex' = 1 /\ preCrossTxs' = <<>> /\ mu' = mu
          /\ pc = "scan" /\ pc' \in {"idle", "crashed"}
      BY <1>4, <2>1 DEF FilterTx, Ended
    <3>2. Contents' /\ Hands'
      BY <1>1, <3>1 DEF Shape, Contents, Hands
    <3>3. txIndex' \in 1..(Len(block') + 1) /\ block' \in Answers \cup {<<>>} /\ mu' \in {"free", "add", "drain"}
      BY <3>1 DEF Shape
    <3> QED BY <1>1, <3>1, <3>2, <3>3 DEF Shape
  <2>2. CASE UNCHANGED <<pc, block, preCrossTxs>> /\ txIndex' = txIndex + 1
    BY <1>1, <1>2, <1>4, <2>2 DEF FilterTx, Shape, Contents, Hands
  <2>3. CASE UNCHANGED <<pc, block>> /\ txIndex' = txIndex + 1 /\ preCrossTxs' = Append(preCrossTxs, block[txIndex])
    <3>1. block[txIndex] \in Envelopes
      BY <1>2, <1>4 DEF FilterTx, Shape
    <3> QED BY <1>1, <1>2, <1>4, <2>3, <3>1 DEF FilterTx, Shape, Contents, Hands
  <2>4. Outcome(block[txIndex]) \in {"skipped", "refused", "panic", "collected"}
    BY DEF Outcome
  <2> QED BY <1>4, <2>1, <2>2, <2>3, <2>4 DEF FilterTx
<1>5. CASE Ignore
  BY <1>1, <1>5 DEF Ignore, Ended, Shape, Contents, Hands
<1>6. CASE Add
  BY <1>1, <1>6 DEF Add, Shape, Contents, Hands
<1>7. CASE Added
  BY <1>1, <1>7 DEF Added, Ended, Shape, Contents, Hands, NoSift
<1> QED BY <1>3, <1>4, <1>5, <1>6, <1>7

(* The sender takes the lock and gives it back.                            *)
LEMMA SenderShape ==
  ASSUME Shape, Drain \/ Drained
  PROVE  Shape'
<1>1. /\ SiftOK' /\ WellFormed(heap)' /\ heap' = heap /\ sift' = sift
  BY QueueLeft DEF Shape, Drain, Drained
<1>2. CASE Drain
  BY <1>1, <1>2 DEF Drain, Shape, Contents, Hands
<1>3. CASE Drained
  BY <1>1, <1>3 DEF Drained, Shape, Contents, Hands, NoSift
<1> QED BY <1>2, <1>3

(* The first step of heap.Push.                                            *)
LEMMA PushShape ==
  ASSUME Shape, AddPush
  PROVE  Shape'
<1>1. /\ pc = "add" /\ preCrossTxs \in Seq(Envelopes) /\ preCrossTxs # <<>> /\ WellFormed(heap)
      /\ preCrossTxs' = Tail(preCrossTxs) /\ UNCHANGED <<pc, block, txIndex, mu, pending>> /\ Hands /\ mu = "add"
  BY DEF Shape, Contents, AddPush, Hands
<1>2. preCrossTxs' \in Seq(Envelopes) /\ Head(preCrossTxs) \in Envelopes
  BY <1>1
<1>3. CASE UNCHANGED queueVars
  <2>1. SiftOK' /\ WellFormed(heap)' /\ heap' = heap /\ sift' = sift
    BY <1>3, QueueLeft DEF Shape
  <2> QED BY <1>1, <1>2, <2>1 DEF Shape, Contents, Hands
<1>4. CASE SetHeap(StackPush(heap, Item(Head(preCrossTxs)))) /\ sift' = Up(heap.size)
  <2>1. PICK s, x : x = Item(Head(preCrossTxs)) /\ s = StackPush(heap, x)
    OBVIOUS
  <2>2. heap' = s /\ sift' = Up(heap.size)
    BY <1>4, <2>1 DEF SetHeap
  <2>3. x \in Queueable /\ x \in Slots /\ x # Nil
    BY <1>2, <2>1, ItemQueueable, QueueableSlot
  <2>4. /\ WellFormed(s) /\ s.size = heap.size + 1 /\ At(s, heap.size) = x /\ heap.size \in Nat
        /\ \A k \in 0..(heap.size - 1) : At(s, k) = At(heap, k)
    BY <1>1, <2>1, <2>3, AfterPush, Positions
  <2>5. heap.size \in 0..(s.size - 1)
    BY <2>4
  <2>6. SiftOK' /\ sift'.loop = "up"
    BY <2>2, <2>5, SiftAfter
  <2>7. \A k \in 0..(heap'.size - 1) : At(heap', k) \in Queueable
    BY <2>2, <2>3, <2>4 DEF Shape, Contents
  <2>8. Contents'
    BY <1>1, <1>2, <2>7 DEF Shape, Contents
  <2>9. Hands'
    BY <1>1, <2>6 DEF Hands
  <2> QED BY <1>1, <2>2, <2>4, <2>6, <2>8, <2>9 DEF Shape
<1> QED BY <1>3, <1>4 DEF AddPush

(* Two items change places.                                                *)
LEMMA SwapShape ==
  ASSUME Shape, NEW i \in 0..(heap.size - 1), NEW j \in 0..(heap.size - 1), NEW k \in {i, j},
         heap' = Swap(heap, i, j), sift' \in {Up(k), Down(k)},
         sift' = Up(k) => pc = "add", sift' = Down(k) => mu = "drain",
         UNCHANGED <<pc, block, txIndex, preCrossTxs, mu, pending>>
  PROVE  Shape'
<1>1. WellFormed(heap)
  BY DEF Shape
<1>2. /\ WellFormed(heap') /\ heap'.size = heap.size
      /\ \A m \in 0..(heap.size - 1) :
           At(heap', m) = IF m = j THEN At(heap, i) ELSE IF m = i THEN At(heap, j) ELSE At(heap, m)
  BY <1>1, SwapKeeps
<1>3. SiftOK' /\ sift'.loop = IF sift' = Up(k) THEN "up" ELSE "down"
  <2>1. k \in 0..(heap'.size - 1)
    BY <1>2
  <2> QED BY <2>1, SiftAfter
<1>4. Contents'
  BY <1>2 DEF Shape, Contents
<1>5. Hands'
  BY <1>3 DEF Shape, Hands
<1> QED BY <1>2, <1>3, <1>4, <1>5 DEF Shape

(* The steps of the two loops.                                             *)
LEMMA LoopShape ==
  ASSUME Shape, SiftUp \/ DrainPop \/ SiftDown
  PROVE  Shape'
<1>1. SiftOK /\ WellFormed(heap) /\ Hands /\ heap.size \in Nat
  BY Positions DEF Shape
<1>2. CASE SiftUp
  <2>1. sift.at \in 0..(heap.size - 1) /\ pc = "add"
    BY <1>1, <1>2, SiftAt DEF SiftUp, Hands
  <2>2. CASE Rises(heap, sift.at)
    <3>1. Parent(sift.at) \in 0..(heap.size - 1)
      BY <1>1, <2>1, <2>2, ParentOf DEF Rises
    <3>2. /\ heap' = Swap(heap, Parent(sift.at), sift.at) /\ sift' = Up(Parent(sift.at))
          /\ UNCHANGED <<pc, block, txIndex, preCrossTxs, mu, pending>>
      BY <1>2, <2>2 DEF SiftUp
    <3>3. sift' # Down(Parent(sift.at))
      BY <3>2 DEF Up, Down
    <3> QED BY <2>1, <3>1, <3>2, <3>3, SwapShape
  <2>3. CASE ~Rises(heap, sift.at)
    <3>1. sift' = NoSift /\ heap' = heap /\ UNCHANGED <<pc, block, txIndex, preCrossTxs, mu, pending>>
      BY <1>2, <2>3 DEF SiftUp
    <3> QED BY <1>1, <3>1 DEF Shape, Contents, Hands, SiftOK, NoSift
  <2> QED BY <2>2, <2>3
<1>3. CASE DrainPop
  <2>1. /\ heap' = Swap(heap, 0, heap.size - 1) /\ sift' = Down(0) /\ mu = "drain" /\ heap.size > 0
        /\ UNCHANGED <<pc, block, txIndex, preCrossTxs, mu, pending>>
    BY <1>3 DEF DrainPop
  <2>2. 0 \in 0..(heap.size - 1) /\ heap.size - 1 \in 0..(heap.size - 1) /\ sift' # Up(0)
    BY <1>1, <2>1 DEF Up, Down
  <2> QED BY <2>1, <2>2, SwapShape
<1>4. CASE SiftDown
  <2>1. PICK c : c = FirstChild(heap, sift.at, heap.size - 1)
    OBVIOUS
  <2>2. /\ sift.loop = "down" /\ Sinks(heap, sift.at, heap.size - 1)
        /\ heap' = Swap(heap, sift.at, c) /\ sift' = Down(c)
        /\ UNCHANGED <<pc, block, txIndex, preCrossTxs, mu, pending>>
    BY <1>4, <2>1 DEF SiftDown
  <2>3. sift.at \in 0..(heap.size - 1) /\ mu = "drain" /\ sift.at \in Nat
    BY <1>1, <2>2, SiftAt DEF Hands
  <2>4. c \in 0..(heap.size - 1) /\ sift' # Up(c)
    BY <1>1, <2>1, <2>2, <2>3, ChildIndex DEF Sinks, Up, Down
  <2> QED BY <2>2, <2>3, <2>4, SwapShape
<1> QED BY <1>2, <1>3, <1>4

(* The last step of heap.Pop, and the item it returns.                     *)
LEMMA PoppedShape ==
  ASSUME Shape, Popped
  PROVE  /\ Shape' /\ heap.size \in Nat \ {0} /\ sift.at \in 0..(heap.size - 1)
         /\ pending' = Append(pending, At(heap, heap.size - 1)) /\ heap'.size = heap.size - 1
         /\ \A k \in 0..(heap.size - 2) : At(heap', k) = At(heap, k)
<1>1. SiftOK /\ WellFormed(heap) /\ Hands /\ heap.size \in Nat
  BY Positions DEF Shape
<1>2. /\ sift.loop = "down" /\ heap' = StackPop(heap).stack /\ pending' = Append(pending, StackPop(heap).item)
      /\ sift' = NoSift /\ UNCHANGED <<pc, block, txIndex, preCrossTxs, mu>>
  BY DEF Popped, SetHeap
<1>3. sift.at \in 0..(heap.size - 1) /\ mu = "drain" /\ heap.size > 0
  BY <1>1, <1>2, SiftAt DEF Hands
<1>4. /\ WellFormed(heap') /\ heap'.size = heap.size - 1 /\ StackPop(heap).item = At(heap, heap.size - 1)
      /\ \A k \in 0..(heap.size - 2) : At(heap', k) = At(heap, k)
  BY <1>1, <1>2, <1>3, AfterPop
<1>5. SiftOK' /\ sift'.loop = "none"
  BY <1>2 DEF SiftOK, NoSift
<1>6. Contents'
  <2>1. \A k \in 0..(heap.size - 1) : At(heap, k) \in Queueable
    BY DEF Shape, Contents
  <2>2. At(heap, heap.size - 1) \in Queueable
    BY <1>1, <1>3, <2>1
  <2>3. pending' \in Seq(Queueable)
    BY <1>2, <1>4, <2>2 DEF Shape, Contents
  <2>4. \A k \in 0..(heap'.size - 1) : At(heap', k) \in Queueable
    BY <1>1, <1>4, <2>1
  <2> QED BY <1>2, <2>3, <2>4 DEF Shape, Contents
<1>7. Hands'
  BY <1>1, <1>2, <1>3, <1>5 DEF Hands
<1> QED BY <1>1, <1>2, <1>3, <1>4, <1>5, <1>6, <1>7 DEF Shape

(* Every step of the specification.                                        *)
LEMMA ShapeStep == Shape /\ [IntakeNext]_intakeVars => Shape'
<1> SUFFICES ASSUME Shape, [IntakeNext]_intakeVars
             PROVE  Shape'
  OBVIOUS
<1>1. CASE UNCHANGED intakeVars
  BY <1>1 DEF intakeVars, Shape, SiftOK, Contents, Hands
<1> QED BY <1>1, SyncShape, SenderShape, PushShape, LoopShape, PoppedShape DEF IntakeNext

-----------------------------------------------------------------------------
(***************************************************************************)
(* What the flag of the abstract queue says of the times in the stack.     *)
(***************************************************************************)

(* A bag whose keys are close holds items whose times are.                 *)
LEMMA NearWhenClose ==
  ASSUME NEW s, s.size \in Nat, \A k \in 0..(s.size - 1) : At(s, k) \in Queueable, Queue!Close(Queued(s))
  PROVE  Near(s)
<1>1. ASSUME NEW k \in 0..(s.size - 1)
      PROVE  At(s, k).value \in Queue!Elements(Queued(s))
  <2>1. At(s, k) # Nil /\ At(s, k).value \in TxIDs
    BY QueueableSlot
  <2>2. Queued(s)[At(s, k).value] > 0
    BY <2>1, InQueue
  <2>3. DOMAIN Queued(s) = TxIDs
    BY QueuedIs
  <2> QED BY <2>1, <2>2, <2>3 DEF Queue!Elements
<1>2. \A x, y \in Queue!Elements(Queued(s)) : Seconds[x] - Seconds[y] < Half
  BY DEF Queue!Close, Half
<1> QED BY <1>1, <1>2 DEF Near, Time

(* The bag is empty when the stack is.                                     *)
LEMMA EmptyWhen ==
  ASSUME NEW s, s.size \in Nat, \A k \in 0..(s.size - 1) : At(s, k) \in Queueable
  PROVE  /\ Queue!IsEmpty(Queued(s)) => s.size = 0 /\ Queue!Close(Queued(s))
         /\ s.size = 0 => Queue!IsEmpty(Queued(s))
<1>1. DOMAIN Queued(s) = TxIDs /\ \A t \in TxIDs : Queued(s)[t] \in Nat
  BY QueuedIs
<1>2. ASSUME Queue!IsEmpty(Queued(s))
      PROVE  s.size = 0 /\ Queue!Close(Queued(s))
  <2>1. \A t \in TxIDs : ~(Queued(s)[t] > 0)
    BY <1>1, <1>2 DEF Queue!IsEmpty
  <2>2. Queue!Elements(Queued(s)) = {}
    BY <1>1, <2>1 DEF Queue!Elements
  <2>3. ASSUME s.size # 0
        PROVE  FALSE
    <3>1. 0 \in 0..(s.size - 1)
      BY <2>3
    <3>2. At(s, 0) # Nil /\ At(s, 0).value \in TxIDs
      BY <3>1, QueueableSlot
    <3> QED BY <2>1, <3>1, <3>2, InQueue
  <2> QED BY <2>2, <2>3 DEF Queue!Close
<1>3. ASSUME s.size = 0
      PROVE  Queue!IsEmpty(Queued(s))
  <2>1. \A t \in TxIDs : ~(Queued(s)[t] > 0)
    BY <1>3, InQueue
  <2>2. \A t \in TxIDs : Queued(s)[t] = 0
    BY <1>1, <2>1
  <2> QED BY <1>1, <2>2 DEF Queue!IsEmpty
<1> QED BY <1>2, <1>3

LEMMA Facts ==
  ASSUME Shape
  PROVE  /\ WellFormed(heap) /\ heap.size \in Nat /\ SiftOK
         /\ \A k \in 0..(heap.size - 1) : At(heap, k) \in Queueable
         /\ pending \in Seq(Queueable) /\ preCrossTxs \in Seq(Envelopes)
BY Positions DEF Shape, Contents

LEMMA NearNow ==
  ASSUME Shape, HeapInOrder, orderly
  PROVE  Near(heap)
BY Facts, NearWhenClose DEF HeapInOrder

(***************************************************************************)
(* The steps of the queue keep it in heap order.                           *)
(***************************************************************************)
LEMMA PushOrder ==
  ASSUME Shape, HeapInOrder, AddPush, ~(UNCHANGED queueVars)
  PROVE  HeapInOrder'
<1>1. PICK x : x = Item(Head(preCrossTxs))
  OBVIOUS
<1>2. PICK s : s = StackPush(heap, x)
  OBVIOUS
<1>3. /\ heap' = s /\ sift' = Up(heap.size) /\ sift = NoSift /\ preCrossTxs # <<>>
      /\ orderly' = Queue!Orderly(orderly, Queued(s))
  BY <1>1, <1>2 DEF AddPush, SetHeap
<1>4. x \in Queueable /\ x \in Slots /\ x # Nil
  <2>1. Head(preCrossTxs) \in Envelopes
    BY <1>3, Facts
  <2> QED BY <1>1, <2>1, ItemQueueable, QueueableSlot
<1>5. /\ heap.size \in Nat /\ s.size = heap.size + 1 /\ At(s, heap.size) = x
      /\ \A k \in 0..(heap.size - 1) : At(s, k) = At(heap, k)
  BY <1>2, <1>4, Facts, AfterPush
<1>6. SUFFICES ASSUME orderly'
               PROVE  Queue!Close(Queued(s)) /\ HeapUp(s, heap.size)
  BY <1>3 DEF HeapInOrder, Up
<1>7. \A k \in 0..(s.size - 1) : At(s, k) \in Queueable
  BY <1>4, <1>5, Facts
<1>8. ~Queue!IsEmpty(Queued(s))
  BY <1>5, <1>7, EmptyWhen
<1>9. orderly /\ Queue!Close(Queued(s))
  BY <1>3, <1>6, <1>8, Zenon DEF Queue!Orderly
<1>10. Heap(heap, heap.size)
  BY <1>3, <1>9 DEF HeapInOrder, NoSift
<1>11. ASSUME NEW k \in 1..(s.size - 1), k # heap.size
       PROVE  Ordered(s, k)
  <2>1. k \in 1..(heap.size - 1) /\ Parent(k) \in 0..(heap.size - 1) /\ k \in 0..(heap.size - 1)
    BY <1>5, <1>11, ParentOf
  <2>2. Ordered(heap, k)
    BY <1>10, <2>1 DEF Heap
  <2> QED BY <1>5, <2>1, <2>2 DEF Ordered, Time
<1>12. ASSUME NEW k \in 1..(s.size - 1)
       PROVE  Parent(k) # heap.size
  <2>1. k \in Nat \ {0} /\ k <= heap.size
    BY <1>5
  <2>2. Parent(k) \in Nat /\ Parent(k) < k
    BY <2>1, ParentOf
  <2> QED BY <1>5, <2>1, <2>2
<1> QED BY <1>9, <1>11, <1>12 DEF HeapUp

(* The steps of the two loops keep the order each loop stands for.         *)
LEMMA LoopOrder ==
  ASSUME Shape, HeapInOrder, SiftUp \/ DrainPop \/ SiftDown
  PROVE  HeapInOrder'
<1>1. orderly' = orderly
  BY DEF SiftUp, DrainPop, SiftDown
<1> SUFFICES ASSUME orderly
             PROVE  HeapInOrder'
  BY <1>1 DEF HeapInOrder
<1>2. /\ WellFormed(heap) /\ heap.size \in Nat /\ SiftOK /\ Near(heap) /\ Queue!Close(Queued(heap))
  BY Facts, NearNow DEF HeapInOrder
<1>3. CASE SiftUp
  <2>1. sift.loop = "up" /\ sift.at \in 0..(heap.size - 1) /\ HeapUp(heap, sift.at)
    BY <1>2, <1>3, SiftAt DEF SiftUp, HeapInOrder
  <2>2. CASE Rises(heap, sift.at)
    <3>1. PICK p : p = Parent(sift.at)
      OBVIOUS
    <3>2. heap' = Swap(heap, p, sift.at) /\ sift' = Up(p)
      BY <1>3, <2>2, <3>1 DEF SiftUp
    <3>3. p \in 0..(heap.size - 1) /\ HeapUp(heap', p)
      BY <1>2, <2>1, <2>2, <3>1, <3>2, RiseStep
    <3>4. Queued(heap') = Queued(heap)
      BY <1>2, <2>1, <3>2, <3>3, SwapQueued
    <3> QED BY <1>2, <3>2, <3>3, <3>4 DEF HeapInOrder, Up
  <2>3. CASE ~Rises(heap, sift.at)
    <3>1. heap' = heap /\ sift' = NoSift
      BY <1>3, <2>3 DEF SiftUp
    <3>2. Heap(heap, heap.size)
      BY <1>2, <2>1, <2>3, RiseEnd
    <3> QED BY <1>2, <3>1, <3>2 DEF HeapInOrder, NoSift
  <2> QED BY <2>2, <2>3
<1>4. CASE DrainPop
  <2>1. sift = NoSift /\ heap.size > 0 /\ heap' = Swap(heap, 0, heap.size - 1) /\ sift' = Down(0)
    BY <1>4 DEF DrainPop
  <2>2. Heap(heap, heap.size)
    BY <2>1 DEF HeapInOrder, NoSift
  <2>3. HeapDown(heap', 0)
    BY <1>2, <2>1, <2>2, PopStart
  <2>4. Queued(heap') = Queued(heap)
    <3>1. 0 \in 0..(heap.size - 1) /\ heap.size - 1 \in 0..(heap.size - 1)
      BY <1>2, <2>1
    <3> QED BY <1>2, <2>1, <3>1, SwapQueued
  <2> QED BY <1>2, <2>1, <2>3, <2>4 DEF HeapInOrder, Down
<1>5. CASE SiftDown
  <2>1. PICK c : c = FirstChild(heap, sift.at, heap.size - 1)
    OBVIOUS
  <2>2. sift.loop = "down" /\ sift.at \in 0..(heap.size - 1) /\ HeapDown(heap, sift.at)
    BY <1>2, <1>5, SiftAt DEF SiftDown, HeapInOrder
  <2>3. Sinks(heap, sift.at, heap.size - 1) /\ heap' = Swap(heap, sift.at, c) /\ sift' = Down(c)
    BY <1>5, <2>1 DEF SiftDown
  <2>4. c \in 0..(heap.size - 1) /\ HeapDown(heap', c)
    BY <1>2, <2>1, <2>2, <2>3, SinkStep
  <2>5. Queued(heap') = Queued(heap)
    BY <1>2, <2>2, <2>3, <2>4, SwapQueued
  <2> QED BY <1>2, <2>3, <2>4, <2>5 DEF HeapInOrder, Down
<1> QED BY <1>3, <1>4, <1>5

(* heap.Pop leaves a heap.                                                 *)
LEMMA PoppedOrder ==
  ASSUME Shape, HeapInOrder, Popped
  PROVE  HeapInOrder'
<1>1. PICK s : s = heap'
  OBVIOUS
<1>2. /\ orderly' = Queue!Orderly(orderly, Queued(s)) /\ sift' = NoSift
      /\ sift.loop = "down" /\ ~Sinks(heap, sift.at, heap.size - 1)
  BY <1>1 DEF Popped, SetHeap
<1>3. /\ Shape' /\ heap.size \in Nat \ {0} /\ sift.at \in 0..(heap.size - 1) /\ s.size = heap.size - 1
      /\ \A k \in 0..(heap.size - 2) : At(s, k) = At(heap, k)
  BY <1>1, PoppedShape
<1>4. WellFormed(heap) /\ \A k \in 0..(heap.size - 1) : At(heap, k) \in Queueable
  BY Facts
<1>5. SUFFICES ASSUME orderly'
               PROVE  Queue!Close(Queued(s)) /\ Heap(s, s.size)
  BY <1>1, <1>2 DEF HeapInOrder, NoSift
<1>6. CASE Queue!IsEmpty(Queued(s))
  <2>1. s.size \in Nat /\ \A k \in 0..(s.size - 1) : At(s, k) \in Queueable
    BY <1>3, <1>4
  <2>2. s.size = 0 /\ Queue!Close(Queued(s))
    BY <1>6, <2>1, EmptyWhen
  <2> QED BY <2>2 DEF Heap
<1>7. CASE ~Queue!IsEmpty(Queued(s))
  <2>1. orderly /\ Queue!Close(Queued(s))
    BY <1>2, <1>5, <1>7, Zenon DEF Queue!Orderly
  <2>2. Near(heap) /\ HeapDown(heap, sift.at)
    BY <1>2, <2>1, NearNow DEF HeapInOrder
  <2>3. Heap(heap, heap.size - 1)
    BY <1>2, <1>3, <1>4, <2>2, SinkEnd
  <2>4. ASSUME NEW k \in 1..(s.size - 1)
        PROVE  Ordered(s, k)
    <3>1. k \in 1..((heap.size - 1) - 1) /\ k \in 0..(heap.size - 2) /\ Parent(k) \in 0..(heap.size - 2)
      BY <1>3, ParentOf
    <3>2. Ordered(heap, k)
      BY <2>3, <3>1 DEF Heap
    <3> QED BY <1>3, <3>1, <3>2 DEF Ordered, Time
  <2> QED BY <2>1, <2>4 DEF Heap
<1> QED BY <1>6, <1>7

LEMMA OrderStep ==
  ASSUME Shape, HeapInOrder, [IntakeNext]_intakeVars
  PROVE  HeapInOrder'
<1>1. CASE UNCHANGED queueVars
  BY <1>1 DEF queueVars, HeapInOrder
<1>2. CASE ~UNCHANGED queueVars
  <2>1. AddPush \/ SiftUp \/ DrainPop \/ SiftDown \/ Popped
    BY <1>2 DEF IntakeNext, Receive, FilterTx, Ignore, Add, Added, Drain, Drained, intakeVars, queueVars
  <2> QED BY <1>2, <2>1, PushOrder, LoopOrder, PoppedOrder
<1> QED BY <1>1, <1>2

LEMMA OrderInit == IntakeInit => HeapInOrder
<1> SUFFICES ASSUME IntakeInit
             PROVE  HeapInOrder
  OBVIOUS
<1>1. heap = New /\ heap.size = 0 /\ sift.loop = "none"
  BY NewStack DEF IntakeInit, NoSift
<1>2. Queue!Close(Queued(heap))
  BY <1>1, EmptyWhen
<1> QED BY <1>1, <1>2 DEF HeapInOrder, Heap

-----------------------------------------------------------------------------
(***************************************************************************)
(* The batch of the sender.                                                *)
(***************************************************************************)

(* The items of a stack, by index.                                         *)
LEMMA ItemsAre ==
  ASSUME NEW s, WellFormed(s)
  PROVE  Items(s) = {At(s, k) : k \in 0..(s.size - 1)}
BY Positions DEF Items

LEMMA SwapItems ==
  ASSUME NEW s, WellFormed(s), NEW i \in 0..(s.size - 1), NEW j \in 0..(s.size - 1)
  PROVE  Items(Swap(s, i, j)) \subseteq Items(s)
<1>1. PICK t : t = Swap(s, i, j)
  OBVIOUS
<1>2. /\ WellFormed(t) /\ t.size = s.size
      /\ \A k \in 0..(s.size - 1) : At(t, k) = IF k = j THEN At(s, i) ELSE IF k = i THEN At(s, j) ELSE At(s, k)
  BY <1>1, SwapKeeps
<1>3. Items(s) = {At(s, k) : k \in 0..(s.size - 1)} /\ Items(t) = {At(t, k) : k \in 0..(s.size - 1)}
  BY <1>2, ItemsAre
<1> QED BY <1>1, <1>2, <1>3

(* What Popped takes is no later than what stays, and nothing is pushed    *)
(* while the sender drains.                                                *)
LEMMA BatchStep ==
  ASSUME Shape, HeapInOrder, BatchInOrder, [IntakeNext]_intakeVars
  PROVE  BatchInOrder'
<1>1. CASE UNCHANGED <<mu, pending, queueVars>>
  BY <1>1 DEF BatchInOrder, queueVars
<1>2. CASE Add \/ Added \/ Drained
  <2>1. mu' # "drain"
    BY <1>2 DEF Add, Added, Drained
  <2> QED BY <2>1 DEF BatchInOrder
<1>3. CASE Drain
  <2>1. pending' = <<>>
    BY <1>3 DEF Drain, Shape, Hands
  <2> QED BY <2>1 DEF BatchInOrder
<1>4. CASE AddPush \/ SiftUp
  <2>1. mu' # "drain"
    BY <1>4 DEF AddPush, SiftUp, Shape, Hands
  <2> QED BY <2>1 DEF BatchInOrder
<1>5. CASE DrainPop \/ SiftDown
  <2>1. PICK i \in 0..(heap.size - 1), j \in 0..(heap.size - 1) : heap' = Swap(heap, i, j)
    <3>1. CASE DrainPop
      <4>1. heap' = Swap(heap, 0, heap.size - 1) /\ heap.size > 0
        BY <3>1 DEF DrainPop
      <4>2. 0 \in 0..(heap.size - 1) /\ heap.size - 1 \in 0..(heap.size - 1)
        BY <4>1, Facts
      <4> QED BY <4>1, <4>2
    <3>2. CASE SiftDown
      <4>1. PICK c : c = FirstChild(heap, sift.at, heap.size - 1)
        OBVIOUS
      <4>2. /\ sift.loop = "down" /\ Sinks(heap, sift.at, heap.size - 1) /\ heap' = Swap(heap, sift.at, c)
        BY <3>2, <4>1 DEF SiftDown
      <4>3. sift.at \in 0..(heap.size - 1) /\ heap.size \in Nat /\ sift.at \in Nat
        BY <4>2, Facts, SiftAt
      <4>4. c \in 0..(heap.size - 1)
        BY <4>1, <4>2, <4>3, ChildIndex DEF Sinks
      <4> QED BY <4>2, <4>3, <4>4
    <3> QED BY <1>5, <3>1, <3>2
  <2>2. mu' = mu /\ pending' = pending /\ orderly' = orderly
    BY <1>5 DEF DrainPop, SiftDown
  <2>3. heap'.size = heap.size /\ Items(heap') \subseteq Items(heap)
    BY <2>1, Facts, SwapKeeps, SwapItems
  <2> QED BY <2>2, <2>3 DEF BatchInOrder
<1>6. CASE Popped
  <2>1. SUFFICES ASSUME heap'.size > 0, orderly'
                 PROVE  \A i \in DOMAIN pending' :
                          /\ \A j \in 1..(i - 1) : Seconds[pending'[j].value] <= Seconds[pending'[i].value]
                          /\ \A item \in Items(heap') : Seconds[pending'[i].value] <= Seconds[item.value]
    BY DEF BatchInOrder
  <2>2. PICK n \in Nat : n = heap.size - 1
    BY <1>6, PoppedShape
  <2>3. PICK x : x = At(heap, n)
    OBVIOUS
  <2>4. /\ Shape' /\ heap.size \in Nat \ {0} /\ heap.size = n + 1 /\ sift.at \in 0..(heap.size - 1)
        /\ pending' = Append(pending, x) /\ heap'.size = n
        /\ \A k \in 0..(n - 1) : At(heap', k) = At(heap, k)
    <3>1. heap.size - 2 = n - 1
      BY <1>6, <2>2, PoppedShape
    <3> QED BY <1>6, <2>2, <2>3, <3>1, PoppedShape
  <2>5. /\ WellFormed(heap) /\ WellFormed(heap') /\ pending \in Seq(Queueable)
        /\ \A k \in 0..(heap'.size - 1) : At(heap', k) \in Queueable
    BY <2>4, Facts DEF Shape, Contents
  <2>6. orderly
    <3>1. orderly' = Queue!Orderly(orderly, Queued(heap'))
      BY <1>6 DEF Popped, SetHeap
    <3>2. ~Queue!IsEmpty(Queued(heap'))
      BY <2>1, <2>4, <2>5, EmptyWhen
    <3> QED BY <2>1, <3>1, <3>2, Zenon DEF Queue!Orderly
  <2>7. /\ mu = "drain" /\ sift.loop = "down" /\ ~Sinks(heap, sift.at, heap.size - 1)
    BY <1>6 DEF Popped, Shape, Hands
  <2>8. \A k \in 0..n : Time(heap, n) <= Time(heap, k)
    <3>1. Near(heap) /\ HeapDown(heap, sift.at)
      BY <2>6, <2>7, NearNow DEF HeapInOrder
    <3>2. \A k \in 0..(heap.size - 1) : Time(heap, heap.size - 1) <= Time(heap, k)
      BY <2>4, <2>5, <2>7, <3>1, SinkEnd
    <3> QED BY <2>2, <3>2
  <2>9. Items(heap) = {At(heap, k) : k \in 0..n} /\ Items(heap') = {At(heap, k) : k \in 0..(n - 1)}
    <3>1. /\ Items(heap) = {At(heap, k) : k \in 0..(heap.size - 1)}
          /\ Items(heap') = {At(heap', k) : k \in 0..(heap'.size - 1)}
      BY <2>5, ItemsAre
    <3>2. 0..(heap.size - 1) = 0..n /\ 0..(heap'.size - 1) = 0..(n - 1)
      BY <2>2, <2>4
    <3>3. {At(heap', k) : k \in 0..(n - 1)} = {At(heap, k) : k \in 0..(n - 1)}
      BY <2>4
    <3> QED BY <3>1, <3>2, <3>3, Zenon
  <2>10. x \in Items(heap) /\ Items(heap') \subseteq Items(heap)
    BY <2>3, <2>9
  <2>11. \A item \in Items(heap') : Seconds[x.value] <= Seconds[item.value]
    BY <2>3, <2>8, <2>9 DEF Time
  <2>12. \A i \in DOMAIN pending :
           /\ \A j \in 1..(i - 1) : Seconds[pending[j].value] <= Seconds[pending[i].value]
           /\ \A item \in Items(heap) : Seconds[pending[i].value] <= Seconds[item.value]
    BY <2>4, <2>6, <2>7 DEF BatchInOrder
  <2>13. TAKE i \in DOMAIN pending'
  <2>14. PICK l \in Nat : l = Len(pending) /\ DOMAIN pending = 1..l /\ DOMAIN pending' = 1..(l + 1)
    BY <2>4, <2>5
  <2>15. pending'[l + 1] = x /\ \A j \in 1..l : pending'[j] = pending[j]
    BY <2>4, <2>5, <2>14
  <2>16. CASE i = l + 1
    <3>1. \A j \in 1..l : Seconds[pending[j].value] <= Seconds[x.value]
      BY <2>10, <2>12, <2>14
    <3>2. 1..(i - 1) = 1..l
      BY <2>16
    <3> QED BY <2>11, <2>15, <2>16, <3>1, <3>2
  <2>17. CASE i # l + 1
    <3>1. i \in 1..l
      BY <2>14, <2>17
    <3>2. \A j \in 1..(i - 1) : j \in 1..l
      BY <3>1
    <3> QED BY <2>10, <2>12, <2>14, <2>15, <3>1, <3>2
  <2> QED BY <2>16, <2>17
<1>7. \/ UNCHANGED <<mu, pending, queueVars>> \/ Add \/ Added \/ Drained \/ Drain \/ AddPush \/ SiftUp
      \/ DrainPop \/ SiftDown \/ Popped
  BY DEF IntakeNext, Receive, FilterTx, Ignore, intakeVars, queueVars
<1> QED BY <1>1, <1>2, <1>3, <1>4, <1>5, <1>6, <1>7

(***************************************************************************)
(* What is collected                                                       *)
(***************************************************************************)
LEMMA FirstEvent ==
  ASSUME NEW S \in SUBSET Nat, S # {}
  PROVE  Min(S) \in S /\ \A x \in S : Min(S) <= x
BY Least DEF Min

(* The envelopes collected are those that are wanted: the order in which   *)
(* the code asks agrees with what a transaction is.                        *)
LEMMA CollectedIsWanted ==
  ASSUME NEW e \in Envelopes
  PROVE  Outcome(e) = "collected" <=> Wanted(e)
<1>1. /\ e.actions \in Seq(STRING) /\ e.header \in {"endorser", "config", "bad"} /\ e.unpacks \in BOOLEAN
  BY DEF Envelopes
<1>2. "bad" \in ToSet(e.actions) <=> \E i \in DOMAIN e.actions : e.actions[i] = "bad"
  BY DEF ToSet
<1>3. Events(e) \in SUBSET Nat
  BY <1>1 DEF Events
<1> DEFINE First == \E i \in DOMAIN e.actions :
                      e.actions[i] \in FilterEvents /\ \A j \in 1..(i - 1) : e.actions[j] = "none"
<1>4. TxEvent(e) \in FilterEvents <=> "bad" \notin ToSet(e.actions) /\ First
  <2>1. CASE "bad" \in ToSet(e.actions)
    BY <1>2, <2>1 DEF TxEvent, FilterEvents
  <2>2. CASE "bad" \notin ToSet(e.actions) /\ Events(e) = {}
    <3>1. TxEvent(e) = "no event"
      BY <1>2, <2>2 DEF TxEvent
    <3>2. ~First
      BY <2>2 DEF Events, FilterEvents
    <3> QED BY <3>1, <3>2 DEF FilterEvents
  <2>3. CASE "bad" \notin ToSet(e.actions) /\ Events(e) # {}
    <3>1. PICK m : m = Min(Events(e))
      OBVIOUS
    <3>2. m \in Events(e) /\ \A x \in Events(e) : m <= x
      BY <1>3, <2>3, <3>1, FirstEvent
    <3>3. TxEvent(e) = e.actions[m]
      BY <1>2, <2>3, <3>1 DEF TxEvent
    <3>4. m \in DOMAIN e.actions /\ e.actions[m] # "none" /\ DOMAIN e.actions = 1..Len(e.actions) /\ Len(e.actions) \in Nat
      BY <1>1, <3>2 DEF Events
    <3>5. \A j \in 1..(m - 1) : e.actions[j] = "none"
      <4> SUFFICES ASSUME NEW j \in 1..(m - 1), e.actions[j] # "none"
                   PROVE  FALSE
        OBVIOUS
      <4>1. j \in Events(e) /\ j < m /\ m \in Int
        BY <3>4 DEF Events
      <4> QED BY <3>2, <4>1
    <3>6. ASSUME First
          PROVE  e.actions[m] \in FilterEvents
      <4>1. PICK i \in DOMAIN e.actions :
              e.actions[i] \in FilterEvents /\ \A j \in 1..(i - 1) : e.actions[j] = "none"
        BY <3>6
      <4>2. i \in Events(e)
        BY <4>1 DEF Events, FilterEvents
      <4>3. m <= i /\ ~(m \in 1..(i - 1))
        BY <3>2, <3>4, <4>1, <4>2
      <4>4. m = i
        BY <3>4, <4>3
      <4> QED BY <4>1, <4>4
    <3> QED BY <2>3, <3>3, <3>4, <3>5, <3>6
  <2> QED BY <2>1, <2>2, <2>3
<1>5. Wanted(e) <=> e.flag = "VALID" /\ e.unpacks /\ e.header = "endorser" /\ TxEvent(e) \in FilterEvents
  BY <1>4 DEF Wanted
<1> HIDE DEF First
<1>6. Outcome(e) = "collected" <=> /\ e.flag = "VALID" /\ e.unpacks /\ e.header # "config"
                                   /\ TxEvent(e) \in FilterEvents /\ e.header # "bad"
  BY DEF Outcome
<1> QED BY <1>1, <1>5, <1>6

(* An envelope that is not wanted leaves the placement.                    *)
LEMMA PlaceSame ==
  ASSUME NEW place, NEW c, NEW n \in Nat, Placement(place, c, n), ~Wanted(block[n + 1])
  PROVE  Placement(place, c, n + 1)
BY DEF Placement

(* One that is wanted extends it by its own place.                         *)
LEMMA PlaceMore ==
  ASSUME NEW place, NEW c \in Seq(Envelopes), NEW n \in Nat, Placement(place, c, n),
         Wanted(block[n + 1]), block[n + 1] \in Envelopes
  PROVE  \E p : Placement(p, Append(c, block[n + 1]), n + 1)
<1> DEFINE l == Len(c)
           d == Append(c, block[n + 1])
           p == [i \in 1..(l + 1) |-> IF i = l + 1 THEN n + 1 ELSE place[i]]
<1>1. /\ l \in Nat /\ DOMAIN c = 1..l /\ DOMAIN d = 1..(l + 1) /\ d[l + 1] = block[n + 1]
      /\ \A i \in 1..l : d[i] = c[i]
  OBVIOUS
<1>2. place \in [1..l -> 1..n]
  BY <1>1 DEF Placement
<1>3. p[l + 1] = n + 1 /\ \A i \in 1..l : p[i] = place[i] /\ place[i] \in 1..n
  <2>1. \A i \in 1..(l + 1) : p[i] = IF i = l + 1 THEN n + 1 ELSE place[i]
    OBVIOUS
  <2>2. l + 1 \in 1..(l + 1) /\ \A i \in 1..l : i \in 1..(l + 1) /\ i # l + 1
    BY <1>1
  <2> HIDE DEF p
  <2> QED BY <1>2, <2>1, <2>2
<1>4. p \in [1..(l + 1) -> 1..(n + 1)]
  <2>1. \A i \in 1..(l + 1) : p[i] \in 1..(n + 1)
    <3> SUFFICES ASSUME NEW i \in 1..(l + 1) PROVE p[i] \in 1..(n + 1)
      OBVIOUS
    <3> HIDE DEF p
    <3>1. i = l + 1 \/ i \in 1..l
      BY <1>1
    <3>2. n + 1 \in 1..(n + 1) /\ 1..n \subseteq 1..(n + 1)
      OBVIOUS
    <3> QED BY <1>3, <3>1, <3>2
  <2>2. p = [i \in 1..(l + 1) |-> p[i]]
    OBVIOUS
  <2> HIDE DEF p
  <2> QED BY <2>1, <2>2
<1> HIDE DEF p, d, l
<1>5. \A i, j \in 1..(l + 1) : i < j => p[i] < p[j]
  <2> SUFFICES ASSUME NEW i \in 1..(l + 1), NEW j \in 1..(l + 1), i < j
               PROVE  p[i] < p[j]
    OBVIOUS
  <2>1. i \in 1..l
    BY <1>1
  <2>2. CASE j = l + 1
    <3>1. PICK x \in 1..n : x = p[i]
      BY <1>3, <2>1
    <3>2. p[j] = n + 1
      BY <1>3, <2>2
    <3>3. x < n + 1
      OBVIOUS
    <3> QED BY <3>1, <3>2, <3>3
  <2>3. CASE j # l + 1
    <3>1. j \in 1..l
      BY <1>1, <2>3
    <3>2. place[i] < place[j]
      BY <1>1, <2>1, <3>1 DEF Placement
    <3> QED BY <1>3, <2>1, <3>1, <3>2
  <2> QED BY <2>2, <2>3
<1>6. ASSUME NEW i \in 1..(l + 1)
      PROVE  d[i] = block[p[i]]
  <2>1. CASE i = l + 1
    BY <1>1, <1>3, <2>1
  <2>2. CASE i # l + 1
    <3>1. i \in 1..l
      BY <1>1, <2>2
    <3>2. c[i] = block[place[i]]
      BY <1>1, <3>1 DEF Placement
    <3> QED BY <1>1, <1>3, <3>1, <3>2
  <2> QED BY <2>1, <2>2
<1>7. ASSUME NEW k \in 1..(n + 1)
      PROVE  Wanted(block[k]) <=> \E i \in 1..(l + 1) : p[i] = k
  <2>1. CASE k = n + 1
    BY <1>1, <1>3, <2>1
  <2>2. CASE k # n + 1
    <3>1. k \in 1..n
      BY <2>2
    <3>2. Wanted(block[k]) <=> \E i \in 1..l : place[i] = k
      BY <1>1, <3>1 DEF Placement
    <3>3. (\E i \in 1..l : place[i] = k) <=> \E i \in 1..(l + 1) : p[i] = k
      BY <1>1, <1>3, <2>2
    <3> QED BY <3>2, <3>3
  <2> QED BY <2>1, <2>2
<1>8. Placement(p, d, n + 1)
  BY <1>1, <1>4, <1>5, <1>6, <1>7 DEF Placement
<1> QED BY <1>8 DEF d

(* The scan of a block keeps a placement of what it has collected.         *)
LEMMA CollectedStep ==
  ASSUME Shape, Collected, [IntakeNext]_intakeVars
  PROVE  Collected'
<1>1. CASE UNCHANGED <<pc, block, txIndex, preCrossTxs>>
  BY <1>1 DEF Collected, Placement
<1>2. CASE pc' # "scan"
  BY <1>2 DEF Collected
<1>3. CASE Receive
  <2>1. txIndex' = 1 /\ preCrossTxs' = <<>>
    BY <1>3 DEF Receive
  <2>2. \E place : Placement(place, preCrossTxs, 0)'
    <3>1. Placement(<<>>, preCrossTxs, 0)'
      BY <2>1 DEF Placement
    <3> QED BY <3>1
  <2>3. txIndex' - 1 = 0
    BY <2>1
  <2> QED BY <2>2, <2>3 DEF Collected
<1>4. CASE FilterTx /\ pc' = "scan"
  <2>1. PICK n \in Nat : n = txIndex - 1 /\ txIndex = n + 1
    BY DEF Shape
  <2>2. block[n + 1] \in Envelopes /\ pc = "scan" /\ block' = block /\ txIndex' = n + 2
        /\ \/ Outcome(block[n + 1]) = "skipped" /\ preCrossTxs' = preCrossTxs
           \/ Outcome(block[n + 1]) = "collected" /\ preCrossTxs' = Append(preCrossTxs, block[n + 1])
    <3>1. block \in Seq(Envelopes) /\ n + 1 \in 1..Len(block)
      BY <1>4, <2>1, BlockType DEF FilterTx, Shape
    <3>2. block[n + 1] \in Envelopes
      BY <3>1
    <3>3. Outcome(block[n + 1]) \in {"skipped", "refused", "panic", "collected"}
      BY DEF Outcome
    <3>4. block[txIndex] = block[n + 1]
      BY <2>1
    <3>5. pc = "scan" /\ block' = block /\ txIndex' = txIndex + 1
      BY <1>4, <3>3, <3>4 DEF FilterTx, Ended
    <3>6. \/ Outcome(block[n + 1]) = "skipped" /\ preCrossTxs' = preCrossTxs
          \/ Outcome(block[n + 1]) = "collected" /\ preCrossTxs' = Append(preCrossTxs, block[n + 1])
      BY <1>4, <3>3, <3>4 DEF FilterTx, Ended
    <3>7. txIndex' = n + 2
      BY <2>1, <3>5
    <3> QED BY <3>2, <3>5, <3>6, <3>7
  <2>3. PICK place : Placement(place, preCrossTxs, n)
    BY <2>1, <2>2 DEF Collected
  <2>4. PICK p : Placement(p, preCrossTxs', n + 1)
    <3>1. CASE Outcome(block[n + 1]) = "collected"
      BY <2>2, <2>3, <3>1, Facts, CollectedIsWanted, PlaceMore
    <3>2. CASE Outcome(block[n + 1]) # "collected"
      BY <2>2, <2>3, <3>2, CollectedIsWanted, PlaceSame
    <3> QED BY <3>1, <3>2
  <2>5. txIndex' - 1 = n + 1
    BY <2>2
  <2>6. Placement(p, preCrossTxs, txIndex - 1)'
    BY <2>2, <2>4, <2>5 DEF Placement
  <2> QED BY <2>6 DEF Collected
<1>5. CASE Ignore \/ Add \/ AddPush \/ Added
  <2>1. pc' # "scan"
    BY <1>5 DEF Ignore, Ended, Add, AddPush, Added
  <2> QED BY <1>2, <2>1
<1>6. CASE SiftUp \/ Drain \/ DrainPop \/ SiftDown \/ Popped \/ Drained \/ UNCHANGED intakeVars
  <2>1. UNCHANGED <<pc, block, txIndex, preCrossTxs>>
    BY <1>6 DEF SiftUp, Drain, DrainPop, SiftDown, Popped, Drained, intakeVars
  <2> QED BY <1>1, <2>1
<1> QED BY <1>2, <1>3, <1>4, <1>5, <1>6 DEF IntakeNext

(* At the end of the block the placement is that of the whole block.       *)
LEMMA CollectedMeans == Shape /\ Collected => WantedCollected
<1> SUFFICES ASSUME Shape, Collected, pc = "scan", txIndex > Len(block)
             PROVE  \E place \in [DOMAIN preCrossTxs -> DOMAIN block] :
                      /\ \A i, j \in DOMAIN place : i < j => place[i] < place[j]
                      /\ \A i \in DOMAIN place : preCrossTxs[i] = block[place[i]]
                      /\ {place[i] : i \in DOMAIN place} = {k \in DOMAIN block : Wanted(block[k])}
  BY DEF WantedCollected
<1>1. block \in Seq(Envelopes) /\ Len(block) \in Nat /\ txIndex \in 1..(Len(block) + 1)
  BY BlockType DEF Shape
<1>2. 1..(txIndex - 1) = DOMAIN block
  BY <1>1
<1>3. PICK place : Placement(place, preCrossTxs, txIndex - 1)
  BY DEF Collected
<1>4. place \in [DOMAIN preCrossTxs -> DOMAIN block] /\ DOMAIN place = DOMAIN preCrossTxs
  BY <1>2, <1>3 DEF Placement
<1>5. {place[i] : i \in DOMAIN place} = {k \in DOMAIN block : Wanted(block[k])}
  <2>1. \A k \in DOMAIN block : Wanted(block[k]) <=> \E i \in DOMAIN place : place[i] = k
    BY <1>2, <1>3, <1>4, Zenon DEF Placement
  <2>2. \A i \in DOMAIN place : place[i] \in DOMAIN block
    BY <1>4
  <2> QED BY <2>1, <2>2
<1> QED BY <1>3, <1>4, <1>5 DEF Placement

LEMMA CollectedInit == IntakeInit => Collected
BY DEF IntakeInit, Collected

-----------------------------------------------------------------------------
(***************************************************************************)
(* The queue keeps what the priority queue promises.                       *)
(***************************************************************************)
LEMMA FlagStep ==
  ASSUME orderly \in BOOLEAN, [IntakeNext]_intakeVars
  PROVE  orderly' \in BOOLEAN
<1>1. CASE UNCHANGED orderly
  BY <1>1
<1>2. ASSUME NEW s, SetHeap(s)
      PROVE  orderly' \in BOOLEAN
  <2>1. Queue!Orderly(orderly, Queued(s)) \in BOOLEAN
    BY Zenon DEF Queue!Orderly, Queue!IsEmpty, Queue!Close
  <2> QED BY <1>2, <2>1 DEF SetHeap
<1>3. CASE AddPush
  BY <1>1, <1>2, <1>3 DEF AddPush, queueVars
<1>4. CASE Popped
  BY <1>2, <1>4 DEF Popped
<1>5. CASE Receive \/ FilterTx \/ Ignore \/ Add \/ SiftUp \/ Added \/ Drain \/ DrainPop \/ SiftDown \/ Drained
           \/ UNCHANGED intakeVars
  BY <1>1, <1>5 DEF Receive, FilterTx, Ignore, Add, SiftUp, Added, Drain, DrainPop, SiftDown, Drained,
     intakeVars, queueVars
<1> QED BY <1>3, <1>4, <1>5 DEF IntakeNext

(* The inductive invariant.                                                *)
IntakeInv == Shape /\ orderly \in BOOLEAN /\ HeapInOrder /\ BatchInOrder /\ Collected

LEMMA IntakeHolds == IntakeSpec => []IntakeInv
<1>1. IntakeInit => IntakeInv
  BY ShapeInit, OrderInit, CollectedInit DEF IntakeInit, IntakeInv, BatchInOrder
<1>2. IntakeInv /\ [IntakeNext]_intakeVars => IntakeInv'
  BY ShapeStep, FlagStep, OrderStep, BatchStep, CollectedStep DEF IntakeInv
<1> QED BY <1>1, <1>2, PTL DEF IntakeSpec

(* Whatever the blocks, their number of transactions and the size of a     *)
(* stack block: every wanted transaction of a block is handed over in its  *)
(* order and no other, and the stack is well formed, with no slot keeping  *)
(* what was popped (filter.go:78-135, sstack.go:47-101).                   *)
THEOREM TakenWhole == IntakeSpec => []TakenAndKept
<1>1. IntakeInv => IntakeOK
  BY DEF IntakeInv, Shape, SiftOK, WellFormed, IntakeOK
<1>2. IntakeInv => WantedCollected
  BY CollectedMeans DEF IntakeInv
<1>3. IntakeInv => TakenAndKept
  BY <1>1, <1>2 DEF TakenAndKept
<1> QED BY <1>3, IntakeHolds, PTL

(* A batch is taken in the order of the timestamps and nothing older stays *)
(* behind or comes in meanwhile, as long as the timestamps in the queue    *)
(* are less than half the range of an int64 apart (sstack.go:89,           *)
(* txmanager.go:152-168).                                                  *)
THEOREM DrainedInOrder == IntakeSpec => []BatchInOrder
<1>1. IntakeInv => BatchInOrder
  BY DEF IntakeInv
<1> QED BY <1>1, IntakeHolds, PTL

(* The loops of container/heap are stutters of the abstract queue.         *)
LEMMA QueueKept ==
  ASSUME Shape, SiftUp \/ DrainPop \/ SiftDown
  PROVE  Queued(heap') = Queued(heap) /\ orderly' = orderly
<1>1. WellFormed(heap) /\ SiftOK /\ heap.size \in Nat
  BY Facts
<1>2. CASE SiftUp
  <2>1. sift.at \in 0..(heap.size - 1)
    BY <1>1, <1>2, SiftAt DEF SiftUp
  <2>2. Rises(heap, sift.at) => Parent(sift.at) \in 0..(heap.size - 1)
    BY <1>1, <2>1, ParentOf DEF Rises
  <2> QED BY <1>1, <1>2, <2>1, <2>2, SwapQueued DEF SiftUp
<1>3. CASE DrainPop
  <2>1. 0 \in 0..(heap.size - 1) /\ heap.size - 1 \in 0..(heap.size - 1)
    BY <1>1, <1>3 DEF DrainPop
  <2> QED BY <1>1, <1>3, <2>1, SwapQueued DEF DrainPop
<1>4. CASE SiftDown
  <2>1. PICK c : c = FirstChild(heap, sift.at, heap.size - 1)
    OBVIOUS
  <2>2. /\ sift.loop = "down" /\ Sinks(heap, sift.at, heap.size - 1)
        /\ heap' = Swap(heap, sift.at, c) /\ orderly' = orderly
    BY <1>4, <2>1 DEF SiftDown
  <2>3. sift.at \in 0..(heap.size - 1) /\ sift.at \in Nat
    BY <1>1, <2>2, SiftAt
  <2>4. c \in 0..(heap.size - 1)
    BY <1>1, <2>1, <2>2, <2>3, ChildIndex DEF Sinks
  <2> QED BY <1>1, <2>2, <2>3, <2>4, SwapQueued
<1> QED BY <1>2, <1>3, <1>4

(* heap.Push is one Add, at its first step.                                *)
LEMMA PushIsAdd ==
  ASSUME Shape, AddPush
  PROVE  \/ UNCHANGED queueVars
         \/ \E x \in TxIDs : Queue!Add(x)
<1>1. PICK e : e = Head(preCrossTxs)
  OBVIOUS
<1>2. e \in Envelopes /\ WellFormed(heap)
  BY <1>1, Facts DEF AddPush
<1>3. CASE SetHeap(StackPush(heap, Item(e)))
  <2>1. e.txid \in TxIDs /\ Item(e) \in Slots /\ Item(e) # Nil /\ Item(e).value = e.txid
    BY <1>2, ItemQueueable, QueueableSlot
  <2>2. Queued(heap') = Queue!Push(Queued(heap), e.txid)
    BY <1>2, <1>3, <2>1, PushQueued DEF SetHeap
  <2>3. orderly' = Queue!Orderly(orderly, Queued(heap'))
    BY <1>3 DEF SetHeap
  <2> QED BY <2>1, <2>2, <2>3 DEF Queue!Add
<1> QED BY <1>1, <1>3 DEF AddPush

(* heap.Pop is one Take, at its last step, of an item that comes first.    *)
LEMMA PopIsTake ==
  ASSUME Shape, HeapInOrder, Popped
  PROVE  \E x \in TxIDs : Queue!Take(x)
<1>1. /\ WellFormed(heap) /\ SiftOK /\ heap.size \in Nat \ {0} /\ sift.at \in 0..(heap.size - 1)
      /\ \A k \in 0..(heap.size - 1) : At(heap, k) \in Queueable
  BY Facts, PoppedShape
<1>2. PICK n \in 0..(heap.size - 1) : n = heap.size - 1
  BY <1>1
<1>3. PICK x : x = At(heap, n).value
  OBVIOUS
<1>4. x \in TxIDs /\ At(heap, n) # Nil
  BY <1>1, <1>3, QueueableSlot
<1>5. Queue!In(x, Queued(heap))
  BY <1>1, <1>3, <1>4, InQueue DEF Queue!In
<1>6. Queued(heap') = Queue!Drop(Queued(heap), x) /\ orderly' = Queue!Orderly(orderly, Queued(heap'))
  BY <1>1, <1>2, <1>3, PopQueued DEF Popped, SetHeap
<1>7. ASSUME orderly
      PROVE  x \in Queue!Firsts(Queued(heap), Seconds)
  <2>1. Near(heap)
    BY <1>7, NearNow
  <2>2. HeapDown(heap, sift.at) /\ ~Sinks(heap, sift.at, heap.size - 1)
    BY <1>7 DEF HeapInOrder, Popped
  <2>3. \A k \in 0..(heap.size - 1) : Time(heap, heap.size - 1) <= Time(heap, k)
    BY <1>1, <2>1, <2>2, SinkEnd
  <2>4. \A k \in 0..(heap.size - 1) : Seconds[x] <= Seconds[At(heap, k).value]
    BY <1>2, <1>3, <2>3 DEF Time
  <2>5. DOMAIN Queued(heap) = TxIDs
    BY <1>1, QueuedIs
  <2>6. ASSUME NEW y \in Queue!Elements(Queued(heap))
        PROVE  Seconds[x] <= Seconds[y]
    <3>1. y \in TxIDs /\ Queued(heap)[y] > 0
      BY <2>5 DEF Queue!Elements
    <3>2. PICK k \in 0..(heap.size - 1) : At(heap, k) # Nil /\ At(heap, k).value = y
      BY <1>1, <3>1, InQueue
    <3> QED BY <2>4, <3>2
  <2>7. x \in Queue!Elements(Queued(heap))
    BY <1>4, <1>5, <2>5 DEF Queue!Elements, Queue!In
  <2> QED BY <2>6, <2>7 DEF Queue!Firsts
<1> QED BY <1>4, <1>5, <1>6, <1>7 DEF Queue!Take

(* The sorted stack, with container/heap's loops taken step by step,       *)
(* implements the priority queue that TxManager takes it for: Push adds    *)
(* one element, Pop takes one that comes first (prque.go:20-29,            *)
(* sstack.go:47-101).                                                      *)
THEOREM StackIsQueue == IntakeSpec => ImplementsQueue
<1>1. IntakeInit => Queue!Init
  <2> SUFFICES ASSUME IntakeInit
               PROVE  Queued(heap) = Queue!Empty(TxIDs) /\ orderly = TRUE
    BY DEF Queue!Init
  <2>1. heap = New /\ New.size = 0 /\ orderly = TRUE
    BY NewStack DEF IntakeInit
  <2>2. Queued(New) \in [TxIDs -> Nat] /\ \A t \in TxIDs : ~(Queued(New)[t] > 0)
    BY <2>1, QueuedIs, InQueue
  <2>3. \A t \in TxIDs : Queued(New)[t] = 0
    BY <2>2
  <2> QED BY <2>1, <2>2, <2>3 DEF Queue!Empty
<1>2. IntakeInv /\ [IntakeNext]_intakeVars => [Queue!Next]_Queue!vars
  <2> SUFFICES ASSUME Shape, HeapInOrder, [IntakeNext]_intakeVars
               PROVE  Queue!Next \/ (Queued(heap') = Queued(heap) /\ orderly' = orderly)
    BY DEF IntakeInv, Queue!vars
  <2>1. CASE UNCHANGED queueVars
    BY <2>1 DEF queueVars
  <2>2. CASE AddPush
    BY <2>1, <2>2, PushIsAdd DEF Queue!Next
  <2>3. CASE SiftUp \/ DrainPop \/ SiftDown
    BY <2>3, QueueKept
  <2>4. CASE Popped
    BY <2>4, PopIsTake DEF Queue!Next
  <2>5. CASE Receive \/ FilterTx \/ Ignore \/ Add \/ Added \/ Drain \/ Drained \/ UNCHANGED intakeVars
    <3>1. UNCHANGED queueVars
      BY <2>5 DEF Receive, FilterTx, Ignore, Add, Added, Drain, Drained, intakeVars, queueVars
    <3> QED BY <2>1, <3>1
  <2> QED BY <2>2, <2>3, <2>4, <2>5 DEF IntakeNext
<1> QED BY <1>1, <1>2, IntakeHolds, PTL DEF IntakeSpec, ImplementsQueue, Queue!Spec

=============================================================================
