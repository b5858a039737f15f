-------------------------- MODULE Chaincode_proofs --------------------------
(***************************************************************************)
(* The life of a contract on the ledger and the money of its accounts, for *)
(* any accounts, contracts, calls and payments and any number of endorsed  *)
(* transactions, in whatever order they are ordered.                       *)
(***************************************************************************)
EXTENDS Chaincode, FiniteSetTheorems, WellFoundedInduction, TLAPS

Money == {None} \cup [type : {"amount"}, n : Ints]

(* Accounts hold money and contracts a status.                             *)
Holdings ==
  /\ \A a \in Accounts : state[a] \in Money
  /\ \A c \in Contracts : state[c] \in {None, Contract("Init"), Contract("Finished")}

(* What an endorsed transaction may do to a contract: nothing or delete    *)
(* it; create it; finish it, and then the contract was read.               *)
DeletesOne(w) == \A c, d \in Contracts \cap DOMAIN w : c = d /\ w[c] = None

Quiet(t) ==
  /\ t.event \in {"none", "evtTransfer"} /\ t.of = {} /\ t.pays = FALSE
  /\ DeletesOne(t.writes)

Creates(t, c) ==
  /\ t.event = "precommit" /\ t.of = {c} /\ t.pays = FALSE
  /\ Contracts \cap DOMAIN t.writes = {c} /\ t.writes[c] = Contract("Init")

Finishes(t, c) ==
  /\ t.event = "commit" /\ t.of = {c} /\ t.pays \in BOOLEAN
  /\ Contracts \cap DOMAIN t.writes = {c} /\ t.writes[c] = Contract("Finished")
  /\ c \in t.reads

Endorsable(t) ==
  /\ Quiet(t) \/ \E c \in Contracts : Creates(t, c) \/ Finishes(t, c)
  /\ \A a \in Accounts \cap DOMAIN t.writes : t.writes[a] \in Money
  /\ t.reads \subseteq Keys /\ DOMAIN t.writes \subseteq Keys /\ t.at \in 0..height

Counters ==
  /\ height \in Nat /\ written \in [Keys -> 0..height] /\ endorsed \in Nat
  /\ precommitted \subseteq Contracts /\ created \subseteq precommitted
  /\ commits \in [Contracts -> Nat] /\ paid \in [Contracts -> Nat]
  /\ panics \subseteq {"absent", "finished"}
  /\ state \in [Keys -> Value]

(* A commit in the pool that may still be valid was endorsed against a     *)
(* contract nothing has written since, so it is at Init: this is what the  *)
(* read of the contract is for.  A contract is created by one transaction. *)
LifeInv ==
  \A c \in Contracts :
    /\ c \notin created => state[c] = None /\ commits[c] = 0
    /\ \A t \in pool : Creates(t, c) =>
         /\ c \in precommitted \ created
         /\ \A u \in pool : Creates(u, c) => u = t
    /\ \A t \in pool : Finishes(t, c) =>
         c \in created /\ (written[c] <= t.at => state[c] = Contract("Init"))
    /\ state[c] = Contract("Init") => commits[c] = 0
    /\ state[c] = Contract("Finished") => commits[c] = 1
    /\ commits[c] <= 1 /\ paid[c] <= commits[c]

Inv == Counters /\ Holdings /\ (\A t \in pool : Endorsable(t)) /\ LifeInv

-----------------------------------------------------------------------------
(* Values and arithmetic.                                                  *)
LEMMA Distinct ==
  /\ None # Contract("Init") /\ None # Contract("Finished")
  /\ Contract("Init") # Contract("Finished")
  /\ \A s : Contract(s).status = s
  /\ \A n : Amount(n) # None /\ Amount(n).n = n
BY DEF None, Contract, Amount

LEMMA WrapInInts == \A n \in Int : Wrap(n) \in Ints
<1> SUFFICES ASSUME NEW n \in Int
             PROVE  Wrap(n) \in Ints
  OBVIOUS
<1> DEFINE m == 2 * Half
<1>1. m \in Nat \ {0} /\ m = Half + Half /\ Half \in Nat
  BY ChaincodeAssumption
<1>2. (n + Half) % m \in 0..(m - 1)
  <2> DEFINE k == n + Half
  <2>1. k \in Int
    BY <1>1
  <2> HIDE DEF m, k
  <2>2. k % m \in 0..(m - 1)
    BY <1>1, <2>1
  <2> QED BY <2>2 DEF k
<1> QED BY <1>1, <1>2 DEF Wrap, Ints

LEMMA TypeFromInv == Inv => TypeOK
<1> SUFFICES ASSUME Inv
             PROVE  TypeOK
  OBVIOUS
<1>1. ASSUME NEW t \in pool
      PROVE  /\ t.reads \subseteq Keys /\ t.at \in 0..height
             /\ DOMAIN t.writes \subseteq Keys
             /\ \A k \in DOMAIN t.writes : t.writes[k] \in Value
             /\ t.event \in {"none", "evtTransfer", "precommit", "commit"}
             /\ t.of \subseteq Contracts /\ t.pays \in BOOLEAN
  <2>1. Endorsable(t)
    BY <1>1 DEF Inv
  <2>2. ASSUME NEW k \in DOMAIN t.writes
        PROVE  t.writes[k] \in Value
    <3>1. CASE k \in Accounts
      BY <2>1, <3>1 DEF Endorsable, Money, Value
    <3>2. CASE k \in Contracts
      <4>1. t.writes[k] \in {None, Contract("Init"), Contract("Finished")}
        BY <2>1, <3>2 DEF Endorsable, Quiet, DeletesOne, Creates, Finishes
      <4> QED BY <4>1 DEF Value, Contract, None
    <3> QED BY <2>1, <3>1, <3>2 DEF Endorsable, Keys
  <2> QED BY <2>1, <2>2 DEF Endorsable, Quiet, Creates, Finishes
<1> QED BY <1>1 DEF Inv, Counters, TypeOK

-----------------------------------------------------------------------------
(* Endorsing a transaction keeps the invariant if the one that creates a   *)
(* contract is the first to, and the one that finishes it saw it at Init.  *)
LEMMA Endorsed ==
  ASSUME Inv, NEW t, pool' = pool \cup {t}, t.at = height, Endorsable(t),
         UNCHANGED <<state, height, written, obsVars>>,
         precommitted \subseteq precommitted', precommitted' \subseteq Contracts,
         endorsed' \in Nat, panics' = panics,
         \A c \in Contracts : Creates(t, c) => c \in precommitted' \ precommitted,
         \A c \in Contracts : Finishes(t, c) => state[c] = Contract("Init")
  PROVE  Inv'
<1>1. Counters'
  BY DEF Inv, Counters, obsVars
<1>2. Holdings'
  BY DEF Inv, Holdings
<1>3. (\A u \in pool : Endorsable(u))'
  BY DEF Inv, Endorsable
<1>4. LifeInv'
  <2> SUFFICES ASSUME NEW c \in Contracts
               PROVE  /\ c \notin created => state[c] = None /\ commits[c] = 0
                      /\ \A v \in pool' : Creates(v, c) =>
                           /\ c \in precommitted' \ created
                           /\ \A u \in pool' : Creates(u, c) => u = v
                      /\ \A v \in pool' : Finishes(v, c) =>
                           c \in created /\ (written[c] <= v.at => state[c] = Contract("Init"))
                      /\ state[c] = Contract("Init") => commits[c] = 0
                      /\ state[c] = Contract("Finished") => commits[c] = 1
                      /\ commits[c] <= 1 /\ paid[c] <= commits[c]
    BY DEF LifeInv, obsVars
  <2>1. \A v \in pool' : Creates(v, c) =>
           /\ c \in precommitted' \ created
           /\ \A u \in pool' : Creates(u, c) => u = v
    BY DEF Inv, LifeInv, Counters
  <2>2. \A v \in pool' : Finishes(v, c) =>
           c \in created /\ (written[c] <= v.at => state[c] = Contract("Init"))
    BY Distinct DEF Inv, LifeInv
  <2> QED BY <2>1, <2>2 DEF Inv, LifeInv
<1> QED BY <1>1, <1>2, <1>3, <1>4 DEF Inv

(* A payment writes money to accounts.                                     *)
LEMMA Payment ==
  ASSUME Inv, NEW p \in [func : Funcs, from : Accounts, to : Accounts, x : Ints]
  PROVE  /\ InvokeReads(p) \subseteq Accounts /\ DOMAIN InvokeWrites(p) \subseteq Accounts
         /\ \A a \in DOMAIN InvokeWrites(p) : InvokeWrites(p)[a] \in Money
<1>1. InvokeReads(p) \subseteq Accounts
  BY DEF InvokeReads
<1>2. CASE Succeeds(p)
  <2>1. state[p.to] \in Money \ {None} /\ state[p.from] \in Money \ {None}
    BY <1>2 DEF Succeeds, Exists, Inv, Holdings
  <2>2. state[p.to].n \in Int /\ state[p.from].n \in Int /\ p.x \in Int
    BY <2>1, ChaincodeAssumption DEF Money, Ints
  <2>3. Wrap(Atoi(state[p.to]) + p.x) \in Ints /\ Wrap(Atoi(state[p.from]) - p.x) \in Ints
    BY <2>2, WrapInInts DEF Atoi
  <2>4. \A n \in Ints : Amount(n) \in Money
    BY DEF Amount, Money
  <2> QED BY <1>1, <1>2, <2>3, <2>4 DEF InvokeWrites
<1>3. CASE ~Succeeds(p)
  BY <1>1, <1>3 DEF InvokeWrites, NoWrites
<1> QED BY <1>2, <1>3

LEMMA InvKeepsPropose ==
  ASSUME Inv, NEW reads, NEW writes, NEW event, NEW of, NEW pays,
         Propose(reads, writes, event, of, pays),
         precommitted \subseteq precommitted', precommitted' \subseteq Contracts, panics' = panics,
         reads \subseteq Keys, DOMAIN writes \subseteq Keys,
         \A a \in Accounts \cap DOMAIN writes : writes[a] \in Money,
         \/ /\ event \in {"none", "evtTransfer"} /\ of = {} /\ pays = FALSE
            /\ DeletesOne(writes)
         \/ \E c \in Contracts :
              /\ event = "precommit" /\ of = {c} /\ pays = FALSE
              /\ Contracts \cap DOMAIN writes = {c} /\ writes[c] = Contract("Init")
              /\ c \in precommitted' \ precommitted
         \/ \E c \in Contracts :
              /\ event = "commit" /\ of = {c} /\ pays \in BOOLEAN /\ c \in reads
              /\ Contracts \cap DOMAIN writes = {c} /\ writes[c] = Contract("Finished")
              /\ state[c] = Contract("Init")
  PROVE  Inv'
<1> DEFINE t == [reads |-> reads, at |-> height, writes |-> writes,
                 event |-> event, of |-> of, pays |-> pays]
<1>1. /\ t.reads = reads /\ t.at = height /\ t.writes = writes /\ t.event = event
      /\ t.of = of /\ t.pays = pays
  OBVIOUS
<1>2. /\ pool' = pool \cup {t} /\ endorsed' = endorsed + 1
      /\ UNCHANGED <<state, height, written, obsVars>>
  BY DEF Propose
<1>3. endorsed' \in Nat /\ height \in 0..height
  BY <1>2 DEF Inv, Counters
<1> HIDE DEF t
<1>4. Endorsable(t)
  BY <1>1, <1>3 DEF Endorsable, Quiet, Creates, Finishes
<1>5. \A c \in Contracts : Creates(t, c) => c \in precommitted' \ precommitted
  BY <1>1 DEF Creates
<1>6. \A c \in Contracts : Finishes(t, c) => state[c] = Contract("Init")
  BY <1>1 DEF Finishes
<1> QED BY <1>1, <1>2, <1>3, <1>4, <1>5, <1>6, Endorsed

LEMMA InvKeepsQuiet ==
  ASSUME Inv, NEW reads, NEW writes, NEW event \in {"none", "evtTransfer"},
         Propose(reads, writes, event, {}, FALSE), UNCHANGED <<precommitted, panics>>,
         reads \subseteq Keys, DOMAIN writes \subseteq Keys, DeletesOne(writes),
         \A a \in Accounts \cap DOMAIN writes : writes[a] \in Money
  PROVE  Inv' /\ UNCHANGED <<state, height, written, obsVars>>
<1>1. UNCHANGED <<state, height, written, obsVars>>
  BY DEF Propose
<1>2. precommitted \subseteq precommitted' /\ precommitted' \subseteq Contracts /\ panics' = panics
  BY DEF Inv, Counters
<1> QED BY <1>1, <1>2, InvKeepsPropose

(* Each endorsement.                                                       *)
LEMMA EndorseKeeps ==
  ASSUME Inv,
         \/ \E p \in Payments : EndorseInvoke(p)
         \/ \E k \in Deletable : EndorseDelete(k)
         \/ EndorseInit
         \/ \E c \in Contracts : EndorsePrecommit(c) \/ EndorseCommit(c)
  PROVE  Inv' /\ UNCHANGED <<state, height, written, obsVars>>
<1>0. Accounts \cap Contracts = {} /\ Accounts \subseteq Keys /\ Contracts \subseteq Keys
  BY ChaincodeAssumption DEF Keys
<1>1. ASSUME NEW p \in Payments, EndorseInvoke(p)
      PROVE  Inv' /\ UNCHANGED <<state, height, written, obsVars>>
  <2>1. p \in [func : Funcs, from : Accounts, to : Accounts, x : Ints]
    BY ChaincodeAssumption
  <2>2. /\ InvokeReads(p) \subseteq Accounts /\ DOMAIN InvokeWrites(p) \subseteq Accounts
        /\ \A a \in DOMAIN InvokeWrites(p) : InvokeWrites(p)[a] \in Money
    BY <2>1, Payment
  <2>3. PICK event \in {"none", "evtTransfer"} :
          Propose(InvokeReads(p), InvokeWrites(p), event, {}, FALSE)
    BY <1>1 DEF EndorseInvoke
  <2>4. UNCHANGED <<precommitted, panics>>
    BY <1>1 DEF EndorseInvoke
  <2>5. /\ InvokeReads(p) \subseteq Keys /\ DOMAIN InvokeWrites(p) \subseteq Keys
        /\ DeletesOne(InvokeWrites(p))
    BY <1>0, <2>2 DEF DeletesOne
  <2> QED BY <2>2, <2>3, <2>4, <2>5, InvKeepsQuiet
<1>2. ASSUME NEW k \in Deletable, EndorseDelete(k)
      PROVE  Inv' /\ UNCHANGED <<state, height, written, obsVars>>
  <2> DEFINE w == [j \in {k} |-> None]
             none == "none"
             nothing == {}
  <2>1. Propose(nothing, w, none, {}, FALSE) /\ UNCHANGED <<precommitted, panics>>
    BY <1>2 DEF EndorseDelete
  <2>2. k \in Keys /\ DOMAIN w = {k} /\ w[k] = None /\ None \in Money
    BY ChaincodeAssumption DEF Money
  <2>3. none \in {"none", "evtTransfer"} /\ nothing \subseteq Keys
    OBVIOUS
  <2> HIDE DEF w, none, nothing
  <2>4. /\ DOMAIN w \subseteq Keys /\ \A a \in Accounts \cap DOMAIN w : w[a] \in Money
        /\ DeletesOne(w)
    BY <2>2 DEF DeletesOne
  <2> QED BY <2>1, <2>3, <2>4, InvKeepsQuiet
<1>3. ASSUME EndorseInit
      PROVE  Inv' /\ UNCHANGED <<state, height, written, obsVars>>
  <2> DEFINE w == [a \in DOMAIN Initial |-> Amount(Initial[a])]
             none == "none"
             nothing == {}
  <2>1. Propose(nothing, w, none, {}, FALSE) /\ UNCHANGED <<precommitted, panics>>
    BY <1>3 DEF EndorseInit
  <2>2. DOMAIN w \subseteq Accounts /\ \A a \in DOMAIN w : w[a] \in Money
    BY ChaincodeAssumption DEF Amount, Money
  <2>3. none \in {"none", "evtTransfer"} /\ nothing \subseteq Keys
    OBVIOUS
  <2> HIDE DEF w, none, nothing
  <2>4. DOMAIN w \subseteq Keys /\ DeletesOne(w)
    BY <1>0, <2>2 DEF DeletesOne
  <2> QED BY <2>1, <2>2, <2>3, <2>4, InvKeepsQuiet
<1>4. ASSUME NEW c \in Contracts, EndorsePrecommit(c)
      PROVE  Inv' /\ UNCHANGED <<state, height, written, obsVars>>
  <2> DEFINE w == [j \in {c} |-> Contract("Init")]
  <2>1. /\ Propose({}, w, "precommit", {c}, FALSE) /\ panics' = panics
        /\ precommitted' = precommitted \cup {c} /\ precommitted \subseteq Contracts
        /\ c \in precommitted' \ precommitted
    BY <1>4 DEF EndorsePrecommit, Inv, Counters
  <2>2. DOMAIN w = {c} /\ w[c] = Contract("Init")
    OBVIOUS
  <2>3. UNCHANGED <<state, height, written, obsVars>>
    BY <2>1 DEF Propose
  <2> HIDE DEF w
  <2>4. DOMAIN w \subseteq Keys /\ Contracts \cap DOMAIN w = {c} /\ Accounts \cap DOMAIN w = {}
    BY <1>0, <2>2
  <2> QED BY <2>1, <2>2, <2>3, <2>4, InvKeepsPropose
<1>5. ASSUME NEW c \in Contracts, EndorseCommit(c)
      PROVE  Inv' /\ UNCHANGED <<state, height, written, obsVars>>
  <2>1. CASE Exists(c) => IsCommit(state[c].status)
    <3>1. ~(Exists(c) /\ IsPrecommit(state[c].status))
      BY <2>1 DEF IsCommit, IsPrecommit
    <3>2. /\ UNCHANGED <<state, height, written, pool, endorsed, precommitted, obsVars>>
          /\ panics' \subseteq {"absent", "finished"}
      BY <1>5, <3>1 DEF EndorseCommit, Inv, Counters
    <3> QED BY <3>2 DEF Inv, Counters, Holdings, LifeInv, Endorsable, obsVars
  <2>2. CASE Exists(c) /\ ~IsCommit(state[c].status)
    <3> DEFINE q == Call[c]
               w == [k \in {c} \cup DOMAIN InvokeWrites(q) |->
                      IF k = c THEN Contract("Finished") ELSE InvokeWrites(q)[k]]
    <3>1. state[c] = Contract("Init")
      BY <2>2, Distinct DEF Inv, Holdings, Exists, IsCommit
    <3>2. /\ Propose({c} \cup InvokeReads(q), w, "commit", {c}, Succeeds(q))
          /\ precommitted' = precommitted /\ panics' = panics /\ precommitted \subseteq Contracts
      BY <1>5, <2>2 DEF EndorseCommit, Inv, Counters
    <3>3. q \in [func : Funcs, from : Accounts, to : Accounts, x : Ints]
      BY ChaincodeAssumption
    <3>4. /\ InvokeReads(q) \subseteq Accounts /\ DOMAIN InvokeWrites(q) \subseteq Accounts
          /\ \A a \in DOMAIN InvokeWrites(q) : InvokeWrites(q)[a] \in Money
      BY <3>3, Payment
    <3>5. Succeeds(q) \in BOOLEAN
      BY DEF Succeeds
    <3>6. UNCHANGED <<state, height, written, obsVars>>
      BY <3>2 DEF Propose
    <3> HIDE DEF q
    <3>7. /\ DOMAIN w = {c} \cup DOMAIN InvokeWrites(q) /\ w[c] = Contract("Finished")
          /\ \A a \in DOMAIN InvokeWrites(q) \ {c} : w[a] = InvokeWrites(q)[a]
      OBVIOUS
    <3> HIDE DEF w
    <3>8. /\ {c} \cup InvokeReads(q) \subseteq Keys /\ DOMAIN w \subseteq Keys
          /\ Contracts \cap DOMAIN w = {c}
          /\ \A a \in Accounts \cap DOMAIN w : w[a] \in Money
      BY <1>0, <3>4, <3>7
    <3>9. c \in {c} \cup InvokeReads(q) /\ precommitted \subseteq precommitted'
      BY <3>2
    <3> QED BY <3>1, <3>2, <3>5, <3>6, <3>7, <3>8, <3>9, InvKeepsPropose
  <2> QED BY <2>1, <2>2
<1> QED BY <1>1, <1>2, <1>3, <1>4, <1>5

-----------------------------------------------------------------------------
(* Ordering a valid transaction, one contract at a time.                   *)
Applied(t) ==
  /\ pool' = pool \ {t} /\ height' = height + 1 /\ Valid(t)
  /\ state' = [k \in Keys |-> IF k \in DOMAIN t.writes THEN t.writes[k] ELSE state[k]]
  /\ written' = [k \in Keys |-> IF k \in DOMAIN t.writes THEN height + 1 ELSE written[k]]
  /\ created' = IF t.event = "precommit" THEN created \cup t.of ELSE created
  /\ commits' = [c \in Contracts |-> IF t.event = "commit" /\ c \in t.of
                                       THEN commits[c] + 1 ELSE commits[c]]
  /\ paid' = [c \in Contracts |-> IF t.pays /\ c \in t.of THEN paid[c] + 1 ELSE paid[c]]
  /\ UNCHANGED <<endorsed, precommitted, panics>>

Untouched(c) ==
  /\ state'[c] = state[c] /\ written'[c] = written[c]
  /\ c \in created' <=> c \in created
  /\ commits'[c] = commits[c] /\ paid'[c] = paid[c]

(* What a valid transaction does to each contract.                         *)
Deleted(c) ==
  /\ state'[c] = None /\ written'[c] = height + 1
  /\ c \in created' <=> c \in created
  /\ commits'[c] = commits[c] /\ paid'[c] = paid[c]

Created(c) ==
  /\ c \notin created /\ state[c] = None /\ commits[c] = 0
  /\ state'[c] = Contract("Init") /\ written'[c] = height + 1 /\ c \in created'
  /\ commits'[c] = commits[c] /\ paid'[c] = paid[c]

Finished(c) ==
  /\ c \in created /\ state[c] = Contract("Init") /\ commits[c] = 0
  /\ state'[c] = Contract("Finished") /\ written'[c] = height + 1 /\ c \in created'
  /\ commits'[c] = 1 /\ paid'[c] \in {paid[c], paid[c] + 1}

LEMMA AppliedEffect ==
  ASSUME Inv, NEW t \in pool, Applied(t)
  PROVE  \/ \A c \in Contracts : Untouched(c)
         \/ \E c \in Contracts : /\ Deleted(c) /\ Quiet(t)
                                /\ \A d \in Contracts \ {c} : Untouched(d)
         \/ \E c \in Contracts : /\ Created(c) /\ Creates(t, c)
                                /\ \A d \in Contracts \ {c} : Untouched(d)
         \/ \E c \in Contracts : /\ Finished(c) /\ Finishes(t, c)
                                /\ \A d \in Contracts \ {c} : Untouched(d)
<1>0. Contracts \subseteq Keys
  BY DEF Keys
<1>1. Endorsable(t)
  BY DEF Inv
<1>2. CASE Quiet(t)
  <2>1. CASE Contracts \cap DOMAIN t.writes = {}
    BY <1>0, <1>2, <2>1 DEF Applied, Quiet, DeletesOne, Untouched, Inv, Counters
  <2>2. ASSUME NEW c \in Contracts \cap DOMAIN t.writes
        PROVE  /\ Deleted(c)
               /\ \A d \in Contracts \ {c} : Untouched(d)
    BY <1>0, <1>2, <2>2 DEF Applied, Quiet, DeletesOne, Untouched, Deleted, Inv, Counters
  <2> QED BY <1>2, <2>1, <2>2
<1>3. ASSUME NEW c \in Contracts, Creates(t, c)
      PROVE  Created(c) /\ \A d \in Contracts \ {c} : Untouched(d)
  <2>1. c \notin created /\ state[c] = None /\ commits[c] = 0
    BY <1>3 DEF Inv, LifeInv
  <2> QED BY <1>0, <1>3, <2>1 DEF Applied, Creates, Created, Untouched, Inv, Counters
<1>4. ASSUME NEW c \in Contracts, Finishes(t, c)
      PROVE  Finished(c) /\ \A d \in Contracts \ {c} : Untouched(d)
  <2>1. written[c] <= t.at
    BY <1>4 DEF Applied, Valid, Finishes
  <2>2. c \in created /\ state[c] = Contract("Init") /\ commits[c] = 0
    BY <1>4, <2>1 DEF Inv, LifeInv
  <2> QED BY <1>0, <1>4, <2>2 DEF Applied, Finishes, Finished, Untouched, Inv, Counters
<1> QED BY <1>1, <1>2, <1>3, <1>4 DEF Endorsable

LEMMA AppliedKeeps ==
  ASSUME Inv, NEW t \in pool, Applied(t)
  PROVE  Inv'
<1>0. Endorsable(t) /\ height \in Nat /\ Accounts \cap Contracts = {}
  BY ChaincodeAssumption DEF Inv, Counters
<1>1. Holdings'
  <2>1. ASSUME NEW a \in Accounts
        PROVE  state'[a] \in Money
    BY <1>0, <2>1 DEF Applied, Endorsable, Inv, Holdings, Keys
  <2>2. ASSUME NEW c \in Contracts
        PROVE  state'[c] \in {None, Contract("Init"), Contract("Finished")}
    BY <2>2, AppliedEffect DEF Untouched, Deleted, Created, Finished, Inv, Holdings
  <2> QED BY <2>1, <2>2 DEF Holdings
<1>2. Counters'
  <2>1. state' \in [Keys -> Value]
    <3>1. \A k \in Keys : state'[k] \in Value
      BY <1>1 DEF Holdings, Keys, Money, Value, Contract, None
    <3> QED BY <3>1 DEF Applied
  <2>2. written' \in [Keys -> 0..height']
    BY <1>0 DEF Applied, Inv, Counters
  <2>3. created' \subseteq precommitted'
    BY <1>0 DEF Applied, Inv, Counters, LifeInv, Endorsable, Quiet, Creates, Finishes
  <2>4. commits' \in [Contracts -> Nat] /\ paid' \in [Contracts -> Nat]
    BY DEF Applied, Inv, Counters
  <2> QED BY <1>0, <2>1, <2>2, <2>3, <2>4 DEF Applied, Inv, Counters
<1>3. (\A u \in pool : Endorsable(u))'
  BY <1>0 DEF Applied, Inv, Endorsable
<1>4. LifeInv'
  <2> SUFFICES ASSUME NEW c \in Contracts
               PROVE  /\ c \notin created' => state'[c] = None /\ commits'[c] = 0
                      /\ \A v \in pool' : Creates(v, c) =>
                           /\ c \in precommitted' \ created'
                           /\ \A u \in pool' : Creates(u, c) => u = v
                      /\ \A v \in pool' : Finishes(v, c) =>
                           c \in created' /\ (written'[c] <= v.at => state'[c] = Contract("Init"))
                      /\ state'[c] = Contract("Init") => commits'[c] = 0
                      /\ state'[c] = Contract("Finished") => commits'[c] = 1
                      /\ commits'[c] <= 1 /\ paid'[c] <= commits'[c]
    BY DEF LifeInv
  <2> DEFINE Late == \A v \in pool : Finishes(v, c) => v.at \in Nat /\ ~(height + 1 <= v.at)
  <2>0. /\ pool' \subseteq pool /\ t \notin pool' /\ precommitted' = precommitted /\ Late
        /\ commits[c] \in Nat /\ paid[c] \in Nat
        /\ c \notin created => state[c] = None /\ commits[c] = 0
        /\ \A v \in pool : Creates(v, c) =>
              c \in precommitted \ created /\ \A u \in pool : Creates(u, c) => u = v
        /\ \A v \in pool : Finishes(v, c) =>
              c \in created /\ (written[c] <= v.at => state[c] = Contract("Init"))
        /\ state[c] = Contract("Init") => commits[c] = 0
        /\ state[c] = Contract("Finished") => commits[c] = 1
        /\ commits[c] <= 1 /\ paid[c] <= commits[c]
    BY <1>0 DEF Applied, Inv, LifeInv, Counters, Endorsable
  <2>1. CASE Untouched(c)
    BY <2>0, <2>1 DEF Untouched
  <2>2. CASE Deleted(c)
    BY <2>0, <2>2, Distinct DEF Deleted
  <2>3. CASE Created(c) /\ Creates(t, c)
    BY <2>0, <2>3, Distinct DEF Created
  <2>4. CASE Finished(c)
    BY <2>0, <2>4, Distinct DEF Finished
  <2> QED BY <2>1, <2>2, <2>3, <2>4, AppliedEffect
<1> QED BY <1>1, <1>2, <1>3, <1>4 DEF Inv

LEMMA DroppedKeeps ==
  ASSUME Inv, NEW t \in pool, pool' = pool \ {t},
         UNCHANGED <<state, height, written, obsVars, endorsed, precommitted, panics>>
  PROVE  Inv'
BY DEF Inv, Counters, Holdings, LifeInv, Endorsable, obsVars

LEMMA InvInit == Init => Inv
<1> SUFFICES ASSUME Init
             PROVE  Inv
  OBVIOUS
<1> USE ChaincodeAssumption
<1>1. Holdings
  BY DEF Init, Holdings, Keys, Money, Amount
<1>2. state \in [Keys -> Value]
  <2>1. \A k \in Keys : state[k] \in Value
    BY <1>1 DEF Holdings, Keys, Money, Value, Contract, None
  <2> QED BY <2>1 DEF Init
<1>3. Counters
  BY <1>2 DEF Init, Counters
<1>4. LifeInv
  BY Distinct DEF Init, LifeInv, Keys
<1> QED BY <1>1, <1>3, <1>4 DEF Inv, Init

LEMMA OrderCases ==
  ASSUME NEW t \in pool, Order(t)
  PROVE  \/ Applied(t)
         \/ /\ pool' = pool \ {t}
            /\ UNCHANGED <<state, height, written, obsVars, endorsed, precommitted, panics>>
BY DEF Order, Applied

LEMMA InvStep == Inv /\ [Next]_vars => Inv'
<1> SUFFICES ASSUME Inv, [Next]_vars
             PROVE  Inv'
  OBVIOUS
<1>1. CASE UNCHANGED vars
  BY <1>1 DEF vars, obsVars, Inv, Counters, Holdings, LifeInv, Endorsable
<1>2. CASE \E t \in pool : Order(t)
  BY <1>2, OrderCases, AppliedKeeps, DroppedKeeps
<1> QED BY <1>1, <1>2, EndorseKeeps DEF Next

LEMMA Invariant == Spec => []Inv
BY InvInit, InvStep, PTL DEF Spec

(* Events, payments and statuses tell the same story, for any contracts,   *)
(* calls and payments and any number of transactions (contract.go:16-120). *)
THEOREM StoryAgrees == Spec => []LedgerAgrees
<1>1. Inv => LedgerAgrees
  <2> SUFFICES ASSUME Inv
               PROVE  LedgerAgrees
    OBVIOUS
  <2>1. CommitOnce
    BY DEF Inv, LifeInv, CommitOnce
  <2>2. ASSUME NEW c \in Contracts, Exists(c)
        PROVE  state[c].status = "Finished" <=> commits[c] = 1
    <3>1. state[c] \in {Contract("Init"), Contract("Finished")}
      BY <2>2 DEF Inv, Holdings, Exists
    <3> QED BY <3>1, Distinct DEF Inv, LifeInv
  <2> QED BY <2>1, <2>2, TypeFromInv DEF LedgerAgrees, StatusMatchesEvents
<1> QED BY <1>1, Invariant, PTL

(* A contract goes through its life in order and a deleted one does not    *)
(* come back, in whatever order endorsed transactions arrive               *)
(* (contract.go:16-120, chaincode_example02.go:161-175).                   *)
THEOREM Refinement == Spec => ImplementsContractLife
<1> DEFINE lives == [c \in Contracts |-> Life(c)]
<1>1. Init => Lives!Init
  <2> SUFFICES ASSUME Init, NEW c \in Contracts
               PROVE  Life(c) = "none"
    BY DEF Lives!Init
  <2>1. c \notin created /\ state[c] = None
    BY InvInit DEF Init, Inv, LifeInv
  <2> QED BY <2>1 DEF Life, Exists
<1>2. Inv /\ [Next]_vars => [Lives!Next]_lives
  <2> SUFFICES ASSUME Inv, [Next]_vars
               PROVE  Lives!Next \/ lives' = lives
    OBVIOUS
  <2>1. ASSUME UNCHANGED <<state, created>>
        PROVE  lives' = lives
    BY <2>1 DEF Life, Exists
  <2>2. ASSUME NEW t \in pool, Applied(t)
        PROVE  Lives!Next \/ lives' = lives
    <3>1. ASSUME NEW c \in Contracts, Untouched(c)
          PROVE  Life(c)' = Life(c)
      BY <3>1 DEF Untouched, Life, Exists
    <3>2. ASSUME NEW c \in Contracts, Life(c)' # Life(c),
                 \A d \in Contracts \ {c} : Untouched(d),
                 <<Life(c), Life(c)'>> \in Lives!Follows
          PROVE  Lives!Next
      <4>1. lives' = [lives EXCEPT ![c] = Life(c)']
        BY <3>1, <3>2
      <4>2. lives[c] = Life(c) /\ Life(c)' \in {"Init", "Finished", "deleted"}
        BY <3>2 DEF Lives!Follows
      <4> QED BY <3>2, <4>1, <4>2 DEF Lives!Next, Lives!Live
    <3>3. ASSUME NEW c \in Contracts, Deleted(c) \/ Created(c) \/ Finished(c)
          PROVE  Life(c)' = Life(c) \/ <<Life(c), Life(c)'>> \in Lives!Follows
      <4>1. state[c] \in {None, Contract("Init"), Contract("Finished")}
            /\ (c \notin created => state[c] = None)
        BY DEF Inv, Holdings, LifeInv
      <4>2. CASE Deleted(c)
        BY <4>1, <4>2, Distinct DEF Deleted, Life, Exists, Lives!Follows
      <4>3. CASE Created(c)
        BY <4>1, <4>3, Distinct DEF Created, Life, Exists, Lives!Follows
      <4>4. CASE Finished(c)
        BY <4>1, <4>4, Distinct DEF Finished, Life, Exists, Lives!Follows
      <4> QED BY <3>3, <4>2, <4>3, <4>4
    <3>4. CASE \A c \in Contracts : Untouched(c)
      BY <3>1, <3>4
    <3>5. ASSUME NEW c \in Contracts, Deleted(c) \/ Created(c) \/ Finished(c),
                 \A d \in Contracts \ {c} : Untouched(d)
          PROVE  Lives!Next \/ lives' = lives
      <4>1. CASE Life(c)' = Life(c)
        BY <3>1, <3>5, <4>1
      <4> QED BY <3>2, <3>3, <3>5, <4>1
    <3> QED BY <2>2, <3>4, <3>5, AppliedEffect
  <2>3. CASE UNCHANGED vars
    BY <2>1, <2>3 DEF vars, obsVars
  <2>4. CASE \E t \in pool : Order(t)
    BY <2>1, <2>2, <2>4, OrderCases DEF obsVars
  <2> QED BY <2>1, <2>3, <2>4, EndorseKeeps DEF Next, obsVars
<1> QED BY <1>1, <1>2, Invariant, PTL DEF Spec, ImplementsContractLife, Lives!Spec

-----------------------------------------------------------------------------
(* The sum of a function over a finite set, as the equations that the fold *)
(* of the community modules solves.                                        *)
Pick(s) == CHOOSE x \in s : TRUE

(* The equations of a sum of f over every subset of S, and what solves them. *)
Adds(g, f, S) ==
  \A s \in SUBSET S : g[s] = IF s = {} THEN 0 ELSE f[Pick(s)] + g[s \ {Pick(s)}]

Sums(g, f, S) == g \in [SUBSET S -> Int] /\ Adds(g, f, S)

(* The least number with a property.                                       *)
LEMMA Least ==
  ASSUME NEW S \in SUBSET Nat, S # {}
  PROVE  \E m \in S : \A n \in S : m <= n
<1> DEFINE R == OpToRel(<, Nat)
<1>1. PICK m \in S : \A y \in S : <<y, m>> \notin R
  <2> HIDE DEF R
  <2> QED BY WFMin, NatLessThanWellFounded DEF R
<1>2. \A y \in S : ~(y < m)
  BY <1>1 DEF OpToRel
<1> QED BY <1>2

LEMMA PickIn == ASSUME NEW s, s # {} PROVE Pick(s) \in s
BY DEF Pick

(* Removing the picked element makes a finite set smaller by one.          *)
LEMMA Smaller ==
  ASSUME NEW S, IsFiniteSet(S), NEW s \in SUBSET S, s # {}
  PROVE  /\ s \ {Pick(s)} \in SUBSET S
         /\ Cardinality(s) \in Nat \ {0}
         /\ Cardinality(s \ {Pick(s)}) = Cardinality(s) - 1
<1>1. IsFiniteSet(s)
  BY FS_Subset
<1>2. Pick(s) \in s
  BY PickIn
<1>3. Cardinality(s \ {Pick(s)}) = Cardinality(s) - 1 /\ Cardinality(s) \in Nat
  BY <1>1, <1>2, FS_RemoveElement, FS_CardinalityType
<1>4. Cardinality(s) # 0
  BY <1>1, FS_EmptySet
<1> QED BY <1>3, <1>4

(* Sums of the subsets of at most n elements exist: if not, there is a     *)
(* least n for which they do not, and those for n - 1 extend to it.        *)
SumsUpTo(g, f, S, n) ==
  /\ g \in [SUBSET S -> Int]
  /\ \A s \in SUBSET S : Cardinality(s) <= n =>
       g[s] = IF s = {} THEN 0 ELSE f[Pick(s)] + g[s \ {Pick(s)}]

LEMMA SumsExtend ==
  ASSUME NEW S, IsFiniteSet(S), NEW f \in [S -> Int], NEW n \in Nat,
         NEW g, n # 0 => SumsUpTo(g, f, S, n - 1)
  PROVE  \E h : SumsUpTo(h, f, S, n)
<1>0. \A s \in SUBSET S : Cardinality(s) \in Nat /\ (Cardinality(s) = 0 <=> s = {})
  BY FS_Subset, FS_CardinalityType, FS_EmptySet
<1>1. CASE n = 0
  <2> DEFINE h == [s \in SUBSET S |-> 0]
  <2>1. h \in [SUBSET S -> Int]
    OBVIOUS
  <2>2. \A s \in SUBSET S : Cardinality(s) <= n => s = {} /\ h[s] = 0
    BY <1>0, <1>1
  <2> HIDE DEF h
  <2> QED BY <2>1, <2>2 DEF SumsUpTo
<1>2. CASE n # 0
  <2> DEFINE h == [s \in SUBSET S |-> IF s = {} THEN 0 ELSE f[Pick(s)] + g[s \ {Pick(s)}]]
  <2>1. h \in [SUBSET S -> Int]
    <3>1. ASSUME NEW s \in SUBSET S, s # {}
          PROVE  f[Pick(s)] + g[s \ {Pick(s)}] \in Int
      <4>1. f[Pick(s)] \in Int
        BY <3>1, PickIn
      <4>2. g[s \ {Pick(s)}] \in Int
        BY <1>2 DEF SumsUpTo
      <4> QED BY <4>1, <4>2
    <3> QED BY <3>1
  <2>2. ASSUME NEW s \in SUBSET S, Cardinality(s) <= n, s # {}
        PROVE  h[s] = f[Pick(s)] + h[s \ {Pick(s)}]
    <3>1. /\ s \ {Pick(s)} \in SUBSET S /\ Cardinality(s \ {Pick(s)}) <= n - 1
      BY <1>0, <2>2, Smaller
    <3>2. h[s \ {Pick(s)}] = g[s \ {Pick(s)}]
      BY <1>2, <3>1 DEF SumsUpTo
    <3> QED BY <2>2, <3>2
  <2>3. h[{}] = 0
    OBVIOUS
  <2> HIDE DEF h
  <2> QED BY <2>1, <2>2, <2>3 DEF SumsUpTo
<1> QED BY <1>1, <1>2

LEMMA PartialSums ==
  ASSUME NEW S, IsFiniteSet(S), NEW f \in [S -> Int], NEW n \in Nat
  PROVE  \E g : SumsUpTo(g, f, S, n)
<1> DEFINE Bad == {k \in Nat : ~\E g : SumsUpTo(g, f, S, k)}
<1>1. SUFFICES ASSUME Bad # {}
               PROVE  FALSE
  OBVIOUS
<1>2. PICK m \in Bad : \A k \in Bad : m <= k
  <2>1. Bad \in SUBSET Nat
    OBVIOUS
  <2> HIDE DEF Bad
  <2> QED BY <1>1, <2>1, Least
<1>3. PICK g : m # 0 => SumsUpTo(g, f, S, m - 1)
  <2>1. CASE m # 0
    <3>1. m - 1 \in Nat /\ ~(m <= m - 1)
      BY <2>1
    <3>2. m - 1 \notin Bad
      BY <1>2, <3>1
    <3> QED BY <3>1, <3>2
  <2> QED BY <2>1
<1>4. \E h : SumsUpTo(h, f, S, m)
  BY <1>3, SumsExtend
<1> QED BY <1>4

LEMMA SumsExist ==
  ASSUME NEW S, IsFiniteSet(S), NEW f \in [S -> Int]
  PROVE  \E g : Sums(g, f, S)
<1>1. PICK n \in Nat : n = Cardinality(S)
  BY FS_CardinalityType
<1>2. PICK g : SumsUpTo(g, f, S, n)
  BY PartialSums
<1>3. \A s \in SUBSET S : Cardinality(s) <= n
  BY <1>1, FS_Subset
<1> QED BY <1>2, <1>3 DEF Sums, Adds, SumsUpTo

(* The equations of a sum have one solution.                               *)
LEMMA SumsUnique ==
  ASSUME NEW S, IsFiniteSet(S), NEW f \in [S -> Int], NEW g, Sums(g, f, S),
         NEW h, Adds(h, f, S)
  PROVE  \A s \in SUBSET S : h[s] = g[s]
<1> DEFINE Bad == {Cardinality(s) : s \in {t \in SUBSET S : h[t] # g[t]}}
<1>1. SUFFICES ASSUME Bad # {}
               PROVE  FALSE
  OBVIOUS
<1>2. \A s \in SUBSET S : Cardinality(s) \in Nat
  BY FS_Subset, FS_CardinalityType
<1>3. PICK m \in Bad : \A k \in Bad : m <= k
  <2>1. Bad \in SUBSET Nat
    BY <1>2
  <2> HIDE DEF Bad
  <2> QED BY <1>1, <2>1, Least
<1>4. PICK s \in SUBSET S : h[s] # g[s] /\ m = Cardinality(s)
  BY <1>3
<1>5. s # {}
  BY <1>4 DEF Sums, Adds
<1>6. s \ {Pick(s)} \in SUBSET S /\ Cardinality(s \ {Pick(s)}) < m
  BY <1>2, <1>4, <1>5, Smaller
<1>7. Cardinality(s \ {Pick(s)}) \notin Bad
  BY <1>2, <1>3, <1>4, <1>6
<1>8. h[s \ {Pick(s)}] = g[s \ {Pick(s)}]
  BY <1>6, <1>7
<1> QED BY <1>4, <1>5, <1>8 DEF Sums, Adds

(* Two functions that differ in two places have sums that differ by as     *)
(* much as they do there.                                                  *)
SameBut(f, g, S, p, q) == \A x \in S \ {p, q} : g[x] = f[x]

LEMMA SumsDiffer ==
  ASSUME NEW S, IsFiniteSet(S), NEW f \in [S -> Int], NEW g \in [S -> Int],
         NEW F, Sums(F, f, S), NEW G, Sums(G, g, S),
         NEW p \in S, NEW q \in S, p # q, SameBut(f, g, S, p, q)
  PROVE  G[S] - F[S] = (g[p] - f[p]) + (g[q] - f[q])
<1> DEFINE D(s, x) == IF x \in s THEN g[x] - f[x] ELSE 0
           Off(s) == G[s] # F[s] + (D(s, p) + D(s, q))
           Bad == {Cardinality(s) : s \in {t \in SUBSET S : Off(t)}}
<1>1. SUFFICES \A s \in SUBSET S : ~Off(s)
  <2>1. F[S] \in Int /\ G[S] \in Int
    BY DEF Sums, Adds
  <2> QED BY <2>1
<1>2. SUFFICES ASSUME Bad # {}
               PROVE  FALSE
  OBVIOUS
<1>3. \A s \in SUBSET S : Cardinality(s) \in Nat
  BY FS_Subset, FS_CardinalityType
<1>4. PICK m \in Bad : \A k \in Bad : m <= k
  <2>1. Bad \in SUBSET Nat
    BY <1>3
  <2> HIDE DEF Bad
  <2> QED BY <1>2, <2>1, Least
<1>5. PICK s \in SUBSET S : Off(s) /\ m = Cardinality(s)
  BY <1>4
<1>6. s # {}
  <2> SUFFICES ASSUME s = {}
               PROVE  FALSE
    OBVIOUS
  <2>1. F[s] = 0 /\ G[s] = 0
    BY DEF Sums, Adds
  <2>2. D(s, p) = 0 /\ D(s, q) = 0
    OBVIOUS
  <2> HIDE DEF D
  <2> QED BY <1>5, <2>1, <2>2
<1> DEFINE x == Pick(s)
           r == s \ {x}
<1>7. x \in s /\ r \in SUBSET S /\ Cardinality(r) < m
  BY <1>3, <1>5, <1>6, PickIn, Smaller
<1>8. G[r] = F[r] + (D(r, p) + D(r, q))
  <2>1. Cardinality(r) \in Nat /\ m \in Nat /\ ~(m <= Cardinality(r))
    BY <1>3, <1>5, <1>7
  <2>2. Cardinality(r) \notin Bad
    <3> HIDE DEF Bad
    <3> QED BY <1>4, <2>1
  <2> QED BY <1>7, <2>2
<1>9. G[s] = g[x] + G[r] /\ F[s] = f[x] + F[r]
  BY <1>6 DEF Sums, Adds
<1>10. F[r] \in Int /\ G[r] \in Int /\ g[x] \in Int /\ f[x] \in Int
  BY <1>7 DEF Sums, Adds
<1> HIDE DEF x
<1>11. D(s, p) + D(s, q) = (g[x] - f[x]) + (D(r, p) + D(r, q))
  <2>1. g[p] \in Int /\ f[p] \in Int /\ g[q] \in Int /\ f[q] \in Int
    OBVIOUS
  <2>2. CASE x = p
    BY <1>7, <2>1, <2>2
  <2>3. CASE x = q
    BY <1>7, <2>1, <2>3
  <2>4. CASE x \notin {p, q}
    BY <1>7, <1>10, <2>1, <2>4 DEF SameBut
  <2> QED BY <2>2, <2>3, <2>4
<1>12. D(r, p) \in Int /\ D(r, q) \in Int
  OBVIOUS
<1> HIDE DEF r, D
<1> QED BY <1>5, <1>8, <1>9, <1>10, <1>11, <1>12

-----------------------------------------------------------------------------
(* The total is a sum in the sense above.                                  *)
SumOf(f) == FoldFunctionOnSet(LAMBDA m, n : m + n, 0, f, Accounts)

Balances == [a \in Accounts |-> Balance(a)]

LEMMA SumOfSums ==
  ASSUME IsFiniteSet(Accounts), NEW f \in [Accounts -> Int]
  PROVE  \E g : Sums(g, f, Accounts) /\ SumOf(f) = g[Accounts]
<1> DEFINE Eqs(g) == g = [s \in SUBSET Accounts |->
                           IF s = {} THEN 0 ELSE f[Pick(s)] + g[s \ {Pick(s)}]]
           iter == CHOOSE g : Eqs(g)
<1>1. PICK g : Sums(g, f, Accounts)
  BY SumsExist
<1>2. Eqs(iter)
  <2>1. Eqs(g)
    BY <1>1 DEF Sums, Adds
  <2> HIDE DEF Eqs
  <2> QED BY <2>1
<1>3. SumOf(f) = iter[Accounts]
  BY DEF SumOf, FoldFunctionOnSet, MapThenFoldSet, Pick
<1>4. Sums(iter, f, Accounts)
  <2> HIDE DEF iter
  <2>1. iter = [s \in SUBSET Accounts |->
                 IF s = {} THEN 0 ELSE f[Pick(s)] + iter[s \ {Pick(s)}]]
    BY <1>2
  <2>2. Adds(iter, f, Accounts)
    BY <2>1 DEF Adds
  <2>3. \A s \in SUBSET Accounts : iter[s] = g[s]
    BY <1>1, <2>2, SumsUnique
  <2> QED BY <1>1, <2>1, <2>2, <2>3 DEF Sums
<1> QED BY <1>3, <1>4

(* What a sum gains when two of its terms change.                          *)
LEMMA SumOfChange ==
  ASSUME IsFiniteSet(Accounts),
         NEW f \in [Accounts -> Int], NEW g \in [Accounts -> Int],
         NEW p \in Accounts, NEW q \in Accounts, p # q,
         SameBut(f, g, Accounts, p, q)
  PROVE  SumOf(g) - SumOf(f) = (g[p] - f[p]) + (g[q] - f[q])
<1>1. PICK F : Sums(F, f, Accounts) /\ SumOf(f) = F[Accounts]
  BY SumOfSums
<1>2. PICK G : Sums(G, g, Accounts) /\ SumOf(g) = G[Accounts]
  BY SumOfSums
<1>3. G[Accounts] - F[Accounts] = (g[p] - f[p]) + (g[q] - f[q])
  <2>1. Sums(F, f, Accounts) /\ Sums(G, g, Accounts)
    BY <1>1, <1>2
  <2> QED BY <2>1, SumsDiffer, Z3
<1> QED BY <1>1, <1>2, <1>3

LEMMA SumOfInt ==
  ASSUME IsFiniteSet(Accounts), NEW f \in [Accounts -> Int]
  PROVE  SumOf(f) \in Int
<1>1. PICK F : Sums(F, f, Accounts) /\ SumOf(f) = F[Accounts]
  BY SumOfSums
<1> QED BY <1>1 DEF Sums

LEMMA TotalIsSum == Total = SumOf(Balances) /\ Total' = SumOf(Balances')
<1>1. Total = SumOf(Balances)
  BY DEF Total, SumOf, Balances
<1>2. (Total = SumOf(Balances))'
  BY <1>1, PTL
<1> QED BY <1>1, <1>2

-----------------------------------------------------------------------------
(* Wrapping an int around changes it by a multiple of its range, and such  *)
(* a multiple is zero once it is wrapped around itself.                    *)
LEMMA Remainder ==
  ASSUME NEW m \in Nat \ {0}, NEW q \in Int, NEW r \in 0..(m - 1)
  PROVE  (r + q * m) % m = r
OBVIOUS

Twice == Half + Half

LEMMA WrapAround ==
  ASSUME NEW u \in Ints, NEW v \in Ints, NEW n \in {u + v, u - v}
  PROVE  \E k \in {-1, 0, 1} : Wrap(n) - n = k * Twice
<1>1. Half \in Nat \ {0} /\ 2 * Half = Twice /\ Twice \in Nat \ {0} /\ n \in Int
  BY ChaincodeAssumption DEF Twice, Ints
<1>2. PICK k \in {-1, 0, 1} : n + Half + k * Twice \in 0..(Twice - 1)
  <2>1. n + Half + Twice \in 0..(Twice - 1) \/ n + Half \in 0..(Twice - 1)
        \/ n + Half - Twice \in 0..(Twice - 1)
    BY <1>1 DEF Twice, Ints
  <2> QED BY <1>1, <2>1
<1>3. PICK r \in 0..(Twice - 1) : r = n + Half + k * Twice
  BY <1>2
<1>4. PICK q \in Int : q = -k
  OBVIOUS
<1>5. n + Half = r + q * Twice
  BY <1>1, <1>3, <1>4
<1>6. (n + Half) % Twice = r
  BY <1>1, <1>5, Remainder
<1>7. Wrap(n) = r - Half
  BY <1>1, <1>6 DEF Wrap
<1> QED BY <1>1, <1>3, <1>7

LEMMA WrapMultiple ==
  ASSUME NEW k \in Int
  PROVE  Wrap(k * Twice) = 0
<1>1. Half \in Nat \ {0} /\ 2 * Half = Twice /\ Twice \in Nat \ {0} /\ Half \in 0..(Twice - 1)
  BY ChaincodeAssumption DEF Twice
<1>2. (Half + k * Twice) % Twice = Half
  BY <1>1, Remainder
<1>3. k * Twice + Half = Half + k * Twice
  BY <1>1
<1> QED BY <1>1, <1>2, <1>3 DEF Wrap

(* What a payment adds to one balance it takes from the other.             *)
LEMMA Balanced ==
  ASSUME NEW u \in Ints, NEW v \in Ints, NEW x \in Ints
  PROVE  Wrap((Wrap(u - x) - u) + (Wrap(v + x) - v)) = 0
<1>1. PICK j \in {-1, 0, 1} : Wrap(u - x) - (u - x) = j * Twice
  BY WrapAround
<1>2. PICK k \in {-1, 0, 1} : Wrap(v + x) - (v + x) = k * Twice
  BY WrapAround
<1>3. /\ u \in Int /\ v \in Int /\ x \in Int /\ Twice \in Int
      /\ Wrap(u - x) \in Int /\ Wrap(v + x) \in Int
  BY ChaincodeAssumption, WrapInInts DEF Ints, Twice
<1>4. PICK n \in Int : n = j + k
  OBVIOUS
<1>5. (Wrap(u - x) - u) + (Wrap(v + x) - v) = n * Twice
  BY <1>1, <1>2, <1>3, <1>4
<1> QED BY <1>5, WrapMultiple
-----------------------------------------------------------------------------
(* A transaction with an event writes no account, or it moves x units from *)
(* one account to another: it has read both, and as long as neither was    *)
(* written since, what it writes is computed from what they hold.          *)
Moves(t, from, to, x) ==
  /\ from # to /\ {from, to} \subseteq t.reads
  /\ Accounts \cap DOMAIN t.writes = {from, to}
  /\ written[from] <= t.at /\ written[to] <= t.at =>
       /\ Exists(from) /\ t.writes[from] = Amount(Wrap(Atoi(state[from]) - x))
       /\ Exists(to) /\ t.writes[to] = Amount(Wrap(Atoi(state[to]) + x))

Fair(t) ==
  t.event # "none" =>
    \/ Accounts \cap DOMAIN t.writes = {}
    \/ \E from, to \in Accounts, x \in Ints : Moves(t, from, to, x)

MoneyInv == \A t \in pool : Fair(t)

(* Nobody pays himself: doInvoke then writes the payee's balance last      *)
(* (chaincode_example02.go:141-150), and money is made.                    *)
BetweenTwo ==
  /\ \A p \in Payments : p.func = "pay" => p.from # p.to
  /\ \A c \in Contracts : Call[c].func = "pay" => Call[c].from # Call[c].to

LEMMA ProposeFair ==
  ASSUME Inv, MoneyInv, NEW reads, NEW writes, NEW event, NEW of, NEW pays,
         Propose(reads, writes, event, of, pays),
         \/ event = "none"
         \/ Accounts \cap DOMAIN writes = {}
         \/ \E from, to \in Accounts, x \in Ints :
              /\ from # to /\ {from, to} \subseteq reads
              /\ Accounts \cap DOMAIN writes = {from, to}
              /\ Exists(from) /\ writes[from] = Amount(Wrap(Atoi(state[from]) - x))
              /\ Exists(to) /\ writes[to] = Amount(Wrap(Atoi(state[to]) + x))
  PROVE  MoneyInv'
<1> DEFINE t == [reads |-> reads, at |-> height, writes |-> writes,
                 event |-> event, of |-> of, pays |-> pays]
<1>1. t.reads = reads /\ t.at = height /\ t.writes = writes /\ t.event = event
  OBVIOUS
<1>2. pool' = pool \cup {t} /\ UNCHANGED <<state, written>>
  BY DEF Propose
<1> HIDE DEF t
<1>3. Fair(t)
  BY <1>1 DEF Fair, Moves
<1>4. \A u \in pool' : Fair(u)
  BY <1>2, <1>3 DEF MoneyInv
<1> QED BY <1>2, <1>4 DEF MoneyInv, Fair, Moves, Exists

(* What doInvoke of a payment between two accounts writes.                 *)
LEMMA InvokeMoves ==
  ASSUME Inv, NEW p \in [func : Funcs, from : Accounts, to : Accounts, x : Ints],
         p.func = "pay" => p.from # p.to
  PROVE  \/ ~Succeeds(p) /\ DOMAIN InvokeWrites(p) = {}
         \/ /\ p.from # p.to /\ InvokeReads(p) = {p.from, p.to}
            /\ DOMAIN InvokeWrites(p) = {p.from, p.to}
            /\ Exists(p.from) /\ Exists(p.to)
            /\ InvokeWrites(p)[p.from] = Amount(Wrap(Atoi(state[p.from]) - p.x))
            /\ InvokeWrites(p)[p.to] = Amount(Wrap(Atoi(state[p.to]) + p.x))
<1>1. CASE Succeeds(p)
  BY <1>1 DEF Succeeds, InvokeReads, InvokeWrites
<1>2. CASE ~Succeeds(p)
  BY <1>2 DEF InvokeWrites, NoWrites
<1> QED BY <1>1, <1>2

LEMMA EndorseMoney ==
  ASSUME Inv, MoneyInv, BetweenTwo,
         \/ \E p \in Payments : EndorseInvoke(p)
         \/ \E k \in Deletable : EndorseDelete(k)
         \/ EndorseInit
         \/ \E c \in Contracts : EndorsePrecommit(c) \/ EndorseCommit(c)
  PROVE  MoneyInv'
<1>0. Accounts \cap Contracts = {}
  BY ChaincodeAssumption
<1>1. ASSUME NEW p \in Payments, EndorseInvoke(p)
      PROVE  MoneyInv'
  <2>1. /\ p \in [func : Funcs, from : Accounts, to : Accounts, x : Ints]
        /\ p.func = "pay" => p.from # p.to
    BY ChaincodeAssumption DEF BetweenTwo
  <2>2. PICK event : Propose(InvokeReads(p), InvokeWrites(p), event, {}, FALSE)
    BY <1>1 DEF EndorseInvoke
  <2>3. p.from \in Accounts /\ p.to \in Accounts /\ p.x \in Ints
    BY <2>1
  <2>4. CASE DOMAIN InvokeWrites(p) = {}
    BY <2>2, <2>4, ProposeFair
  <2>5. CASE DOMAIN InvokeWrites(p) # {}
    <3> DEFINE r == InvokeReads(p)
               w == InvokeWrites(p)
    <3>1. /\ p.from # p.to /\ r = {p.from, p.to} /\ DOMAIN w = {p.from, p.to}
          /\ Exists(p.from) /\ w[p.from] = Amount(Wrap(Atoi(state[p.from]) - p.x))
          /\ Exists(p.to) /\ w[p.to] = Amount(Wrap(Atoi(state[p.to]) + p.x))
      BY <2>1, <2>5, InvokeMoves
    <3>2. Propose(r, w, event, {}, FALSE) /\ Accounts \cap {p.from, p.to} = {p.from, p.to}
      BY <2>2, <2>3
    <3> HIDE DEF r, w
    <3>3. Accounts \cap DOMAIN w = {p.from, p.to} /\ {p.from, p.to} \subseteq r
      BY <3>1, <3>2
    <3> QED BY <2>3, <3>1, <3>2, <3>3, ProposeFair
  <2> QED BY <2>4, <2>5
<1>2. ASSUME NEW k \in Deletable, EndorseDelete(k)
      PROVE  MoneyInv'
  BY <1>2, ProposeFair DEF EndorseDelete
<1>3. ASSUME EndorseInit
      PROVE  MoneyInv'
  BY <1>3, ProposeFair DEF EndorseInit
<1>4. ASSUME NEW c \in Contracts, EndorsePrecommit(c)
      PROVE  MoneyInv'
  <2> DEFINE w == [j \in {c} |-> Contract("Init")]
  <2>1. Propose({}, w, "precommit", {c}, FALSE)
    BY <1>4 DEF EndorsePrecommit
  <2>2. Accounts \cap DOMAIN w = {}
    BY <1>0
  <2> HIDE DEF w
  <2> QED BY <2>1, <2>2, ProposeFair
<1>5. ASSUME NEW c \in Contracts, EndorseCommit(c)
      PROVE  MoneyInv'
  <2> DEFINE q == Call[c]
             w == [k \in {c} \cup DOMAIN InvokeWrites(q) |->
                    IF k = c THEN Contract("Finished") ELSE InvokeWrites(q)[k]]
  <2>1. CASE UNCHANGED <<state, written, pool>>
    BY <2>1 DEF MoneyInv, Fair, Moves, Exists
  <2>2. CASE Propose({c} \cup InvokeReads(q), w, "commit", {c}, Succeeds(q))
    <3>1. /\ q \in [func : Funcs, from : Accounts, to : Accounts, x : Ints]
          /\ q.func = "pay" => q.from # q.to
      BY ChaincodeAssumption DEF BetweenTwo
    <3>2. q.from \in Accounts /\ q.to \in Accounts /\ q.x \in Ints
      BY <3>1
    <3> HIDE DEF q
    <3>3. /\ DOMAIN w = {c} \cup DOMAIN InvokeWrites(q)
          /\ \A a \in DOMAIN InvokeWrites(q) \ {c} : w[a] = InvokeWrites(q)[a]
      OBVIOUS
    <3> HIDE DEF w
    <3>4. CASE DOMAIN InvokeWrites(q) = {}
      <4>1. Accounts \cap DOMAIN w = {}
        BY <1>0, <3>3, <3>4
      <4> QED BY <2>2, <4>1, ProposeFair
    <3>5. CASE DOMAIN InvokeWrites(q) # {}
      <4>1. /\ q.from # q.to /\ InvokeReads(q) = {q.from, q.to}
            /\ DOMAIN InvokeWrites(q) = {q.from, q.to}
            /\ Exists(q.from) /\ Exists(q.to)
            /\ InvokeWrites(q)[q.from] = Amount(Wrap(Atoi(state[q.from]) - q.x))
            /\ InvokeWrites(q)[q.to] = Amount(Wrap(Atoi(state[q.to]) + q.x))
        BY <3>1, <3>5, InvokeMoves
      <4>2. /\ Accounts \cap DOMAIN w = {q.from, q.to} /\ c \notin {q.from, q.to}
            /\ {q.from, q.to} \subseteq {c} \cup InvokeReads(q)
        BY <1>0, <3>2, <3>3, <4>1
      <4>3. /\ w[q.from] = Amount(Wrap(Atoi(state[q.from]) - q.x))
            /\ w[q.to] = Amount(Wrap(Atoi(state[q.to]) + q.x))
        BY <3>3, <4>1, <4>2
      <4> QED BY <2>2, <3>2, <4>1, <4>2, <4>3, ProposeFair
    <3> QED BY <3>4, <3>5
  <2> QED BY <1>5, <2>1, <2>2 DEF EndorseCommit
<1> QED BY <1>1, <1>2, <1>3, <1>4, <1>5

(* A valid transaction is now the last to have written its keys, and what  *)
(* a payment has read and nobody wrote is what it was.                     *)
LEMMA AppliedMoney ==
  ASSUME Inv, MoneyInv, NEW t \in pool, Applied(t)
  PROVE  MoneyInv'
<1> SUFFICES ASSUME NEW u \in pool, u # t, u.event # "none",
                    NEW from \in Accounts, NEW to \in Accounts, NEW x \in Ints,
                    Moves(u, from, to, x)
             PROVE  Moves(u, from, to, x)'
  BY DEF MoneyInv, Fair, Applied
<1>1. height \in Nat /\ u.at \in 0..height /\ from \in Keys /\ to \in Keys
  BY DEF Inv, Counters, Endorsable, Keys
<1>2. ASSUME NEW a \in {from, to}, written'[a] <= u.at
      PROVE  state'[a] = state[a] /\ written'[a] = written[a]
  BY <1>1, <1>2 DEF Applied
<1> QED BY <1>2 DEF Moves, Exists

LEMMA MoneyStep == BetweenTwo /\ Inv /\ MoneyInv /\ [Next]_vars => MoneyInv'
<1> SUFFICES ASSUME BetweenTwo, Inv, MoneyInv, [Next]_vars
             PROVE  MoneyInv'
  OBVIOUS
<1>1. ASSUME UNCHANGED <<state, written>>, pool' \subseteq pool
      PROVE  MoneyInv'
  BY <1>1 DEF MoneyInv, Fair, Moves, Exists
<1>2. CASE UNCHANGED vars
  BY <1>1, <1>2 DEF vars
<1>3. CASE \E t \in pool : Order(t)
  BY <1>1, <1>3, OrderCases, AppliedMoney
<1> QED BY <1>2, <1>3, EndorseMoney DEF Next

-----------------------------------------------------------------------------
LEMMA BalancesType == Inv => Balances \in [Accounts -> Ints]
<1> SUFFICES ASSUME Inv, NEW a \in Accounts
             PROVE  Balance(a) \in Ints
  BY DEF Balances
<1>1. state[a] \in Money /\ 0 \in Ints
  BY ChaincodeAssumption DEF Inv, Holdings, Ints
<1> QED BY <1>1 DEF Balance, Exists, Atoi, Money

LEMMA OrderConserves ==
  ASSUME IsFiniteSet(Accounts), Inv, Inv', MoneyInv,
         NEW t \in pool, t.event # "none", Applied(t)
  PROVE  Wrap(Total' - Total) = 0
<1>1. Balances \in [Accounts -> Int] /\ Balances' \in [Accounts -> Int]
  <2>1. (Inv => Balances \in [Accounts -> Ints])'
    BY BalancesType, PTL
  <2> QED BY <2>1, BalancesType, ChaincodeAssumption DEF Ints
<1>2. ASSUME NEW a \in Accounts \ DOMAIN t.writes
      PROVE  Balances'[a] = Balances[a]
  BY <1>2 DEF Applied, Balances, Balance, Exists, Keys
<1>3. Wrap(0) = 0
  BY WrapMultiple, ChaincodeAssumption DEF Twice
<1>4. CASE Accounts \cap DOMAIN t.writes = {}
  <2>1. Balances' = Balances
    BY <1>2, <1>4 DEF Balances
  <2>2. SumOf(Balances) \in Int
    BY <1>1, SumOfInt
  <2> QED BY <1>3, <2>1, <2>2, TotalIsSum
<1>5. ASSUME NEW from \in Accounts, NEW to \in Accounts, NEW x \in Ints, Moves(t, from, to, x)
      PROVE  Wrap(Total' - Total) = 0
  <2>1. written[from] <= t.at /\ written[to] <= t.at
    BY <1>5 DEF Moves, Applied, Valid
  <2>2. /\ from # to /\ Accounts \cap DOMAIN t.writes = {from, to}
        /\ Exists(from) /\ t.writes[from] = Amount(Wrap(Atoi(state[from]) - x))
        /\ Exists(to) /\ t.writes[to] = Amount(Wrap(Atoi(state[to]) + x))
    BY <1>5, <2>1 DEF Moves
  <2>3. Balances[from] = Atoi(state[from]) /\ Balances[to] = Atoi(state[to])
    BY <2>2 DEF Balances, Balance
  <2>4. state'[from] = t.writes[from] /\ state'[to] = t.writes[to]
    BY <2>2 DEF Applied, Keys
  <2>5. /\ Balances'[from] = Wrap(Atoi(state[from]) - x)
        /\ Balances'[to] = Wrap(Atoi(state[to]) + x)
    BY <2>2, <2>4, Distinct DEF Balances, Balance, Exists, Atoi
  <2>6. Total' - Total = (Balances'[from] - Balances[from]) + (Balances'[to] - Balances[to])
    <3>1. SameBut(Balances, Balances', Accounts, from, to)
      BY <1>2, <2>2 DEF SameBut
    <3> QED BY <1>1, <2>2, <3>1, TotalIsSum, SumOfChange
  <2>7. Balances[from] \in Ints /\ Balances[to] \in Ints
    BY BalancesType
  <2> QED BY <2>3, <2>5, <2>6, <2>7, Balanced
<1> QED BY <1>4, <1>5 DEF MoneyInv, Fair

(* An invoke, and the payment of a commit, moves X units from A to B:      *)
(* ordering it makes and destroys none, for any finite set of accounts,    *)
(* width of an int and number of transactions endorsed against the same    *)
(* balances, when payer and payee are two accounts                         *)
(* (chaincode_example02.go:79, 104-158).                                   *)
THEOREM MoneyConserved ==
  ASSUME IsFiniteSet(Accounts), BetweenTwo
  PROVE  Spec => Conserved
<1>1. Init => MoneyInv
  BY DEF Init, MoneyInv
<1>2. Inv /\ Inv' /\ MoneyInv /\ [Next]_vars =>
        [\A t \in pool \ pool' : t.event # "none" => Wrap(Total' - Total) = 0]_vars
  <2> SUFFICES ASSUME Inv, Inv', MoneyInv, [Next]_vars,
                      NEW t \in pool \ pool', t.event # "none"
               PROVE  Wrap(Total' - Total) = 0
    OBVIOUS
  <2>1. PICK u \in pool : Order(u)
    <3>1. ASSUME pool \subseteq pool'
          PROVE  FALSE
      BY <3>1
    <3> QED BY <3>1 DEF Next, vars, EndorseInvoke, EndorseDelete, EndorseInit, EndorsePrecommit,
                     EndorseCommit, Propose
  <2>2. u = t
    BY <2>1, OrderCases DEF Applied
  <2>3. CASE Applied(t)
    BY <2>3, OrderConserves
  <2>4. CASE UNCHANGED state
    <3>1. Balances' = Balances
      BY <2>4 DEF Balances, Balance, Exists
    <3>2. SumOf(Balances) \in Int
      BY SumOfInt, BalancesType, ChaincodeAssumption DEF Ints
    <3>3. Total' - Total = 0 * Twice
      BY <3>1, <3>2, TotalIsSum, ChaincodeAssumption DEF Twice
    <3> QED BY <3>3, WrapMultiple
  <2> QED BY <2>1, <2>2, <2>3, <2>4, OrderCases
<1>3. Spec => []MoneyInv
  <2>1. Inv /\ MoneyInv /\ [Next]_vars => MoneyInv'
    BY MoneyStep
  <2> QED BY <1>1, <2>1, Invariant, PTL DEF Spec
<1> QED BY <1>2, <1>3, Invariant, PTL DEF Spec, Conserved

=============================================================================
