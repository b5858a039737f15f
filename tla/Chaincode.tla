----------------------------- MODULE Chaincode -----------------------------
(***************************************************************************)
(* The chaincode (chaincode/chaincode_example02/go) on a Fabric ledger.    *)
(* An invocation is simulated by a peer against the committed state and    *)
(* yields a read set and a write set; later, in any order, the endorsed    *)
(* transaction is ordered, and it is valid only if nothing it read was     *)
(* written in between (Order).  The ledger is external: its rules are      *)
(* those of the shim calls the chaincode makes.                            *)
(*                                                                         *)
(* created, commits, paid and panics are observations.                     *)
(***************************************************************************)
EXTENDS Integers, FiniteSets, Functions, ContractLib

CONSTANTS
  Accounts, Contracts,   \* keys of the ledger, disjoint
  Call,                  \* the call each contract holds: [func, from, to, x]
  Payments,              \* the arguments of invoke: [func, from, to, x]
  Initial,               \* Init's amount of each account it is given
  Deletable,             \* the keys somebody may delete
  Half,                  \* an int holds -Half .. Half - 1
  MaxTxs,                \* bound: transactions endorsed
  Upgrades               \* Init may be called again, by an upgrade

Keys == Accounts \cup Contracts

(* "pay" is a well-formed invoke; "notInteger" one whose amount does not   *)
(* parse; "undefined" anything doCommit or doInvoke refuses on sight.      *)
Funcs == {"pay", "notInteger", "undefined"}

Ints == (-Half)..(Half - 1)

ASSUME ChaincodeAssumption ==
  /\ Accounts \cap Contracts = {}
  /\ Half \in Nat \ {0}
  /\ Call \in [Contracts -> [func : Funcs, from : Accounts, to : Accounts, x : Ints]]
  /\ Payments \subseteq [func : Funcs, from : Accounts, to : Accounts, x : Ints]
  /\ \E S \in SUBSET Accounts : Initial \in [S -> Ints]
  /\ Deletable \subseteq Keys
  /\ MaxTxs \in Nat /\ Upgrades \in BOOLEAN

None == [type |-> "none"]
Amount(n) == [type |-> "amount", n |-> n]
Contract(s) == [type |-> "contract", status |-> s]

Value == {None} \cup [type : {"amount"}, n : Ints]
           \cup [type : {"contract"}, status : {"Init", "Finished"}]

(* int arithmetic wraps around.                                            *)
Wrap(n) == ((n + Half) % (2 * Half)) - Half

VARIABLES
  state,          \* the committed value of every key
  height,         \* valid transactions so far
  written,        \* the height at which each key was last written
  pool,           \* endorsed, not yet ordered
  endorsed,       \* how many there ever were
  precommitted,   \* contracts whose precommit was endorsed: their ID is known
  created, commits, paid, panics

obsVars == <<created, commits, paid>>
vars == <<state, height, written, pool, endorsed, precommitted, obsVars, panics>>

Writes == UNION {[S -> Value] : S \in SUBSET Keys}

TypeOK ==
  /\ state \in [Keys -> Value]
  /\ height \in Nat /\ written \in [Keys -> 0..height] /\ endorsed \in Nat
  /\ \A t \in pool :
       /\ t.reads \subseteq Keys /\ t.at \in 0..height
       /\ DOMAIN t.writes \subseteq Keys
       /\ \A k \in DOMAIN t.writes : t.writes[k] \in Value
       /\ t.event \in {"none", "evtTransfer", "precommit", "commit"}
       /\ t.of \subseteq Contracts /\ t.pays \in BOOLEAN
  /\ precommitted \subseteq Contracts /\ created \subseteq Contracts
  /\ commits \in [Contracts -> Nat] /\ paid \in [Contracts -> Nat]
  /\ panics \subseteq {"absent", "finished"}

Init ==
  /\ state = [k \in Keys |-> IF k \in DOMAIN Initial THEN Amount(Initial[k]) ELSE None]
  /\ height = 0 /\ written = [k \in Keys |-> 0]
  /\ pool = {} /\ endorsed = 0
  /\ precommitted = {} /\ created = {} /\ panics = {}
  /\ commits = [c \in Contracts |-> 0] /\ paid = [c \in Contracts |-> 0]

-----------------------------------------------------------------------------
NoWrites == [k \in {} |-> None]

Atoi(v) == v.n

Exists(k) == state[k] # None

(* doInvoke reads both balances before it writes either one, so when A and *)
(* B are the same account the second write is the one that stays.          *)
Succeeds(p) == p.func = "pay" /\ Exists(p.from) /\ Exists(p.to)

(* Mutant: the balance of the payee is not read.                           *)
ReadsPayerOnly(p) == IF p.func = "undefined" THEN {} ELSE {p.from}

InvokeReads(p) ==
  CASE p.func = "undefined"                        -> {}
    [] p.func # "undefined" /\ ~Exists(p.from)     -> {p.from}
    [] p.func # "undefined" /\ Exists(p.from)      -> {p.from, p.to}

InvokeWrites(p) ==
  IF Succeeds(p)
    THEN [k \in {p.from, p.to} |->
           IF k = p.to THEN Amount(Wrap(Atoi(state[p.to]) + p.x))
                       ELSE Amount(Wrap(Atoi(state[p.from]) - p.x))]
    ELSE NoWrites

Propose(reads, writes, event, of, pays) ==
  /\ endorsed < MaxTxs
  /\ endorsed' = endorsed + 1
  /\ pool' = pool \cup {[reads |-> reads, at |-> height, writes |-> writes,
                         event |-> event, of |-> of, pays |-> pays]}
  /\ UNCHANGED <<state, height, written, obsVars>>

(* invoke drops the error of doInvoke and answers Success: a payment that  *)
(* fails is endorsed with nothing to write.                                *)
EndorseInvoke(p) ==
  /\ Propose(InvokeReads(p), InvokeWrites(p),
             IF Succeeds(p) THEN "evtTransfer" ELSE "none", {}, FALSE)
  /\ UNCHANGED <<precommitted, panics>>

EndorseDelete(k) ==
  /\ k \in Contracts => k \in precommitted
  /\ Propose({}, [j \in {k} |-> None], "none", {}, FALSE)
  /\ UNCHANGED <<precommitted, panics>>

EndorseInit ==
  /\ Upgrades
  /\ Propose({}, [a \in DOMAIN Initial |-> Amount(Initial[a])], "none", {}, FALSE)
  /\ UNCHANGED <<precommitted, panics>>

(* Mutant: the contract ID does not depend on the transaction ID.          *)
PrecommitReusesID(c) ==
  /\ Propose({}, [j \in {c} |-> Contract("Init")], "precommit", {c}, FALSE)
  /\ precommitted' = precommitted \cup {c}
  /\ UNCHANGED panics

(* The contract ID is a hash over the transaction ID: it is always fresh.  *)
EndorsePrecommit(c) ==
  /\ c \notin precommitted
  /\ Propose({}, [j \in {c} |-> Contract("Init")], "precommit", {c}, FALSE)
  /\ precommitted' = precommitted \cup {c}
  /\ UNCHANGED panics

(* Mutant: commit does not read the contract.                              *)
CommitBlind(c) ==
  /\ Exists(c) /\ IsPrecommit(state[c].status)
  /\ Propose(InvokeReads(Call[c]),
             [k \in {c} \cup DOMAIN InvokeWrites(Call[c]) |->
               IF k = c THEN Contract("Finished") ELSE InvokeWrites(Call[c])[k]],
             "commit", {c}, Succeeds(Call[c]))
  /\ UNCHANGED <<precommitted, panics>>

(* commit builds its error and success answers without returning them.     *)
(* With no contract, or with a finished one, it runs on into a nil pointer *)
(* and panics; with a call that fails it finishes the contract all the     *)
(* same.  The commit event replaces the evtTransfer event of doInvoke.     *)
EndorseCommit(c) ==
  \/ /\ Exists(c) /\ IsPrecommit(state[c].status)
     /\ Propose({c} \cup InvokeReads(Call[c]),
                [k \in {c} \cup DOMAIN InvokeWrites(Call[c]) |->
                  IF k = c THEN Contract("Finished") ELSE InvokeWrites(Call[c])[k]],
                "commit", {c}, Succeeds(Call[c]))
     /\ UNCHANGED <<precommitted, panics>>
  \/ /\ Exists(c) => IsCommit(state[c].status)
     /\ panics' = panics \cup {IF Exists(c) THEN "finished" ELSE "absent"}
     /\ UNCHANGED <<state, height, written, pool, endorsed, precommitted, obsVars>>

-----------------------------------------------------------------------------
Valid(t) == \A k \in t.reads : written[k] <= t.at

Order(t) ==
  /\ pool' = pool \ {t}
  /\ \/ /\ Valid(t)
        /\ height' = height + 1
        /\ state' = [k \in Keys |-> IF k \in DOMAIN t.writes THEN t.writes[k] ELSE state[k]]
        /\ written' = [k \in Keys |-> IF k \in DOMAIN t.writes THEN height + 1 ELSE written[k]]
        /\ created' = IF t.event = "precommit" THEN created \cup t.of ELSE created
        /\ commits' = [c \in Contracts |-> IF t.event = "commit" /\ c \in t.of
                                             THEN commits[c] + 1 ELSE commits[c]]
        /\ paid' = [c \in Contracts |-> IF t.pays /\ c \in t.of THEN paid[c] + 1 ELSE paid[c]]
     \/ /\ ~Valid(t)
        /\ UNCHANGED <<state, height, written, obsVars>>
  /\ UNCHANGED <<endorsed, precommitted, panics>>

Next ==
  \/ \E p \in Payments : EndorseInvoke(p)
  \/ \E k \in Deletable : EndorseDelete(k)
  \/ EndorseInit
  \/ \E c \in Contracts : EndorsePrecommit(c) \/ EndorseCommit(c)
  \/ \E t \in pool : Order(t)

Spec == Init /\ [][Next]_vars

-----------------------------------------------------------------------------
(* However often and however concurrently commit is invoked, a contract    *)
(* emits one commit event and its payment is made once: the courier        *)
(* replays every receipt (txmanager.go:272) and relies on it               *)
(* (contract.go:61-120).                                                   *)
CommitOnce == \A c \in Contracts : commits[c] <= 1 /\ paid[c] <= commits[c]

(* The life of a contract, as the precommit events and the ledger show it. *)
Life(c) ==
  CASE Exists(c)                          -> state[c].status
    [] ~Exists(c) /\ c \notin created     -> "none"
    [] ~Exists(c) /\ c \in created        -> "deleted"

(* A contract goes through its life in order, one step at a time, and a    *)
(* deleted one does not come back, whichever endorsed transactions are     *)
(* ordered late (contract.go:16-120, chaincode_example02.go:161-175).      *)
Lives == INSTANCE ContractLife WITH life <- [c \in Contracts |-> Life(c)]
ImplementsContractLife == Lives!Spec

(* A contract that was committed is never at Init again, and one that was  *)
(* not is never Finished: the status on the ledger agrees with the commit  *)
(* events the courier acts on (contract.go:90-118).                        *)
StatusMatchesEvents ==
  \A c \in Contracts :
    Exists(c) => (state[c].status = "Finished" <=> commits[c] = 1)

(* Events, payments and statuses tell the same story (contract.go:16-120). *)
LedgerAgrees == TypeOK /\ CommitOnce /\ StatusMatchesEvents

Balance(a) == IF Exists(a) THEN Atoi(state[a]) ELSE 0

Total == FoldFunctionOnSet(LAMBDA m, n : m + n, 0, [a \in Accounts |-> Balance(a)], Accounts)

(* chaincode_example02.go:79, 96: an invoke, and the payment of a commit,  *)
(* moves X units from A to B; ordering it makes and destroys none, whatever *)
(* was endorsed against the same balances and wherever an int wraps around. *)
(* (A transaction without event is an upgrade, a delete or writes nothing.) *)
Conserved ==
  [][\A t \in pool \ pool' : t.event # "none" => Wrap(Total' - Total) = 0]_vars

=============================================================================
