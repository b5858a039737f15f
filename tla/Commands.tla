------------------------------ MODULE Commands ------------------------------
(***************************************************************************)
(* The commands of fabric-cli other than invoke and query (InvokeTasks):   *)
(* each is a process that initializes an action (action/action.go), does   *)
(* its work and terminates the action.  Users run them at the same time    *)
(* against one Network.  A call of the SDK answers, refuses, or does its   *)
(* work and loses the answer.                                              *)
(***************************************************************************)
EXTENDS Network, FiniteSets, SequencesExt

CONSTANTS
  Users,
  CommandLines,    \* what the users may run
  Networks,        \* what the network may be at first
  MaxTraverse,     \* bound: --traverse
  EventBuffer,     \* capacity of an event channel
  MaxCommands      \* bound: commands run

VARIABLES
  session,         \* the process of each user
  left             \* commands still to be run

vars == <<network, session, left>>

(* The bounds, and what the network may be at first.                       *)
ASSUME CommandsAssumption ==
  /\ MaxTraverse \in Nat /\ EventBuffer \in Nat /\ MaxCommands \in Nat
  /\ CommandLines # {}
  /\ \A n \in Networks :
       /\ n.joined \subseteq Peers /\ n.installed \in [Peers -> SUBSET Versions]
       /\ n.chain \in Seq(Blocks) /\ Len(n.chain) <= MaxBlocks

-----------------------------------------------------------------------------
(* Command lines.  urls and orgs are --peer and --orgid.                   *)
PerOrgKinds == {"install", "join"}
DefineKinds == {"instantiate", "upgrade"}
ListenKinds == {"listen", "listentx"}
ReadKinds == {"getinfo", "queryinfo", "querypeers", "querytx", "queryinstalled", "querychannels",
              "querylocalpeers"}
Kinds == PerOrgKinds \cup DefineKinds \cup ListenKinds \cup ReadKinds \cup {"create", "queryblock"}

Selected(c) == {p \in Peers : \/ c.urls = {} /\ c.orgs = {}
                              \/ p \in c.urls
                              \/ c.urls = {} /\ OrgOf[p] \in c.orgs}

InvalidURL(c) == ~ c.urls \subseteq Peers

(* A peer must be specified; exactly one URL; an organization.             *)
NeedsPeer(kind) == kind \in {"join", "instantiate", "upgrade", "getinfo"}
NeedsOneURL(kind) == kind \in {"queryinstalled", "querychannels"}

(* Commands that ask OrgID for the organization of the first peer.         *)
AsksOrgID(kind) == kind \notin PerOrgKinds

(* The policy of a definition: the one given, every organization by        *)
(* default for instantiate, and for upgrade those of --orgid.              *)
Policy(c) ==
  IF c.policy # {} THEN c.policy ELSE IF c.kind = "instantiate" THEN Orgs ELSE c.orgs

(* What the users type; an argument of --peer or --orgid may be anything.  *)
ASSUME LinesAssumption ==
  \A c \in CommandLines : c.kind \in Kinds /\ c.version \in Versions /\ c.policy \subseteq Orgs

-----------------------------------------------------------------------------
(* The process of a user.  channel, queue, next: the registration for      *)
(* events; reader: the goroutine that waits for Enter; more: blocks still  *)
(* to be traversed; defined: the definitions seen by the endorsement.      *)
(* refused is a history: the targets that were not, or did not answer that *)
(* they were, served.                                                      *)
Fresh(c) ==
  [pc |-> "init", cmd |-> c, sdk |-> "none", peers |-> {}, todo |-> {}, lastErr |-> FALSE,
   outcome |-> "none", defined |-> 0, channel |-> "none", queue |-> <<>>, next |-> 0,
   reader |-> "none", more |-> 0, printed |-> <<>>, refused |-> {}]

(* The process is gone: what is left of it is how it ended.                *)
Ended(c, sdk, outcome) == [Fresh(c) EXCEPT !.pc = "idle", !.sdk = sdk, !.outcome = outcome]

At(u, pc, kinds) == session[u].pc = pc /\ session[u].cmd.kind \in kinds
Becomes(u, s) == session' = [session EXCEPT ![u] = s]
Ends(u, outcome) == Becomes(u, [session[u] EXCEPT !.pc = "term", !.outcome = outcome])
Prints(u, printed) ==
  Becomes(u, [session[u] EXCEPT !.pc = "term", !.outcome = "ok", !.printed = printed])

TypeOK ==
  /\ NetworkTypeOK /\ left \in 0..MaxCommands
  /\ \A u \in Users : LET s == session[u] IN
       /\ s.pc \in {"init", "run", "order", "traverse", "wait", "unreg", "term", "idle"}
       /\ s.cmd \in CommandLines
       /\ s.sdk \in {"none", "open", "closed"} /\ s.channel \in {"none", "open", "closed"}
       /\ s.peers \subseteq Peers /\ s.refused \subseteq s.peers /\ s.todo \subseteq Orgs
       /\ s.lastErr \in BOOLEAN /\ s.outcome \in {"none", "ok", "error", "help", "panic"}
       /\ s.defined \in 0..MaxBlocks /\ s.next \in 0..MaxBlocks
       /\ s.reader \in {"none", "reading", "sending"} /\ s.more \in 0..MaxTraverse
       /\ Len(s.queue) <= EventBuffer
       /\ \A i \in DOMAIN s.printed : s.printed[i] \in 0..(MaxBlocks - 1)

Init ==
  /\ \E n \in Networks : joined = n.joined /\ installed = n.installed /\ chain = n.chain
  /\ session = [u \in Users |-> Ended(CHOOSE c \in CommandLines : TRUE, "none", "none")]
  /\ left = MaxCommands

Start(u) ==
  /\ session[u].pc = "idle" /\ left > 0
  /\ left' = left - 1
  /\ \E c \in CommandLines : session' = [session EXCEPT ![u] = Fresh(c)]
  /\ UNCHANGED network

-----------------------------------------------------------------------------
(* Action.Initialize and what a command checks after it.  An early return  *)
(* leaves the SDK open: the deferred Terminate comes later.                *)
NotInitialized(u) ==
  /\ session[u].pc = "init"
  /\ \E sdk \in {"none", "open"} :
       Becomes(u, [session[u] EXCEPT !.pc = "idle", !.outcome = "error", !.sdk = sdk])
  /\ UNCHANGED <<network, left>>

Rejected(c) == InvalidURL(c) \/ (NeedsPeer(c.kind) /\ Selected(c) = {})

WantsHelp(c) ==
  \/ NeedsOneURL(c.kind) /\ Cardinality(c.urls) # 1
  \/ c.kind = "querylocalpeers" /\ c.orgs = {}

Initialize(u) ==
  LET c == session[u].cmd IN
  /\ session[u].pc = "init"
  /\ IF Rejected(c)
     THEN Becomes(u, [session[u] EXCEPT !.pc = "idle", !.outcome = "error", !.sdk = "open"])
     ELSE IF WantsHelp(c)
     THEN Becomes(u, [session[u] EXCEPT !.pc = IF c.kind = "queryinstalled" THEN "idle" ELSE "term",
                                        !.outcome = "help", !.sdk = "open"])
     ELSE Becomes(u, [session[u] EXCEPT !.pc = "run", !.sdk = "open", !.peers = Selected(c),
                                        !.todo = {OrgOf[p] : p \in Selected(c)}])
  /\ UNCHANGED <<network, left>>

(* OrgID panics when there is no first peer; Terminate is deferred.        *)
NoOrgID(u) ==
  /\ session[u].pc = "run" /\ AsksOrgID(session[u].cmd.kind) /\ session[u].peers = {}
  /\ Ends(u, "panic")
  /\ UNCHANGED <<network, left>>

(* No user, no client, no orderer, a file or an argument that cannot be    *)
(* read, a call that is refused.                                           *)
Fails(u) ==
  /\ session[u].pc = "run" /\ session[u].peers # {} /\ AsksOrgID(session[u].cmd.kind)
  /\ Ends(u, "error")
  /\ UNCHANGED <<network, left>>

-----------------------------------------------------------------------------
(* install and join: one request per organization, in any order; the error *)
(* of one does not keep the others from being tried.                       *)

(* Mutant: the last answer decides.                                        *)
ErrorAfterLast(earlier, refused) == refused # {}

ErrorAfter(earlier, refused) == earlier \/ refused # {}

PeersByOrg(o, peers) == {p \in peers : OrgOf[p] = o}

ForOrg(u) ==
  /\ At(u, "run", PerOrgKinds)
  /\ \E o \in session[u].todo :
       LET targets == PeersByOrg(o, session[u].peers) IN
       \E no \in SUBSET targets, lost \in SUBSET targets :
         LET done == targets \ (no \ lost) IN
         /\ lost \subseteq no
         /\ IF session[u].cmd.kind = "join" THEN Joins(done)
            ELSE Installs(done, session[u].cmd.version)
         /\ Becomes(u, [session[u] EXCEPT !.todo = @ \ {o}, !.refused = @ \cup no,
                                          !.lastErr = ErrorAfter(@, no)])
  /\ UNCHANGED left

AllOrgs(u) ==
  /\ At(u, "run", PerOrgKinds) /\ session[u].todo = {}
  /\ Ends(u, IF session[u].lastErr THEN "error" ELSE "ok")
  /\ UNCHANGED <<network, left>>

(* create: a configuration block; the answer may be lost.                  *)
Create(u) ==
  /\ At(u, "run", {"create"}) /\ session[u].peers # {}
  /\ Append1(Config)
  /\ \E outcome \in {"ok", "error"} : Ends(u, outcome)
  /\ UNCHANGED <<joined, installed, left>>

-----------------------------------------------------------------------------
(* instantiate asks the first peer, upgrade all of them; the proposal is   *)
(* refused when the chaincode exists, or does not, or is the same.         *)
Targets(u) ==
  IF session[u].cmd.kind = "instantiate" THEN {{p} : p \in session[u].peers} ELSE {session[u].peers}

Refusal(c, targets) ==
  IF ~ \A p \in targets : Endorses(p, c.version) THEN "endorsement"
  ELSE IF c.kind = "instantiate" /\ Current # None THEN "exists"
  ELSE IF c.kind = "upgrade" /\ Current \in {None, c.version} THEN "version"
  ELSE IF c.kind = "upgrade" /\ c.policy = {} /\ ~ c.orgs \subseteq Orgs THEN "organization"
  ELSE "none"

Ignored(refusal) == refusal = "exists"

Endorse(u) ==
  /\ At(u, "run", DefineKinds) /\ session[u].peers # {}
  /\ \E targets \in Targets(u) :
       LET refusal == Refusal(session[u].cmd, targets) IN
       IF refusal = "none"
       THEN Becomes(u, [session[u] EXCEPT !.pc = "order", !.defined = LastDefinition])
       ELSE Ends(u, IF Ignored(refusal) THEN "ok" ELSE "error")
  /\ UNCHANGED <<network, left>>

(* The transaction is valid if the chaincode is as its endorsement saw it. *)
Order(u) ==
  LET c == session[u].cmd
      definition == [version |-> c.version, policy |-> Policy(c)] IN
  /\ session[u].pc = "order"
  /\ \/ /\ session[u].defined = LastDefinition /\ Append1(definition)
        /\ \E outcome \in {"ok", "error"} : Ends(u, outcome)
     \/ UNCHANGED chain /\ Ends(u, "error")
  /\ UNCHANGED <<joined, installed, left>>

-----------------------------------------------------------------------------
(* Readings: an answer is printed, and nothing changes.                    *)
Read(u, kind) == At(u, "run", {kind}) /\ Ends(u, "ok") /\ UNCHANGED <<network, left>>

GetInfo(u) == Current # None /\ Read(u, "getinfo")
QueryInstalled(u) == session[u].cmd.urls \subseteq session[u].peers /\ Read(u, "queryinstalled")
QueryChannels(u) == session[u].cmd.urls \subseteq session[u].peers /\ Read(u, "querychannels")
QueryInfo(u) == session[u].peers # {} /\ Created /\ Read(u, "queryinfo")
QueryTx(u) == session[u].peers # {} /\ Created /\ Read(u, "querytx")
QueryPeers(u) == session[u].peers # {} /\ Created /\ Read(u, "querypeers")
QueryLocalPeers(u) == session[u].peers # {} /\ Read(u, "querylocalpeers")

(* query block: a block, then --traverse - 1 of its predecessors.  The     *)
(* first block has none: its hash is not found, and the error is ignored,  *)
(* like any other.                                                         *)
QueryBlock(u) ==
  /\ At(u, "run", {"queryblock"}) /\ session[u].peers # {} /\ Created
  /\ \E n \in 0..(Len(chain) - 1), k \in 0..MaxTraverse :
       IF k <= 1 THEN Prints(u, <<n>>)
       ELSE Becomes(u, [session[u] EXCEPT !.pc = "traverse", !.more = k - 1, !.printed = <<n>>])
  /\ UNCHANGED <<network, left>>

(* Mutant: each step starts at the first block.                            *)
PredecessorOfFirst(printed) == Head(printed) - 1
Predecessor(printed) == Last(printed) - 1

Traverse(u) ==
  LET s == session[u] IN
  /\ s.pc = "traverse"
  /\ \/ Ends(u, "ok")
     \/ /\ Predecessor(s.printed) >= 0
        /\ LET printed == Append(s.printed, Predecessor(s.printed)) IN
           IF s.more = 1 \/ Last(printed) = 0 THEN Prints(u, printed)
           ELSE Becomes(u, [s EXCEPT !.more = @ - 1, !.printed = printed])
  /\ UNCHANGED <<network, left>>

-----------------------------------------------------------------------------
(* Listeners: events from some block on; Enter is read by a goroutine.     *)
Register(u) ==
  /\ At(u, "run", ListenKinds) /\ session[u].peers # {}
  /\ \E n \in 0..Len(chain) :
       Becomes(u, [session[u] EXCEPT !.pc = "wait", !.channel = "open", !.next = n,
                                     !.reader = "reading"])
  /\ UNCHANGED <<network, left>>

(* The event service drops what a full channel does not take.              *)
Deliver(u) ==
  LET s == session[u] IN
  /\ s.channel = "open" /\ s.next < Len(chain)
  /\ Becomes(u, [s EXCEPT !.next = @ + 1,
                          !.queue = IF Len(@) < EventBuffer THEN Append(@, s.next) ELSE @])
  /\ UNCHANGED <<network, left>>

CloseChannel(u) ==
  /\ session[u].channel = "open"
  /\ Becomes(u, [session[u] EXCEPT !.channel = "closed"])
  /\ UNCHANGED <<network, left>>

PressEnter(u) ==
  /\ session[u].reader = "reading"
  /\ Becomes(u, [session[u] EXCEPT !.reader = "sending"])
  /\ UNCHANGED <<network, left>>

NextEvent(u) ==
  [session[u] EXCEPT !.queue = Tail(@), !.printed = Append(@, Head(session[u].queue))]

TakeEvent(u) ==
  /\ At(u, "wait", {"listen"}) /\ session[u].queue # <<>>
  /\ Becomes(u, NextEvent(u))
  /\ UNCHANGED <<network, left>>

(* The status of one transaction is the end of listentx.                   *)
TakeTx(u) ==
  /\ At(u, "wait", {"listentx"}) /\ session[u].queue # <<>>
  /\ Becomes(u, [NextEvent(u) EXCEPT !.pc = "unreg", !.outcome = "ok"])
  /\ UNCHANGED <<network, left>>

TakeEnter(u) ==
  /\ session[u].pc = "wait" /\ session[u].reader = "sending"
  /\ Becomes(u, [session[u] EXCEPT !.pc = "unreg", !.outcome = "ok", !.reader = "none"])
  /\ UNCHANGED <<network, left>>

(* The error that would be wrapped is nil, so the answer is nil.           *)

(* Mutant: the loop goes on when the channel is closed.                    *)
TakeClosedAgain(u) ==
  /\ session[u].pc = "wait" /\ session[u].queue = <<>> /\ session[u].channel = "closed"
  /\ UNCHANGED vars
TakeClosed(u) ==
  /\ session[u].pc = "wait" /\ session[u].queue = <<>> /\ session[u].channel = "closed"
  /\ Becomes(u, [session[u] EXCEPT !.pc = "unreg", !.outcome = "ok"])
  /\ UNCHANGED <<network, left>>

Unregister(u) ==
  /\ session[u].pc = "unreg"
  /\ Becomes(u, [session[u] EXCEPT !.pc = "term", !.channel = "none", !.queue = <<>>])
  /\ UNCHANGED <<network, left>>

(* Terminate, then the process ends and the reader with it.                *)

(* Mutant: Terminate is deferred after Unregister, and so runs first.      *)
TerminatingEarly == {"term", "unreg"}
Terminating == {"term"}

Terminate(u) ==
  /\ session[u].pc \in Terminating
  /\ Becomes(u, [Ended(session[u].cmd, "closed", session[u].outcome)
                   EXCEPT !.channel = session[u].channel])
  /\ UNCHANGED <<network, left>>

-----------------------------------------------------------------------------
Begin(u) == NotInitialized(u) \/ Initialize(u)
Work(u) ==
  \/ NoOrgID(u) \/ Fails(u) \/ ForOrg(u) \/ AllOrgs(u) \/ Create(u) \/ Endorse(u) \/ Order(u)
  \/ GetInfo(u) \/ QueryInstalled(u) \/ QueryChannels(u) \/ QueryInfo(u) \/ QueryTx(u)
  \/ QueryPeers(u) \/ QueryLocalPeers(u) \/ QueryBlock(u) \/ Traverse(u)
Listen(u) ==
  Register(u) \/ TakeEvent(u) \/ TakeTx(u) \/ TakeEnter(u) \/ TakeClosed(u) \/ Unregister(u)
Process(u) == Begin(u) \/ Work(u) \/ Listen(u) \/ Terminate(u)
Outside(u) == Start(u) \/ Deliver(u) \/ CloseChannel(u) \/ PressEnter(u)

Next == \E u \in Users : Process(u) \/ Outside(u)

Spec == Init /\ [][Next]_vars

(* Every call of the SDK answers or times out, so a process goes on; no    *)
(* user has to press Enter and no connection has to break.                 *)
Fairness == \A u \in Users : WF_vars(Process(u))
LiveSpec == Spec /\ Fairness

-----------------------------------------------------------------------------
(* What an installation or a join reports is true of the whole selection:  *)
(* every peer that answered is served, although another organization was   *)
(* refused before it, and the command reports an error exactly if one was  *)
(* refused (installcmd.go:75, channeljoincmd.go:73).                       *)
Served(u, p) ==
  IF session[u].cmd.kind = "join" THEN p \in joined
  ELSE session[u].cmd.version \in installed[p]

Reported ==
  \A u \in Users : At(u, "term", PerOrgKinds) /\ session[u].outcome \in {"ok", "error"} =>
    /\ \A p \in session[u].peers \ session[u].refused : Served(u, p)
    /\ session[u].outcome = "error" <=> session[u].refused # {}

(* A definition that is reported is on the channel: the one of an upgrade  *)
(* as it was asked for, that of an instantiate in some version, which may  *)
(* be another user's (instantiatecmd.go:126, upgradecmd.go:124).           *)
Deployed ==
  \A u \in Users : session[u].outcome = "ok" =>
    /\ At(u, "term", {"instantiate"}) => Current # None
    /\ At(u, "term", {"upgrade"}) =>
         \E i \in DOMAIN chain : /\ chain[i].version = session[u].cmd.version
                                 /\ chain[i].policy = Policy(session[u].cmd)

(* A listener prints each block at most once and in the order of the       *)
(* channel; a traversal prints a block and its predecessors, none left     *)
(* out, while the channel grows (queryblockcmd.go:98, listenblockcmd.go).  *)
PrintedInOrder ==
  \A u \in Users : LET s == session[u] IN
    \A i \in 1..(Len(s.printed) - 1) :
      IF s.cmd.kind = "queryblock" THEN s.printed[i + 1] = s.printed[i] - 1
      ELSE s.printed[i] < s.printed[i + 1]

(* The panic of OrgID, which "shouldn't happen since we should already     *)
(* have passed validation" (action.go:398), happens for organizations none *)
(* of which is known, and for nothing else.                                *)
PanicOnlyUnknownOrg ==
  \A u \in Users : LET c == session[u].cmd IN
    session[u].outcome = "panic" => c.urls = {} /\ c.orgs # {} /\ c.orgs \cap Orgs = {}

(* What a command ends with is what happened on the network: a success, an *)
(* error and a panic alike (installcmd.go:75, instantiatecmd.go:126,       *)
(* action.go:398).                                                         *)
OutcomesTrue == TypeOK /\ Reported /\ Deployed /\ PanicOnlyUnknownOrg

(* The SDK is closed after the registration that uses it is given up, and  *)
(* is closed when a command is done or has panicked: deferred calls run in *)
(* reverse order, and when the command panics too (action.go:167,          *)
(* listenblockcmd.go:72).  Of a command that ended with an error nothing   *)
(* is said: one that failed while it was initialized leaves the SDK open.  *)
SdkClosedLast ==
  \A u \in Users : LET s == session[u] IN
    /\ s.channel # "none" => s.sdk = "open"
    /\ s.pc = "idle" /\ s.outcome \in {"ok", "panic"} => s.sdk = "closed" /\ s.channel = "none"

(* A command ends, or is a listener that waits: nobody pressed Enter and   *)
(* its channel is open.  Events that go on arriving, or that nobody reads, *)
(* do not keep it from ending (inputevent.go:24, listenblockcmd.go:75).    *)
(* The bound on blocks bounds the events too: what goes on here is at most *)
(* as many events as blocks.                                               *)
Waits(u) ==
  At(u, "wait", ListenKinds) /\ session[u].reader = "reading" /\ session[u].channel = "open"

CommandEnds == \A u \in Users : []<>(session[u].pc = "idle" \/ Waits(u))

=============================================================================
