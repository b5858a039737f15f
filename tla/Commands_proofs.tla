-------------------------- MODULE Commands_proofs --------------------------
(***************************************************************************)
(* The commands of fabric-cli: what they end with is true of the network,  *)
(* what they print is in order, and the SDK is closed last, for any users, *)
(* command lines, network and bounds; and the documents they print close   *)
(* what they open and can be read as JSON, for any data whose values need  *)
(* no escape and any bounds.                                               *)
(*                                                                         *)
(* The invariant of the commands is a conjunction over the users of what a *)
(* process knows of itself (OwnInv) and of what it relies on in the        *)
(* network (NetInv).  The first is preserved by its own steps only; the    *)
(* second, by the steps of the others because the network only grows       *)
(* (Grows).  That of the printers says that what is left to print leads    *)
(* from where a document is to where it ends (PrinterInv).                 *)
(***************************************************************************)
EXTENDS Commands, Printer, Integers, WellFoundedInduction, SequenceTheorems, TLAPS

Pcs == {"init", "run", "order", "traverse", "wait", "unreg", "term", "idle"}
Working == {"run", "order", "traverse", "wait", "unreg"}

Sessions ==
  [pc : Pcs, cmd : CommandLines, sdk : {"none", "open", "closed"}, peers : SUBSET Peers,
   todo : SUBSET Orgs, lastErr : BOOLEAN, outcome : {"none", "ok", "error", "help", "panic"},
   defined : 0..MaxBlocks, channel : {"none", "open", "closed"}, queue : Seq(0..(MaxBlocks - 1)),
   next : 0..MaxBlocks, reader : {"none", "reading", "sending"}, more : 0..MaxTraverse,
   printed : Seq(0..(MaxBlocks - 1)), refused : SUBSET Peers]

(* Where a command of its kind can be, and with what.                      *)
KindInv(s) ==
  /\ s.pc = "init" => s.refused = {} /\ s.lastErr = FALSE
  /\ s.pc = "order" => s.cmd.kind \in DefineKinds /\ Policy(s.cmd) \subseteq Orgs
  /\ s.pc = "traverse" => s.cmd.kind = "queryblock" /\ s.printed # <<>> /\ s.more >= 1
  /\ s.pc \in {"wait", "unreg"} => s.cmd.kind \in ListenKinds
  /\ s.pc \in Working => s.peers = Selected(s.cmd) /\ ~InvalidURL(s.cmd) /\ s.sdk = "open"
  /\ s.refused \subseteq s.peers
  /\ Len(s.queue) <= EventBuffer

(* The SDK: a registration lasts from "wait" to "unreg".                   *)
SdkInv(s) ==
  /\ s.channel # "none" => s.pc \in {"wait", "unreg"}
  /\ s.pc = "term" /\ s.outcome # "help" => s.sdk = "open"
  /\ s.pc = "idle" /\ s.outcome \in {"ok", "panic"} => s.sdk = "closed"
  /\ s.pc \in {"init", "run", "order", "traverse", "wait"} => s.outcome = "none"
  /\ s.pc = "unreg" => s.outcome = "ok"

(* Events: what is printed, and then what is queued, ascends up to next.   *)
PrintInv(s) ==
  /\ s.pc \in {"init", "run", "order", "idle"} => s.printed = <<>>
  /\ s.printed # <<>> => s.cmd.kind \in ListenKinds \cup {"queryblock"}
  /\ s.pc \notin {"wait", "unreg"} => s.queue = <<>>
  /\ s.cmd.kind = "queryblock" =>
       \A i \in 1..(Len(s.printed) - 1) : s.printed[i + 1] = s.printed[i] - 1
  /\ s.cmd.kind # "queryblock" =>
       \A i \in 1..(Len(s.printed) - 1) : s.printed[i] < s.printed[i + 1]

EventsInOrder(printed, queue, next) ==
  /\ \A i, j \in 1..Len(queue) : i < j => queue[i] < queue[j]
  /\ \A i \in 1..Len(printed), j \in 1..Len(queue) : printed[i] < queue[j]
  /\ \A i \in 1..Len(printed) : printed[i] < next
  /\ \A j \in 1..Len(queue) : queue[j] < next

QueueInv(s) == s.pc = "wait" => EventsInOrder(s.printed, s.queue, s.next)

(* An organization was asked for, and none of those is known.              *)
PanicInv(s) ==
  s.outcome = "panic" => s.cmd.urls = {} /\ s.cmd.orgs # {} /\ s.cmd.orgs \cap Orgs = {}

OwnInv(s) ==
  s \in Sessions /\ KindInv(s) /\ SdkInv(s) /\ PrintInv(s) /\ QueueInv(s) /\ PanicInv(s)

(* What was asked of the peers and not refused is on them; what is         *)
(* reported as defined is on the channel; events come from the channel.    *)
ServedIn(s, p) ==
  IF s.cmd.kind = "join" THEN p \in joined ELSE s.cmd.version \in installed[p]

OnChannel(c) ==
  \E i \in 1..Len(chain) : chain[i].version = c.version /\ chain[i].policy = Policy(c)

NetInv(s) ==
  /\ s.cmd.kind \in PerOrgKinds /\ s.pc \in {"run", "term"} =>
       /\ \A p \in s.peers \ s.refused : OrgOf[p] \notin s.todo => ServedIn(s, p)
       /\ s.pc = "run" => (s.lastErr <=> s.refused # {})
       /\ s.pc = "term" => s.todo = {} /\ (s.outcome = "error" <=> s.refused # {})
  /\ s.pc = "term" /\ s.outcome = "ok" =>
       /\ s.cmd.kind = "instantiate" => Definitions # {}
       /\ s.cmd.kind = "upgrade" => OnChannel(s.cmd)

CommandInv ==
  /\ NetworkTypeOK /\ left \in 0..MaxCommands
  /\ session \in [Users -> Sessions]
  /\ \A u \in Users : OwnInv(session[u]) /\ NetInv(session[u])

-----------------------------------------------------------------------------
(* The latest definition: a finite set of numbers has a greatest.          *)
LEMMA MaxExists ==
  ASSUME NEW n \in Nat, NEW S \in SUBSET (0..n), S # {}
  PROVE  Max(S) \in S /\ \A y \in S : y <= Max(S)
<1> DEFINE T == {n - x : x \in S}
           R == OpToRel(<, Nat)
<1>1. T \subseteq Nat /\ T # {}
  <2>1. \A x \in S : n - x \in Nat
    OBVIOUS
  <2> QED BY <2>1
<1>2. PICK m \in T : \A y \in T : <<y, m>> \notin R
  <2> HIDE DEF T, R
  <2> QED BY <1>1, WFMin, NatLessThanWellFounded DEF R
<1>3. \A y \in T : ~(y < m)
  BY <1>1, <1>2 DEF OpToRel
<1>4. PICK x \in S : m = n - x
  OBVIOUS
<1>5. \A y \in S : x >= y
  BY <1>3, <1>4
<1> QED BY <1>5 DEF Max

LEMMA LatestDefinition ==
  ASSUME NetworkTypeOK
  PROVE  /\ LastDefinition \in 0..MaxBlocks
         /\ Definitions # {} => LastDefinition \in Definitions /\ Current # None
         /\ Definitions = {} => Current = None
<1> DEFINE D == Definitions \cup {0}
<1>1. Len(chain) \in Nat /\ Len(chain) <= MaxBlocks
  BY DEF NetworkTypeOK
<1>2. D \in SUBSET (0..Len(chain)) /\ D # {}
  BY <1>1 DEF Definitions
<1>3. LastDefinition \in D /\ \A y \in D : y <= LastDefinition
  BY <1>1, <1>2, MaxExists DEF LastDefinition
<1>4. ASSUME Definitions # {}
      PROVE  LastDefinition \in Definitions
  <2>1. PICK d \in Definitions : d >= 1 /\ d \in Nat
    BY <1>4, <1>1 DEF Definitions
  <2>2. LastDefinition # 0
    BY <1>3, <2>1
  <2> QED BY <1>3, <2>2
<1>5. LastDefinition \in 0..MaxBlocks
  BY <1>1, <1>2, <1>3, NetworkAssumption
<1> QED BY <1>4, <1>5 DEF Current, Definitions, Defines

-----------------------------------------------------------------------------
(* The network only grows.                                                 *)
Grows ==
  /\ joined \subseteq joined'
  /\ \A p \in Peers : installed[p] \subseteq installed'[p]
  /\ Len(chain) <= Len(chain') /\ \A i \in 1..Len(chain) : chain'[i] = chain[i]

LEMMA GrowsKeepsNetInv ==
  ASSUME NetworkTypeOK, NetworkTypeOK', Grows, NEW s \in Sessions, NetInv(s)
  PROVE  NetInv(s)'
<1>1. Len(chain) \in Nat /\ Len(chain') \in Nat
  BY DEF NetworkTypeOK
<1>2. Definitions # {} => Definitions' # {}
  BY <1>1 DEF Grows, Definitions, Defines
<1>3. OnChannel(s.cmd) => OnChannel(s.cmd)'
  BY <1>1 DEF Grows, OnChannel, Policy
<1>4. \A p \in s.peers : ServedIn(s, p) => ServedIn(s, p)'
  BY DEF Grows, ServedIn, Sessions
<1> QED BY <1>2, <1>3, <1>4 DEF NetInv

(* A step of a user: its process becomes t.                                *)
LEMMA StepOfUser ==
  ASSUME CommandInv, NEW u \in Users, NEW t, Becomes(u, t), OwnInv(t), NetInv(t)',
         NetworkTypeOK', Grows, left' \in 0..MaxCommands
  PROVE  CommandInv'
<1>1. session' = [session EXCEPT ![u] = t] /\ t \in Sessions
  BY DEF Becomes, OwnInv
<1>2. session' \in [Users -> Sessions] /\ session'[u] = t
  BY <1>1 DEF CommandInv
<1>3. ASSUME NEW v \in Users
      PROVE  OwnInv(session'[v]) /\ (NetInv(session[v]))'
  <2>1. CASE v = u
    BY <1>2, <2>1
  <2>2. CASE v # u
    <3>1. PICK s : s = session[v]
      OBVIOUS
    <3>2. session'[v] = s /\ s \in Sessions /\ OwnInv(s) /\ NetInv(s)
      BY <1>1, <2>2, <3>1 DEF CommandInv
    <3>3. NetInv(s)'
      BY <3>2, GrowsKeepsNetInv DEF CommandInv
    <3> QED BY <3>2, <3>3
  <2> QED BY <2>1, <2>2
<1>4. ASSUME NEW v \in Users
      PROVE  OwnInv(session[v])'
  <2>1. OwnInv(session'[v])
    BY <1>3
  <2>2. KindInv(session[v])'
    BY <2>1 DEF OwnInv, KindInv, Working, DefineKinds, Policy, Selected, InvalidURL, ListenKinds
  <2>3. SdkInv(session[v])' /\ PanicInv(session[v])'
    BY <2>1 DEF OwnInv, SdkInv, PanicInv
  <2>4. PrintInv(session[v])' /\ QueueInv(session[v])'
    BY <2>1 DEF OwnInv, PrintInv, QueueInv, EventsInOrder, ListenKinds
  <2>5. (session[v] \in Sessions)'
    BY <2>1 DEF OwnInv, Sessions, Pcs
  <2> QED BY <2>2, <2>3, <2>4, <2>5 DEF OwnInv
<1> QED BY <1>2, <1>3, <1>4 DEF CommandInv, Sessions, Pcs

(* A step that leaves the network as it is.                                *)
LEMMA QuietStep ==
  ASSUME CommandInv, NEW u \in Users, NEW t, Becomes(u, t), OwnInv(t), NetInv(t), UNCHANGED network,
         left' \in 0..MaxCommands
  PROVE  CommandInv'
<1>1. NetworkTypeOK' /\ Grows
  BY DEF CommandInv, NetworkTypeOK, network, Grows, Blocks
<1>2. t \in Sessions
  BY DEF OwnInv
<1>3. NetInv(t)'
  BY <1>1, <1>2, GrowsKeepsNetInv DEF CommandInv
<1> QED BY <1>1, <1>3, StepOfUser

-----------------------------------------------------------------------------
(* How a command ends.                                                     *)
LEMMA EndsOwn ==
  ASSUME NEW s, OwnInv(s), s.pc \in {"run", "order", "traverse"},
         NEW outcome \in {"ok", "error", "panic"},
         outcome = "panic" => s.cmd.urls = {} /\ s.cmd.orgs # {} /\ s.cmd.orgs \cap Orgs = {},
         NEW t, t = [s EXCEPT !.pc = "term", !.outcome = outcome]
  PROVE  OwnInv(t)
<1>1. s \in Sessions
  BY DEF OwnInv
<1>2. t \in Sessions
  BY <1>1 DEF Sessions, Pcs
<1>3. /\ t.pc = "term" /\ t.outcome = outcome /\ t.cmd = s.cmd /\ t.sdk = s.sdk /\ t.peers = s.peers
      /\ t.refused = s.refused /\ t.queue = s.queue /\ t.printed = s.printed
      /\ t.channel = s.channel
  BY <1>1 DEF Sessions
<1>4. KindInv(t)
  BY <1>3 DEF OwnInv, KindInv, Working
<1>5. SdkInv(t)
  BY <1>3 DEF OwnInv, SdkInv, KindInv, Working
<1>6. PrintInv(t)
  BY <1>3 DEF OwnInv, PrintInv
<1>7. QueueInv(t) /\ PanicInv(t)
  BY <1>3 DEF QueueInv, PanicInv
<1> QED BY <1>2, <1>4, <1>5, <1>6, <1>7 DEF OwnInv

(* Other than in an installation, a join or a definition that succeeds.    *)
LEMMA EndsQuietly ==
  ASSUME CommandInv, NEW u \in Users, session[u].pc \in {"run", "order", "traverse"},
         NEW outcome \in {"ok", "error", "panic"}, Ends(u, outcome),
         outcome = "panic" =>
           /\ session[u].cmd.urls = {} /\ session[u].cmd.orgs # {}
           /\ session[u].cmd.orgs \cap Orgs = {},
         session[u].cmd.kind \notin PerOrgKinds,
         outcome = "ok" =>
           \/ session[u].cmd.kind \notin DefineKinds
           \/ session[u].cmd.kind = "instantiate" /\ Definitions # {},
         UNCHANGED <<network, left>>
  PROVE  CommandInv'
<1>1. PICK s : s = session[u]
  OBVIOUS
<1>2. s \in Sessions /\ OwnInv(s)
  BY <1>1 DEF CommandInv
<1>3. PICK t : t = [s EXCEPT !.pc = "term", !.outcome = outcome] /\ Becomes(u, t)
  BY <1>1 DEF Ends
<1>4. OwnInv(t)
  BY <1>1, <1>2, <1>3, EndsOwn
<1>5. t.cmd = s.cmd /\ t.outcome = outcome
  BY <1>2, <1>3 DEF Sessions
<1>6. NetInv(t)
  BY <1>1, <1>5 DEF NetInv, DefineKinds
<1> QED BY <1>3, <1>4, <1>6, QuietStep DEF CommandInv

(* With no --peer and none of the organizations of --orgid known, no peer  *)
(* is selected; otherwise one is, since every organization has one.        *)
LEMMA NobodySelected ==
  ASSUME NEW c, Selected(c) = {}, ~InvalidURL(c)
  PROVE  c.urls = {} /\ c.orgs # {} /\ c.orgs \cap Orgs = {}
BY NetworkAssumption DEF Selected, InvalidURL

LEMMA NoOrgIDStep ==
  ASSUME CommandInv, NEW u \in Users, NoOrgID(u)
  PROVE  CommandInv'
<1>1. OwnInv(session[u])
  BY DEF CommandInv
<1>2. Selected(session[u].cmd) = {} /\ ~InvalidURL(session[u].cmd)
  BY <1>1 DEF NoOrgID, OwnInv, KindInv, Working
<1> QED BY <1>2, NobodySelected, EndsQuietly DEF NoOrgID, AsksOrgID

LEMMA FailsStep ==
  ASSUME CommandInv, NEW u \in Users, Fails(u)
  PROVE  CommandInv'
BY EndsQuietly DEF Fails, AsksOrgID

LEMMA ReadStep ==
  ASSUME CommandInv, NEW u \in Users, NEW kind \in ReadKinds, Read(u, kind)
  PROVE  CommandInv'
BY EndsQuietly DEF Read, At, ReadKinds, PerOrgKinds, DefineKinds

LEMMA AllOrgsStep ==
  ASSUME CommandInv, NEW u \in Users, AllOrgs(u)
  PROVE  CommandInv'
<1>1. PICK s : s = session[u]
  OBVIOUS
<1>2. s \in Sessions /\ OwnInv(s) /\ NetInv(s)
  BY <1>1 DEF CommandInv
<1>3. PICK outcome \in {"ok", "error"} :
        Ends(u, outcome) /\ (outcome = "error" <=> s.lastErr)
  BY <1>1, <1>2 DEF AllOrgs, Sessions
<1>4. PICK t : t = [s EXCEPT !.pc = "term", !.outcome = outcome] /\ Becomes(u, t)
  BY <1>1, <1>3 DEF Ends
<1>5. s.pc = "run" /\ s.cmd.kind \in PerOrgKinds /\ s.todo = {}
  BY <1>1 DEF AllOrgs, At
<1>6. OwnInv(t)
  BY <1>2, <1>4, <1>5, EndsOwn
<1>7. /\ t.cmd = s.cmd /\ t.peers = s.peers /\ t.refused = s.refused /\ t.todo = s.todo
      /\ t.outcome = outcome /\ t.pc = "term"
  BY <1>2, <1>4 DEF Sessions
<1>8. NetInv(t)
  BY <1>2, <1>3, <1>5, <1>7 DEF NetInv, ServedIn, PerOrgKinds
<1> QED BY <1>4, <1>6, <1>8, QuietStep DEF AllOrgs, CommandInv

-----------------------------------------------------------------------------
(* The beginning and the end of a process.                                 *)
LEMMA FreshOwn ==
  ASSUME NEW c \in CommandLines, NEW t, t = Fresh(c)
  PROVE  OwnInv(t) /\ NetInv(t)
<1>1. 0 \in 0..MaxBlocks /\ 0 \in 0..MaxTraverse /\ <<>> \in Seq(0..(MaxBlocks - 1))
  BY NetworkAssumption, CommandsAssumption
<1>2. t \in Sessions
  BY <1>1 DEF Fresh, Sessions, Pcs
<1>3. /\ t.pc = "init" /\ t.cmd = c /\ t.sdk = "none" /\ t.peers = {} /\ t.outcome = "none"
      /\ t.refused = {} /\ t.queue = <<>> /\ t.printed = <<>> /\ t.channel = "none"
      /\ t.lastErr = FALSE
  BY DEF Fresh
<1>4. Len(t.queue) = 0 /\ Len(t.printed) = 0
  BY <1>3
<1>5. KindInv(t) /\ SdkInv(t) /\ PanicInv(t)
  BY <1>3, <1>4, CommandsAssumption DEF KindInv, SdkInv, PanicInv, Working
<1>6. PrintInv(t) /\ QueueInv(t)
  BY <1>3, <1>4 DEF PrintInv, QueueInv
<1>7. NetInv(t)
  BY <1>3 DEF NetInv
<1> QED BY <1>2, <1>5, <1>6, <1>7 DEF OwnInv

LEMMA StartStep ==
  ASSUME CommandInv, NEW u \in Users, Start(u)
  PROVE  CommandInv'
<1>1. PICK c \in CommandLines : session' = [session EXCEPT ![u] = Fresh(c)]
  BY DEF Start
<1>2. PICK t : t = Fresh(c)
  OBVIOUS
<1>3. Becomes(u, t) /\ OwnInv(t) /\ NetInv(t)
  BY <1>1, <1>2, FreshOwn DEF Becomes
<1>4. left' \in 0..MaxCommands /\ UNCHANGED network
  BY CommandsAssumption DEF Start, CommandInv
<1> QED BY <1>3, <1>4, QuietStep

(* A process that is at its beginning, or at its end without a success.    *)
LEMMA EndedOwn ==
  ASSUME NEW c \in CommandLines, NEW sdk \in {"none", "open", "closed"},
         NEW outcome \in {"none", "ok", "error", "help", "panic"},
         outcome \in {"ok", "panic"} => sdk = "closed",
         outcome = "panic" => c.urls = {} /\ c.orgs # {} /\ c.orgs \cap Orgs = {},
         NEW t, t = Ended(c, sdk, outcome)
  PROVE  OwnInv(t) /\ NetInv(t)
<1>1. PICK f : f = Fresh(c)
  OBVIOUS
<1>2. f \in Sessions /\ OwnInv(f)
  BY <1>1, FreshOwn DEF OwnInv
<1>3. t = [f EXCEPT !.pc = "idle", !.sdk = sdk, !.outcome = outcome]
  BY <1>1 DEF Ended
<1>4. t \in Sessions
  BY <1>2, <1>3, ZenonT(40) DEF Sessions, Pcs
<1>5. /\ t.pc = "idle" /\ t.cmd = c /\ t.sdk = sdk /\ t.peers = {} /\ t.outcome = outcome
      /\ t.refused = {} /\ t.queue = <<>> /\ t.printed = <<>> /\ t.channel = "none"
  BY <1>1, <1>3 DEF Fresh
<1>6. Len(t.queue) = 0 /\ Len(t.printed) = 0
  BY <1>5
<1>7. KindInv(t) /\ SdkInv(t) /\ PanicInv(t)
  BY <1>5, <1>6, CommandsAssumption DEF KindInv, SdkInv, PanicInv, Working
<1>8. PrintInv(t) /\ QueueInv(t)
  BY <1>5, <1>6 DEF PrintInv, QueueInv
<1>9. NetInv(t)
  BY <1>5 DEF NetInv
<1> QED BY <1>4, <1>7, <1>8, <1>9 DEF OwnInv

LEMMA TerminateStep ==
  ASSUME CommandInv, NEW u \in Users, Terminate(u)
  PROVE  CommandInv'
<1>1. PICK s : s = session[u]
  OBVIOUS
<1>2. s \in Sessions /\ OwnInv(s) /\ s.pc = "term"
  BY <1>1 DEF CommandInv, Terminate, Terminating
<1>3. s.channel = "none"
  BY <1>2 DEF OwnInv, SdkInv
<1>4. PICK e : e = Ended(s.cmd, "closed", s.outcome)
  OBVIOUS
<1>5. OwnInv(e) /\ NetInv(e)
  <2>1. /\ s.cmd \in CommandLines /\ "closed" \in {"none", "open", "closed"}
        /\ s.outcome \in {"none", "ok", "error", "help", "panic"}
    BY <1>2 DEF Sessions
  <2>2. s.outcome = "panic" =>
          s.cmd.urls = {} /\ s.cmd.orgs # {} /\ s.cmd.orgs \cap Orgs = {}
    BY <1>2 DEF OwnInv, PanicInv
  <2> QED BY <1>4, <2>1, <2>2, EndedOwn
<1>6. Becomes(u, [e EXCEPT !.channel = "none"])
  BY <1>1, <1>3, <1>4 DEF Terminate
<1>7. [e EXCEPT !.channel = "none"] = e
  <2>1. e.channel = "none" /\ e \in Sessions
    BY <1>4, <1>5 DEF Ended, Fresh, OwnInv
  <2> QED BY <2>1 DEF Sessions
<1>8. UNCHANGED <<network, left>>
  BY DEF Terminate
<1> QED BY <1>5, <1>6, <1>7, <1>8, QuietStep DEF CommandInv

LEMMA NotInitializedStep ==
  ASSUME CommandInv, NEW u \in Users, NotInitialized(u)
  PROVE  CommandInv'
<1>1. PICK s : s = session[u]
  OBVIOUS
<1>2. s \in Sessions /\ OwnInv(s) /\ s.pc = "init"
  BY <1>1 DEF CommandInv, NotInitialized
<1>3. PICK sdk \in {"none", "open"} :
        Becomes(u, [s EXCEPT !.pc = "idle", !.outcome = "error", !.sdk = sdk])
  BY <1>1 DEF NotInitialized
<1>4. PICK t : t = [s EXCEPT !.pc = "idle", !.outcome = "error", !.sdk = sdk]
  OBVIOUS
<1>5. t \in Sessions
  BY <1>2, <1>4 DEF Sessions, Pcs
<1>6. /\ t.pc = "idle" /\ t.cmd = s.cmd /\ t.peers = s.peers /\ t.outcome = "error"
      /\ t.refused = s.refused /\ t.queue = s.queue /\ t.printed = s.printed
      /\ t.channel = s.channel
  BY <1>2, <1>4 DEF Sessions
<1>7. KindInv(t) /\ SdkInv(t) /\ PanicInv(t)
  BY <1>2, <1>6 DEF OwnInv, KindInv, SdkInv, PanicInv, Working
<1>8. PrintInv(t) /\ QueueInv(t)
  BY <1>2, <1>6 DEF OwnInv, PrintInv, QueueInv
<1>9. NetInv(t)
  BY <1>6 DEF NetInv
<1>10. OwnInv(t)
  BY <1>5, <1>7, <1>8 DEF OwnInv
<1> QED BY <1>3, <1>4, <1>9, <1>10, QuietStep DEF NotInitialized, CommandInv

LEMMA InitializeStep ==
  ASSUME CommandInv, NEW u \in Users, Initialize(u)
  PROVE  CommandInv'
<1>1. PICK s : s = session[u]
  OBVIOUS
<1>2. s \in Sessions /\ OwnInv(s) /\ s.pc = "init"
  BY <1>1 DEF CommandInv, Initialize
<1>3. s.channel = "none" /\ s.printed = <<>> /\ s.queue = <<>> /\ s.cmd \in CommandLines
  BY <1>2 DEF OwnInv, SdkInv, PrintInv, Sessions
<1>4. ASSUME NEW pc \in {"idle", "term"}, NEW outcome \in {"error", "help"},
             pc = "idle" \/ outcome = "help",
             ~(s.cmd.kind \in PerOrgKinds /\ pc = "term"),
             Becomes(u, [s EXCEPT !.pc = pc, !.outcome = outcome, !.sdk = "open"])
      PROVE  CommandInv'
  <2>1. PICK t : t = [s EXCEPT !.pc = pc, !.outcome = outcome, !.sdk = "open"]
    OBVIOUS
  <2>2. t \in Sessions
    BY <1>2, <2>1 DEF Sessions, Pcs
  <2>3. /\ t.pc = pc /\ t.cmd = s.cmd /\ t.peers = s.peers /\ t.outcome = outcome
        /\ t.refused = s.refused /\ t.queue = s.queue /\ t.printed = s.printed
        /\ t.channel = s.channel /\ t.sdk = "open"
    BY <1>2, <2>1 DEF Sessions
  <2>4. KindInv(t) /\ SdkInv(t) /\ PanicInv(t)
    BY <1>2, <1>3, <2>3 DEF OwnInv, KindInv, SdkInv, PanicInv, Working
  <2>5. PrintInv(t) /\ QueueInv(t)
    BY <1>2, <1>3, <2>3 DEF OwnInv, PrintInv, QueueInv
  <2>6. NetInv(t)
    BY <1>4, <2>3 DEF NetInv
  <2>7. OwnInv(t)
    BY <2>2, <2>4, <2>5 DEF OwnInv
  <2> QED BY <1>4, <2>1, <2>6, <2>7, QuietStep DEF Initialize, CommandInv
<1>5. CASE Rejected(s.cmd)
  BY <1>1, <1>4, <1>5 DEF Initialize
<1>6. CASE ~Rejected(s.cmd) /\ WantsHelp(s.cmd)
  <2>1. s.cmd.kind \notin PerOrgKinds
    BY <1>6 DEF WantsHelp, NeedsOneURL, PerOrgKinds
  <2> QED BY <1>1, <1>4, <1>6, <2>1 DEF Initialize
<1>7. CASE ~Rejected(s.cmd) /\ ~WantsHelp(s.cmd)
  <2> DEFINE ps == Selected(s.cmd)
             os == {OrgOf[p] : p \in ps}
  <2>1. ps \subseteq Peers /\ os \subseteq Orgs /\ \A p \in ps : OrgOf[p] \in os
    BY NetworkAssumption DEF Selected
  <2>2. Becomes(u, [s EXCEPT !.pc = "run", !.sdk = "open", !.peers = ps, !.todo = os])
    BY <1>1, <1>7 DEF Initialize
  <2> HIDE DEF os
  <2>3. PICK t : t = [s EXCEPT !.pc = "run", !.sdk = "open", !.peers = ps, !.todo = os]
    OBVIOUS
  <2>4. t \in Sessions
    BY <1>2, <2>1, <2>3 DEF Sessions, Pcs
  <2>5. /\ t.pc = "run" /\ t.cmd = s.cmd /\ t.peers = ps /\ t.outcome = s.outcome /\ t.todo = os
        /\ t.refused = s.refused /\ t.queue = s.queue /\ t.printed = s.printed
        /\ t.channel = s.channel /\ t.sdk = "open" /\ t.lastErr = s.lastErr
    BY <1>2, <2>3 DEF Sessions
  <2>6. s.refused = {} /\ s.lastErr = FALSE /\ s.outcome = "none" /\ Len(s.queue) <= EventBuffer
    BY <1>2 DEF OwnInv, KindInv, SdkInv
  <2>7. ~InvalidURL(s.cmd)
    BY <1>7 DEF Rejected
  <2>8. KindInv(t)
    BY <2>5, <2>6, <2>7 DEF KindInv, Working
  <2>9. SdkInv(t) /\ PanicInv(t)
    BY <1>3, <2>5, <2>6 DEF SdkInv, PanicInv
  <2>10. PrintInv(t) /\ QueueInv(t)
    BY <1>2, <1>3, <2>5 DEF OwnInv, PrintInv, QueueInv
  <2>11. NetInv(t)
    BY <2>1, <2>5, <2>6 DEF NetInv
  <2>12. OwnInv(t)
    BY <2>4, <2>8, <2>9, <2>10 DEF OwnInv
  <2> QED BY <2>2, <2>3, <2>11, <2>12, QuietStep DEF Initialize, CommandInv
<1> QED BY <1>5, <1>6, <1>7

-----------------------------------------------------------------------------
(* Installations and joins, definitions, a channel.                        *)
LEMMA ForOrgStep ==
  ASSUME CommandInv, NEW u \in Users, ForOrg(u)
  PROVE  CommandInv'
<1>1. PICK s : s = session[u]
  OBVIOUS
<1>2. s \in Sessions /\ OwnInv(s) /\ NetInv(s) /\ s.pc = "run" /\ s.cmd.kind \in PerOrgKinds
  BY <1>1 DEF CommandInv, ForOrg, At
<1>3. PICK o \in s.todo : \E no \in SUBSET PeersByOrg(o, s.peers),
                              lost \in SUBSET PeersByOrg(o, s.peers) :
        /\ lost \subseteq no
        /\ IF s.cmd.kind = "join" THEN Joins(PeersByOrg(o, s.peers) \ (no \ lost))
           ELSE Installs(PeersByOrg(o, s.peers) \ (no \ lost), s.cmd.version)
        /\ Becomes(u, [s EXCEPT !.todo = s.todo \ {o}, !.refused = s.refused \cup no,
                                !.lastErr = ErrorAfter(s.lastErr, no)])
  BY <1>1 DEF ForOrg
<1>4. PICK no \in SUBSET PeersByOrg(o, s.peers), lost \in SUBSET PeersByOrg(o, s.peers) :
        /\ lost \subseteq no
        /\ IF s.cmd.kind = "join" THEN Joins(PeersByOrg(o, s.peers) \ (no \ lost))
           ELSE Installs(PeersByOrg(o, s.peers) \ (no \ lost), s.cmd.version)
        /\ Becomes(u, [s EXCEPT !.todo = s.todo \ {o}, !.refused = s.refused \cup no,
                                !.lastErr = ErrorAfter(s.lastErr, no)])
  BY <1>3
<1>5. PICK done : done = PeersByOrg(o, s.peers) \ (no \ lost)
  OBVIOUS
<1>6. /\ s.peers \subseteq Peers /\ done \subseteq Peers /\ no \subseteq s.peers
      /\ s.cmd \in CommandLines /\ s.cmd.version \in Versions
      /\ \A p \in s.peers : OrgOf[p] = o => p \in done \cup no
      /\ s.refused \subseteq s.peers /\ s.lastErr \in BOOLEAN
  BY <1>2, <1>4, <1>5, LinesAssumption DEF Sessions, PeersByOrg, OwnInv, KindInv
<1>7. /\ NetworkTypeOK' /\ Grows
      /\ s.cmd.kind = "join" => done \subseteq joined'
      /\ s.cmd.kind # "join" => \A p \in done : s.cmd.version \in installed'[p]
  <2>1. CASE s.cmd.kind = "join"
    <3>1. joined' = joined \cup done /\ UNCHANGED <<installed, chain>>
      BY <1>4, <1>5, <2>1 DEF Joins
    <3> QED BY <1>6, <2>1, <3>1 DEF CommandInv, NetworkTypeOK, Grows, Blocks
  <2>2. CASE s.cmd.kind # "join"
    <3>1. UNCHANGED <<joined, chain>>
      BY <1>4, <1>5, <2>2 DEF Installs
    <3>2. installed' = [p \in Peers |-> installed[p] \cup {w \in {s.cmd.version} : p \in done}]
      BY <1>4, <1>5, <2>2 DEF Installs
    <3>3. \A p \in Peers : installed'[p] = installed[p] \cup {w \in {s.cmd.version} : p \in done}
      BY <3>2
    <3>4. \A p \in done : s.cmd.version \in installed'[p]
      BY <1>6, <3>3
    <3>5. installed' \in [Peers -> SUBSET Versions]
      BY <1>6, <3>2 DEF CommandInv, NetworkTypeOK
    <3>6. Grows
      BY <3>1, <3>3 DEF Grows, CommandInv, NetworkTypeOK
    <3>7. NetworkTypeOK'
      BY <3>1, <3>5 DEF CommandInv, NetworkTypeOK, Blocks
    <3> QED BY <2>2, <3>4, <3>6, <3>7
  <2> QED BY <2>1, <2>2
<1>8. PICK t : t = [s EXCEPT !.todo = s.todo \ {o}, !.refused = s.refused \cup no,
                             !.lastErr = ErrorAfter(s.lastErr, no)]
  OBVIOUS
<1>9. /\ t.pc = "run" /\ t.cmd = s.cmd /\ t.peers = s.peers /\ t.outcome = s.outcome
      /\ t.todo = s.todo \ {o} /\ t.refused = s.refused \cup no /\ t.queue = s.queue
      /\ t.printed = s.printed /\ t.channel = s.channel /\ t.sdk = s.sdk
      /\ t.lastErr = (s.lastErr \/ no # {})
  BY <1>2, <1>8 DEF Sessions, ErrorAfter
<1>10. t \in Sessions
  <2>1. s.todo \ {o} \subseteq Orgs /\ s.refused \cup no \subseteq Peers
    BY <1>2, <1>6 DEF Sessions
  <2>2. ErrorAfter(s.lastErr, no) \in BOOLEAN
    BY <1>6 DEF ErrorAfter
  <2> QED BY <1>2, <1>8, <2>1, <2>2 DEF Sessions
<1>11. KindInv(t) /\ SdkInv(t) /\ PanicInv(t)
  BY <1>2, <1>6, <1>9 DEF OwnInv, KindInv, SdkInv, PanicInv, Working
<1>12. PrintInv(t) /\ QueueInv(t)
  BY <1>2, <1>9 DEF OwnInv, PrintInv, QueueInv
<1>13. OwnInv(t)
  BY <1>10, <1>11, <1>12 DEF OwnInv
<1>14. NetInv(t)'
  <2>1. ASSUME NEW p \in t.peers \ t.refused, OrgOf[p] \notin t.todo
        PROVE  ServedIn(t, p)'
    <3>1. CASE OrgOf[p] = o
      BY <1>6, <1>7, <1>9, <2>1, <3>1 DEF ServedIn
    <3>2. CASE OrgOf[p] # o
      <4>1. ServedIn(s, p) /\ p \in Peers
        BY <1>2, <1>6, <1>9, <2>1, <3>2 DEF NetInv
      <4> QED BY <1>7, <1>9, <4>1 DEF ServedIn, Grows
    <3> QED BY <3>1, <3>2
  <2>2. t.lastErr <=> t.refused # {}
    BY <1>2, <1>6, <1>9 DEF NetInv
  <2> QED BY <1>9, <2>1, <2>2 DEF NetInv
<1> QED BY <1>4, <1>7, <1>8, <1>13, <1>14, StepOfUser DEF ForOrg, CommandInv

LEMMA BlockAppended ==
  ASSUME NetworkTypeOK, NEW b \in Blocks, Append1(b), UNCHANGED <<joined, installed>>
  PROVE  /\ NetworkTypeOK' /\ Grows
         /\ Len(chain) \in Nat /\ Len(chain') = Len(chain) + 1 /\ chain'[Len(chain) + 1] = b
<1>1. chain \in Seq(Blocks) /\ Len(chain) \in Nat /\ Len(chain) < MaxBlocks /\ MaxBlocks \in Nat
  BY NetworkAssumption DEF NetworkTypeOK, Append1, HasRoom
<1>2. /\ chain' \in Seq(Blocks) /\ Len(chain') = Len(chain) + 1 /\ chain'[Len(chain) + 1] = b
      /\ \A i \in 1..Len(chain) : chain'[i] = chain[i]
  BY <1>1 DEF Append1
<1>3. NetworkTypeOK'
  BY <1>1, <1>2 DEF NetworkTypeOK, Blocks
<1> QED BY <1>1, <1>2, <1>3 DEF Grows

LEMMA CreateStep ==
  ASSUME CommandInv, NEW u \in Users, Create(u)
  PROVE  CommandInv'
<1>1. PICK s : s = session[u]
  OBVIOUS
<1>2. s \in Sessions /\ OwnInv(s) /\ s.pc = "run" /\ s.cmd.kind = "create"
  BY <1>1 DEF CommandInv, Create, At
<1>3. PICK outcome \in {"ok", "error"} : Ends(u, outcome)
  BY DEF Create
<1>4. PICK t : t = [s EXCEPT !.pc = "term", !.outcome = outcome] /\ Becomes(u, t)
  BY <1>1, <1>3 DEF Ends
<1>5. OwnInv(t) /\ t.cmd = s.cmd
  BY <1>2, <1>4, EndsOwn DEF Sessions
<1>6. NetInv(t)'
  BY <1>2, <1>5 DEF NetInv, PerOrgKinds
<1>7. NetworkTypeOK' /\ Grows
  <2>1. Config \in Blocks
    BY DEF Config, Blocks
  <2> QED BY <2>1, BlockAppended DEF Create, CommandInv
<1> QED BY <1>4, <1>5, <1>6, <1>7, StepOfUser DEF Create, CommandInv

(* What the endorsement lets pass has a policy of known organizations.     *)
LEMMA EndorseStep ==
  ASSUME CommandInv, NEW u \in Users, Endorse(u)
  PROVE  CommandInv'
<1>1. PICK s : s = session[u]
  OBVIOUS
<1>2. s \in Sessions /\ OwnInv(s) /\ s.pc = "run" /\ s.cmd.kind \in DefineKinds
  BY <1>1 DEF CommandInv, Endorse, At
<1>3. PICK targets : IF Refusal(s.cmd, targets) = "none"
                     THEN Becomes(u, [s EXCEPT !.pc = "order", !.defined = LastDefinition])
                     ELSE Ends(u, IF Ignored(Refusal(s.cmd, targets)) THEN "ok" ELSE "error")
  BY <1>1 DEF Endorse
<1>4. UNCHANGED <<network, left>>
  BY DEF Endorse
<1>5. CASE Refusal(s.cmd, targets) = "none"
  <2>1. PICK t : t = [s EXCEPT !.pc = "order", !.defined = LastDefinition] /\ Becomes(u, t)
    BY <1>3, <1>5
  <2>2. t \in Sessions
    <3>1. LastDefinition \in 0..MaxBlocks
      BY LatestDefinition DEF CommandInv
    <3> QED BY <1>2, <2>1, <3>1 DEF Sessions, Pcs
  <2>3. /\ t.pc = "order" /\ t.cmd = s.cmd /\ t.peers = s.peers /\ t.outcome = s.outcome
        /\ t.refused = s.refused /\ t.queue = s.queue /\ t.printed = s.printed
        /\ t.channel = s.channel /\ t.sdk = s.sdk
    BY <1>2, <2>1 DEF Sessions
  <2>4. s.cmd.kind = "upgrade" /\ s.cmd.policy = {} => s.cmd.orgs \subseteq Orgs
    BY <1>5 DEF Refusal
  <2>5. Policy(s.cmd) \subseteq Orgs
    BY <1>2, <2>4, LinesAssumption DEF Policy, DefineKinds, Sessions
  <2>6. KindInv(t)
    BY <1>2, <2>3, <2>5 DEF OwnInv, KindInv, Working
  <2>7. SdkInv(t) /\ PanicInv(t) /\ PrintInv(t) /\ QueueInv(t)
    BY <1>2, <2>3 DEF OwnInv, SdkInv, PanicInv, PrintInv, QueueInv
  <2>8. OwnInv(t) /\ NetInv(t)
    BY <2>2, <2>3, <2>6, <2>7 DEF OwnInv, NetInv
  <2> QED BY <1>4, <2>1, <2>8, QuietStep DEF CommandInv
<1>6. CASE Refusal(s.cmd, targets) # "none"
  <2>1. PICK outcome \in {"ok", "error"} :
          Ends(u, outcome) /\ (outcome = "ok" => Refusal(s.cmd, targets) = "exists")
    BY <1>3, <1>6 DEF Ignored
  <2>2. outcome = "ok" => s.cmd.kind = "instantiate" /\ Definitions # {}
    BY <2>1 DEF Refusal, Current
  <2>3. s.cmd.kind \notin PerOrgKinds
    BY <1>2 DEF DefineKinds, PerOrgKinds
  <2> QED BY <1>1, <1>2, <1>4, <2>1, <2>2, <2>3, EndsQuietly
<1> QED BY <1>5, <1>6

LEMMA OrderStep ==
  ASSUME CommandInv, NEW u \in Users, Order(u)
  PROVE  CommandInv'
<1>1. PICK s : s = session[u]
  OBVIOUS
<1>2. s \in Sessions /\ OwnInv(s) /\ s.pc = "order"
  BY <1>1 DEF CommandInv, Order
<1>3. /\ s.cmd.kind \in DefineKinds /\ s.cmd.kind \notin PerOrgKinds
      /\ s.cmd.version \in Versions /\ Policy(s.cmd) \subseteq Orgs
  BY <1>2, LinesAssumption DEF OwnInv, KindInv, DefineKinds, PerOrgKinds, Sessions
<1>4. CASE UNCHANGED chain /\ Ends(u, "error")
  BY <1>1, <1>2, <1>3, <1>4, EndsQuietly DEF Order, network
<1>5. ASSUME NEW outcome \in {"ok", "error"}, Ends(u, outcome),
             Append1([version |-> s.cmd.version, policy |-> Policy(s.cmd)])
      PROVE  CommandInv'
  <2>1. PICK b : b = [version |-> s.cmd.version, policy |-> Policy(s.cmd)]
    OBVIOUS
  <2>2. b \in Blocks /\ b.version = s.cmd.version /\ b.policy = Policy(s.cmd)
    BY <1>3, <2>1 DEF Blocks
  <2>3. /\ NetworkTypeOK' /\ Grows
        /\ Len(chain) \in Nat /\ Len(chain') = Len(chain) + 1 /\ chain'[Len(chain) + 1] = b
    BY <1>5, <2>1, <2>2, BlockAppended DEF Order, CommandInv
  <2>4. PICK t : t = [s EXCEPT !.pc = "term", !.outcome = outcome] /\ Becomes(u, t)
    BY <1>1, <1>5 DEF Ends
  <2>5. OwnInv(t) /\ t.cmd = s.cmd
    BY <1>2, <2>4, EndsOwn DEF Sessions
  <2>6. Definitions' # {} /\ OnChannel(t.cmd)'
    <3>1. Len(chain) + 1 \in 1..Len(chain') /\ b.version # None
      BY <1>3, <2>2, <2>3, NetworkAssumption
    <3>2. Len(chain) + 1 \in Definitions'
      BY <2>3, <3>1 DEF Definitions, Defines
    <3>3. OnChannel(t.cmd)'
      BY <2>2, <2>3, <2>5, <3>1 DEF OnChannel
    <3> QED BY <3>2, <3>3
  <2>7. NetInv(t)'
    BY <1>3, <2>5, <2>6 DEF NetInv
  <2> QED BY <2>3, <2>4, <2>5, <2>7, StepOfUser DEF Order, CommandInv
<1> QED BY <1>1, <1>4, <1>5 DEF Order

-----------------------------------------------------------------------------
(* A traversal prints on, or ends.                                         *)
BlockNumbers == Seq(0..(MaxBlocks - 1))

Descending(printed) == \A i \in 1..(Len(printed) - 1) : printed[i + 1] = printed[i] - 1

(* u has printed this much, and m more blocks to print.                    *)
HasMore(u, m, printed) ==
  Becomes(u, [session[u] EXCEPT !.pc = "traverse", !.more = m, !.printed = printed])

(* An element of a sequence.                                               *)
LEMMA ElementOf ==
  ASSUME NEW S, NEW q \in Seq(S), NEW i \in Nat, 1 <= i, i <= Len(q)
  PROVE  q[i] \in S
OBVIOUS

LEMMA TraversalGoesOn ==
  ASSUME CommandInv, NEW u \in Users, UNCHANGED <<network, left>>,
         session[u].pc \in {"run", "traverse"}, session[u].cmd.kind = "queryblock",
         NEW printed \in BlockNumbers, printed # <<>>, Descending(printed),
         \/ Prints(u, printed)
         \/ \E m \in 1..MaxTraverse : HasMore(u, m, printed)
  PROVE  CommandInv'
<1>1. PICK s : s = session[u]
  OBVIOUS
<1>2. /\ s \in Sessions /\ OwnInv(s) /\ s.pc \in {"run", "traverse"} /\ s.cmd.kind = "queryblock"
      /\ s.outcome = "none" /\ s.sdk = "open" /\ s.queue = <<>> /\ s.channel = "none"
  BY <1>1 DEF CommandInv, OwnInv, KindInv, SdkInv, PrintInv, Working
<1>3. CASE Prints(u, printed)
  <2>1. PICK t : t = [s EXCEPT !.pc = "term", !.outcome = "ok", !.printed = printed] /\ Becomes(u, t)
    BY <1>1, <1>3 DEF Prints
  <2>2. t \in Sessions
    BY <1>2, <2>1 DEF Sessions, Pcs, BlockNumbers
  <2>3. /\ t.pc = "term" /\ t.outcome = "ok" /\ t.cmd = s.cmd /\ t.sdk = s.sdk /\ t.peers = s.peers
        /\ t.refused = s.refused /\ t.queue = s.queue /\ t.printed = printed
        /\ t.channel = s.channel
    BY <1>2, <2>1 DEF Sessions
  <2>4. KindInv(t) /\ SdkInv(t) /\ PanicInv(t)
    BY <1>2, <2>3 DEF OwnInv, KindInv, SdkInv, PanicInv, Working
  <2>5. PrintInv(t) /\ QueueInv(t)
    BY <1>2, <2>3 DEF PrintInv, QueueInv, Descending
  <2>6. NetInv(t)
    BY <1>2, <2>3 DEF NetInv, PerOrgKinds
  <2>7. OwnInv(t)
    BY <2>2, <2>4, <2>5 DEF OwnInv
  <2> QED BY <2>1, <2>6, <2>7, QuietStep DEF CommandInv
<1>4. ASSUME NEW m \in 1..MaxTraverse, HasMore(u, m, printed)
      PROVE  CommandInv'
  <2>1. PICK t : t = [s EXCEPT !.pc = "traverse", !.more = m, !.printed = printed]
    OBVIOUS
  <2>2. Becomes(u, t)
    BY <1>1, <1>4, <2>1 DEF HasMore
  <2>3. t \in Sessions
    <3>1. m \in 0..MaxTraverse
      BY CommandsAssumption
    <3>2. printed \in Seq(0..(MaxBlocks - 1)) /\ "traverse" \in Pcs
      BY DEF BlockNumbers, Pcs
    <3> QED BY <1>2, <2>1, <3>1, <3>2 DEF Sessions
  <2>4. /\ t.pc = "traverse" /\ t.outcome = s.outcome /\ t.cmd = s.cmd /\ t.sdk = s.sdk
        /\ t.peers = s.peers /\ t.refused = s.refused /\ t.queue = s.queue /\ t.printed = printed
        /\ t.channel = s.channel /\ t.more >= 1
    BY <1>2, <1>4, <2>1 DEF Sessions
  <2>5. KindInv(t) /\ SdkInv(t) /\ PanicInv(t)
    BY <1>2, <2>4 DEF OwnInv, KindInv, SdkInv, PanicInv, Working
  <2>6. PrintInv(t) /\ QueueInv(t)
    BY <1>2, <2>4 DEF PrintInv, QueueInv, Descending
  <2>7. NetInv(t)
    BY <2>4 DEF NetInv
  <2>8. OwnInv(t)
    BY <2>3, <2>5, <2>6 DEF OwnInv
  <2> QED BY <2>1, <2>2, <2>7, <2>8, QuietStep DEF CommandInv
<1> QED BY <1>3, <1>4

LEMMA QueryBlockStep ==
  ASSUME CommandInv, NEW u \in Users, QueryBlock(u)
  PROVE  CommandInv'
<1>1. PICK n \in 0..(Len(chain) - 1), k \in 0..MaxTraverse :
        IF k <= 1 THEN Prints(u, <<n>>)
        ELSE Becomes(u, [session[u] EXCEPT !.pc = "traverse", !.more = k - 1, !.printed = <<n>>])
  BY DEF QueryBlock
<1>2. n \in 0..(MaxBlocks - 1)
  BY NetworkAssumption DEF CommandInv, NetworkTypeOK
<1>3. PICK printed : printed = <<n>>
  OBVIOUS
<1>4. printed \in BlockNumbers /\ printed # <<>> /\ Descending(printed)
  BY <1>2, <1>3 DEF BlockNumbers, Descending
<1>5. \/ Prints(u, printed)
      \/ \E m \in 1..MaxTraverse : HasMore(u, m, printed)
  <2>1. CASE k <= 1
    BY <1>1, <1>3, <2>1
  <2>2. CASE ~(k <= 1)
    <3>1. k - 1 \in 1..MaxTraverse
      BY <2>2, CommandsAssumption
    <3> QED BY <1>1, <1>3, <2>2, <3>1 DEF HasMore
  <2> QED BY <2>1, <2>2
<1> QED BY <1>4, <1>5, TraversalGoesOn DEF QueryBlock, At

LEMMA TraverseStep ==
  ASSUME CommandInv, NEW u \in Users, Traverse(u)
  PROVE  CommandInv'
<1>1. PICK s : s = session[u]
  OBVIOUS
<1>2. /\ s \in Sessions /\ OwnInv(s) /\ s.pc = "traverse" /\ s.cmd.kind = "queryblock"
      /\ s.printed # <<>> /\ s.more \in 1..MaxTraverse /\ s.printed \in BlockNumbers
      /\ Descending(s.printed)
  BY <1>1 DEF CommandInv, OwnInv, KindInv, PrintInv, Traverse, Sessions, Descending, BlockNumbers
<1>3. UNCHANGED <<network, left>>
  BY DEF Traverse
<1>4. CASE Ends(u, "ok")
  BY <1>1, <1>2, <1>3, <1>4, EndsQuietly DEF PerOrgKinds, DefineKinds
<1>5. CASE Predecessor(s.printed) >= 0 /\ ~Ends(u, "ok")
  <2>1. PICK r, l : r = s.printed /\ l = Len(r)
    OBVIOUS
  <2>2. PICK printed : printed = Append(r, Predecessor(r))
    OBVIOUS
  <2>3. r \in BlockNumbers /\ r # <<>>
    BY <1>2, <2>1
  <2>4. l \in Nat /\ 1 <= l /\ l <= Len(r)
    BY <2>1, <2>3 DEF BlockNumbers
  <2>5. r[l] \in 0..(MaxBlocks - 1)
    BY <2>3, <2>4, ElementOf DEF BlockNumbers
  <2>6. /\ l \in Nat /\ l >= 1 /\ Predecessor(r) = r[l] - 1
        /\ \A i \in 1..(l - 1) : r[i + 1] = r[i] - 1
    BY <1>2, <2>1, <2>4 DEF Predecessor, Last, Descending
  <2>7. Predecessor(r) \in 0..(MaxBlocks - 1)
    BY <1>5, <2>1, <2>6, <2>5, NetworkAssumption
  <2>8. /\ printed \in BlockNumbers /\ Len(printed) = l + 1 /\ printed[l + 1] = r[l] - 1
        /\ \A i \in 1..l : printed[i] = r[i]
    BY <2>1, <2>2, <2>3, <2>6, <2>7 DEF BlockNumbers
  <2>9. printed # <<>> /\ Descending(printed)
    <3>1. Len(printed) # 0
      BY <2>6, <2>8
    <3>2. ASSUME NEW i \in 1..(Len(printed) - 1)
          PROVE  printed[i + 1] = printed[i] - 1
      <4>1. i = l \/ (i \in 1..(l - 1) /\ i + 1 \in 1..l)
        BY <2>6, <2>8
      <4> QED BY <4>1, <2>6, <2>8
    <3> QED BY <3>1, <3>2 DEF Descending
  <2>10. \/ Prints(u, printed)
         \/ s.more # 1 /\ Becomes(u, [s EXCEPT !.more = s.more - 1, !.printed = printed])
    BY <1>1, <1>5, <2>1, <2>2 DEF Traverse
  <2>11. ASSUME s.more # 1, Becomes(u, [s EXCEPT !.more = s.more - 1, !.printed = printed])
        PROVE  \E m \in 1..MaxTraverse : HasMore(u, m, printed)
    <3>1. s.more - 1 \in 1..MaxTraverse
      BY <1>2, <2>11, CommandsAssumption
    <3>2. [s EXCEPT !.more = s.more - 1, !.printed = printed]
            = [s EXCEPT !.pc = "traverse", !.more = s.more - 1, !.printed = printed]
      BY <1>2 DEF Sessions
    <3> QED BY <1>1, <2>11, <3>1, <3>2 DEF HasMore
  <2> QED BY <1>1, <1>2, <1>3, <2>8, <2>9, <2>10, <2>11, TraversalGoesOn
<1> QED BY <1>1, <1>4, <1>5 DEF Traverse

-----------------------------------------------------------------------------
(* Sequences of events.                                                    *)
Ascending(printed) == \A i \in 1..(Len(printed) - 1) : printed[i] < printed[i + 1]

LEMMA EventsAreNumbers ==
  ASSUME NEW p \in BlockNumbers
  PROVE  Len(p) \in Nat /\ \A i \in 1..Len(p) : p[i] \in Int /\ p[i] \in 0..(MaxBlocks - 1)
<1>1. Len(p) \in Nat
  BY DEF BlockNumbers
<1>2. ASSUME NEW i \in 1..Len(p)
      PROVE  p[i] \in Int /\ p[i] \in 0..(MaxBlocks - 1)
  <2>1. i \in Nat /\ 1 <= i /\ i <= Len(p)
    BY <1>1
  <2>2. PICK S : S = 0..(MaxBlocks - 1)
    OBVIOUS
  <2>3. p \in Seq(S)
    BY <2>2 DEF BlockNumbers
  <2>4. p[i] \in S
    BY <2>1, <2>3, ElementOf
  <2> QED BY <2>2, <2>4, NetworkAssumption
<1> QED BY <1>1, <1>2

(* The first event of the queue is printed.                                *)
LEMMA EventTaken ==
  ASSUME NEW p \in BlockNumbers, NEW q \in BlockNumbers, NEW n, q # <<>>,
         Ascending(p), EventsInOrder(p, q, n),
         NEW p2, p2 = Append(p, Head(q)), NEW q2, q2 = Tail(q)
  PROVE  /\ p2 \in BlockNumbers /\ q2 \in BlockNumbers /\ Len(q2) = Len(q) - 1
         /\ Ascending(p2) /\ EventsInOrder(p2, q2, n)
<1>1. /\ Len(p) \in Nat /\ \A i \in 1..Len(p) : p[i] \in Int
      /\ Len(q) \in Nat /\ \A i \in 1..Len(q) : q[i] \in Int
  BY EventsAreNumbers
<1>2. Len(q) >= 1
  BY <1>1 DEF BlockNumbers
<1>3. Head(q) = q[1] /\ q[1] \in 0..(MaxBlocks - 1)
  BY <1>1, <1>2, EventsAreNumbers DEF BlockNumbers
<1>4. /\ p2 \in BlockNumbers /\ Len(p2) = Len(p) + 1 /\ p2[Len(p) + 1] = q[1]
      /\ \A i \in 1..Len(p) : p2[i] = p[i]
  BY <1>1, <1>3 DEF BlockNumbers
<1>5. /\ q2 \in BlockNumbers /\ Len(q2) = Len(q) - 1
      /\ \A j \in 1..(Len(q) - 1) : q2[j] = q[j + 1]
  BY <1>1, <1>2 DEF BlockNumbers
<1>6. Ascending(p2)
  <2>1. ASSUME NEW i \in 1..(Len(p2) - 1)
        PROVE  p2[i] < p2[i + 1]
    <3>1. CASE i = Len(p)
      BY <1>1, <1>2, <1>4, <2>1, <3>1 DEF EventsInOrder
    <3>2. CASE i # Len(p)
      <4>1. i \in 1..(Len(p) - 1) /\ i + 1 \in 1..Len(p) /\ i \in 1..Len(p)
        BY <1>1, <1>4, <2>1, <3>2
      <4> QED BY <1>4, <4>1 DEF Ascending
    <3> QED BY <3>1, <3>2
  <2> QED BY <2>1 DEF Ascending
<1>7. \A i, j \in 1..Len(q2) : i < j => q2[i] < q2[j]
  BY <1>1, <1>2, <1>5 DEF EventsInOrder
<1>8. \A i \in 1..Len(p2), j \in 1..Len(q2) : p2[i] < q2[j]
  BY <1>1, <1>2, <1>4, <1>5 DEF EventsInOrder
<1>9. \A i \in 1..Len(p2) : p2[i] < n
  BY <1>1, <1>2, <1>4 DEF EventsInOrder
<1>10. \A j \in 1..Len(q2) : q2[j] < n
  BY <1>1, <1>2, <1>5 DEF EventsInOrder
<1> QED BY <1>4, <1>5, <1>6, <1>7, <1>8, <1>9, <1>10 DEF EventsInOrder

(* The next event of the channel is delivered, or dropped.                 *)
LEMMA EventDelivered ==
  ASSUME NEW p \in BlockNumbers, NEW q \in BlockNumbers, NEW n \in 0..(MaxBlocks - 1),
         EventsInOrder(p, q, n), NEW q2, q2 = Append(q, n) \/ q2 = q
  PROVE  q2 \in BlockNumbers /\ EventsInOrder(p, q2, n + 1)
<1>1. /\ Len(p) \in Nat /\ \A i \in 1..Len(p) : p[i] \in Int
      /\ Len(q) \in Nat /\ \A i \in 1..Len(q) : q[i] \in Int
  BY EventsAreNumbers
<1>2. CASE q2 = q
  BY <1>1, <1>2 DEF EventsInOrder
<1>3. CASE q2 = Append(q, n)
  <2>1. /\ q2 \in BlockNumbers /\ Len(q2) = Len(q) + 1 /\ q2[Len(q) + 1] = n
        /\ \A i \in 1..Len(q) : q2[i] = q[i]
    BY <1>1, <1>3 DEF BlockNumbers
  <2>2. n \in Int /\ \A j \in 1..Len(q2) : j \in 1..Len(q) \/ (j = Len(q) + 1 /\ q2[j] = n)
    BY <1>1, <2>1
  <2>3. \A j \in 1..Len(q2) : q2[j] < n + 1
    <3> SUFFICES ASSUME NEW j \in 1..Len(q2)
                 PROVE  q2[j] < n + 1
      OBVIOUS
    <3>1. CASE j \in 1..Len(q)
      BY <1>1, <2>1, <2>2, <3>1 DEF EventsInOrder
    <3>2. CASE q2[j] = n
      BY <2>2, <3>2
    <3> QED BY <2>2, <3>1, <3>2
  <2>4. ASSUME NEW i \in 1..Len(q2), NEW j \in 1..Len(q2), i < j
        PROVE  q2[i] < q2[j]
    <3>1. i \in 1..Len(q) /\ q2[i] = q[i]
      BY <1>1, <2>1, <2>4
    <3>2. CASE j \in 1..Len(q)
      BY <2>1, <2>4, <3>1, <3>2 DEF EventsInOrder
    <3>3. CASE q2[j] = n
      BY <3>1, <3>3 DEF EventsInOrder
    <3> QED BY <2>2, <3>2, <3>3
  <2>5. ASSUME NEW i \in 1..Len(p), NEW j \in 1..Len(q2)
        PROVE  p[i] < q2[j]
    <3>1. CASE j \in 1..Len(q)
      BY <2>1, <3>1 DEF EventsInOrder
    <3>2. CASE q2[j] = n
      BY <3>2 DEF EventsInOrder
    <3> QED BY <2>2, <3>1, <3>2
  <2>6. \A i \in 1..Len(p) : p[i] < n + 1
    BY <1>1, <2>2 DEF EventsInOrder
  <2> QED BY <2>1, <2>3, <2>4, <2>5, <2>6 DEF EventsInOrder
<1> QED BY <1>2, <1>3

-----------------------------------------------------------------------------
(* A step of a listener, or of the events it waits for.                    *)
LEMMA ListenerStep ==
  ASSUME CommandInv, NEW u \in Users, NEW s, s = session[u], NEW t, Becomes(u, t),
         UNCHANGED <<network, left>>,
         s.pc \in {"wait", "unreg"}, t \in Sessions,
         t.cmd = s.cmd, t.sdk = s.sdk, t.peers = s.peers, t.refused = s.refused,
         \/ t.pc = s.pc /\ t.outcome = s.outcome
         \/ t.pc = "unreg" /\ t.outcome = "ok",
         Len(t.queue) <= EventBuffer, Ascending(t.printed), QueueInv(t)
  PROVE  CommandInv'
<1>1. OwnInv(s)
  BY DEF CommandInv
<1>2. KindInv(t) /\ SdkInv(t) /\ PanicInv(t)
  BY <1>1 DEF OwnInv, KindInv, SdkInv, PanicInv, Working
<1>3. t.cmd.kind \in ListenKinds /\ t.pc \in {"wait", "unreg"}
  BY <1>1 DEF OwnInv, KindInv
<1>4. PrintInv(t)
  BY <1>3 DEF PrintInv, Ascending, ListenKinds
<1>5. NetInv(t)
  BY <1>3 DEF NetInv
<1> QED BY <1>2, <1>4, <1>5, QuietStep DEF OwnInv, CommandInv

(* What is known of a listener.                                            *)
LEMMA ListenerState ==
  ASSUME NEW s, OwnInv(s), s.pc \in {"wait", "unreg"}
  PROVE  /\ s \in Sessions /\ s.printed \in BlockNumbers /\ s.queue \in BlockNumbers
         /\ Len(s.queue) <= EventBuffer /\ Ascending(s.printed)
         /\ s.pc = "wait" => EventsInOrder(s.printed, s.queue, s.next)
<1>1. s \in Sessions /\ s.cmd.kind # "queryblock"
  BY DEF OwnInv, KindInv, ListenKinds
<1>2. s.printed \in BlockNumbers /\ s.queue \in BlockNumbers
  BY <1>1 DEF Sessions, BlockNumbers
<1> QED BY <1>1, <1>2 DEF OwnInv, KindInv, PrintInv, QueueInv, Ascending

LEMMA RegisterStep ==
  ASSUME CommandInv, NEW u \in Users, Register(u)
  PROVE  CommandInv'
<1>1. PICK s : s = session[u]
  OBVIOUS
<1>2. /\ s \in Sessions /\ OwnInv(s) /\ s.pc = "run" /\ s.cmd.kind \in ListenKinds
      /\ s.printed = <<>> /\ s.queue = <<>>
  BY <1>1 DEF CommandInv, Register, At, OwnInv, PrintInv
<1>3. PICK n \in 0..Len(chain) :
        Becomes(u, [s EXCEPT !.pc = "wait", !.channel = "open", !.next = n, !.reader = "reading"])
  BY <1>1 DEF Register
<1>4. PICK t : t = [s EXCEPT !.pc = "wait", !.channel = "open", !.next = n, !.reader = "reading"]
  OBVIOUS
<1>5. n \in 0..MaxBlocks
  BY NetworkAssumption DEF CommandInv, NetworkTypeOK
<1>6. t \in Sessions
  BY <1>2, <1>4, <1>5 DEF Sessions, Pcs
<1>7. /\ t.pc = "wait" /\ t.channel = "open" /\ t.cmd = s.cmd /\ t.sdk = s.sdk /\ t.peers = s.peers
      /\ t.refused = s.refused /\ t.queue = <<>> /\ t.printed = <<>> /\ t.outcome = s.outcome
  BY <1>2, <1>4 DEF Sessions
<1>8. Len(t.queue) = 0 /\ Len(t.printed) = 0
  BY <1>7
<1>9. KindInv(t) /\ SdkInv(t) /\ PanicInv(t)
  BY <1>2, <1>7, <1>8, CommandsAssumption DEF OwnInv, KindInv, SdkInv, PanicInv, Working
<1>10. PrintInv(t) /\ QueueInv(t)
  BY <1>2, <1>7, <1>8 DEF PrintInv, QueueInv, EventsInOrder
<1>11. NetInv(t)
  BY <1>7 DEF NetInv
<1>12. OwnInv(t)
  BY <1>6, <1>9, <1>10 DEF OwnInv
<1> QED BY <1>3, <1>4, <1>11, <1>12, QuietStep DEF Register, CommandInv

LEMMA DeliverStep ==
  ASSUME CommandInv, NEW u \in Users, Deliver(u)
  PROVE  CommandInv'
<1>1. PICK s : s = session[u]
  OBVIOUS
<1>2. s \in Sessions /\ OwnInv(s) /\ s.channel = "open" /\ s.pc \in {"wait", "unreg"}
  BY <1>1 DEF CommandInv, Deliver, OwnInv, SdkInv
<1>3. s.next \in 0..(MaxBlocks - 1) /\ s.next + 1 \in 0..MaxBlocks
  BY <1>1, <1>2, NetworkAssumption DEF Deliver, CommandInv, NetworkTypeOK, Sessions
<1>4. PICK queue : /\ queue = IF Len(s.queue) < EventBuffer THEN Append(s.queue, s.next) ELSE s.queue
                   /\ Becomes(u, [s EXCEPT !.next = s.next + 1, !.queue = queue])
  BY <1>1 DEF Deliver
<1>5. PICK t : t = [s EXCEPT !.next = s.next + 1, !.queue = queue]
  OBVIOUS
<1>6. /\ s.printed \in BlockNumbers /\ s.queue \in BlockNumbers /\ Len(s.queue) <= EventBuffer
      /\ Ascending(s.printed)
      /\ s.pc = "wait" => EventsInOrder(s.printed, s.queue, s.next)
  BY <1>2, ListenerState
<1>7. queue \in BlockNumbers /\ Len(queue) <= EventBuffer
  <2>1. CASE Len(s.queue) < EventBuffer
    <3>1. queue = Append(s.queue, s.next)
      BY <1>4, <2>1
    <3>2. queue \in BlockNumbers /\ Len(queue) = Len(s.queue) + 1 /\ Len(s.queue) \in Nat
      BY <1>3, <1>6, <3>1 DEF BlockNumbers
    <3> QED BY <2>1, <3>2, CommandsAssumption
  <2>2. CASE ~(Len(s.queue) < EventBuffer)
    BY <1>4, <1>6, <2>2
  <2> QED BY <2>1, <2>2
<1>8. s.pc = "wait" => EventsInOrder(s.printed, queue, s.next + 1)
  BY <1>3, <1>4, <1>6, EventDelivered
<1>9. t \in Sessions
  BY <1>2, <1>3, <1>5, <1>7 DEF Sessions, BlockNumbers
<1>10. /\ t.pc = s.pc /\ t.outcome = s.outcome /\ t.cmd = s.cmd /\ t.sdk = s.sdk /\ t.peers = s.peers
       /\ t.refused = s.refused /\ t.printed = s.printed /\ t.queue = queue /\ t.next = s.next + 1
  BY <1>2, <1>5 DEF Sessions
<1>11. QueueInv(t) /\ Ascending(t.printed) /\ Len(t.queue) <= EventBuffer
  BY <1>6, <1>7, <1>8, <1>10 DEF QueueInv
<1>12. Becomes(u, t) /\ UNCHANGED <<network, left>>
  BY <1>4, <1>5 DEF Deliver
<1> QED BY <1>1, <1>2, <1>9, <1>10, <1>11, <1>12, ListenerStep

LEMMA CloseChannelStep ==
  ASSUME CommandInv, NEW u \in Users, CloseChannel(u)
  PROVE  CommandInv'
<1>1. PICK s : s = session[u]
  OBVIOUS
<1>2. s \in Sessions /\ OwnInv(s) /\ s.pc \in {"wait", "unreg"}
  BY <1>1 DEF CommandInv, CloseChannel, OwnInv, SdkInv
<1>3. PICK t : t = [s EXCEPT !.channel = "closed"]
  OBVIOUS
<1>4. t \in Sessions
  BY <1>2, <1>3 DEF Sessions
<1>5. /\ t.pc = s.pc /\ t.outcome = s.outcome /\ t.cmd = s.cmd /\ t.sdk = s.sdk /\ t.peers = s.peers
      /\ t.refused = s.refused /\ t.printed = s.printed /\ t.queue = s.queue /\ t.next = s.next
  BY <1>2, <1>3 DEF Sessions
<1>6. QueueInv(t) /\ Ascending(t.printed) /\ Len(t.queue) <= EventBuffer
  BY <1>2, <1>5, ListenerState DEF QueueInv
<1>7. Becomes(u, t) /\ UNCHANGED <<network, left>>
  BY <1>1, <1>3 DEF CloseChannel
<1> QED BY <1>1, <1>2, <1>4, <1>5, <1>6, <1>7, ListenerStep

(* Enter may be pressed when the command no longer waits for it.           *)
LEMMA PressEnterStep ==
  ASSUME CommandInv, NEW u \in Users, PressEnter(u)
  PROVE  CommandInv'
<1>1. PICK s : s = session[u]
  OBVIOUS
<1>2. s \in Sessions /\ OwnInv(s) /\ NetInv(s)
  BY <1>1 DEF CommandInv
<1>3. PICK t : t = [s EXCEPT !.reader = "sending"]
  OBVIOUS
<1>4. t \in Sessions
  BY <1>2, <1>3 DEF Sessions
<1>5. /\ t.pc = s.pc /\ t.outcome = s.outcome /\ t.cmd = s.cmd /\ t.sdk = s.sdk /\ t.peers = s.peers
      /\ t.refused = s.refused /\ t.printed = s.printed /\ t.queue = s.queue /\ t.next = s.next
      /\ t.todo = s.todo /\ t.lastErr = s.lastErr /\ t.more = s.more /\ t.channel = s.channel
  BY <1>2, <1>3 DEF Sessions
<1>6. KindInv(t) /\ SdkInv(t) /\ PanicInv(t)
  BY <1>2, <1>5 DEF OwnInv, KindInv, SdkInv, PanicInv
<1>7. PrintInv(t) /\ QueueInv(t)
  BY <1>2, <1>5 DEF OwnInv, PrintInv, QueueInv
<1>8. NetInv(t)
  BY <1>2, <1>5 DEF NetInv, ServedIn
<1>9. OwnInv(t)
  BY <1>4, <1>6, <1>7 DEF OwnInv
<1>10. Becomes(u, t) /\ UNCHANGED <<network, left>>
  BY <1>1, <1>3 DEF PressEnter
<1> QED BY <1>8, <1>9, <1>10, QuietStep DEF CommandInv

LEMMA TakeStep ==
  ASSUME CommandInv, NEW u \in Users, TakeEvent(u) \/ TakeTx(u)
  PROVE  CommandInv'
<1>1. PICK s : s = session[u]
  OBVIOUS
<1>2. /\ s \in Sessions /\ OwnInv(s) /\ s.pc = "wait" /\ s.queue # <<>>
      /\ s.printed \in BlockNumbers /\ s.queue \in BlockNumbers /\ Len(s.queue) <= EventBuffer
      /\ Ascending(s.printed) /\ EventsInOrder(s.printed, s.queue, s.next)
  BY <1>1, ListenerState DEF CommandInv, TakeEvent, TakeTx, At
<1>3. PICK printed, queue : printed = Append(s.printed, Head(s.queue)) /\ queue = Tail(s.queue)
  OBVIOUS
<1>4. /\ printed \in BlockNumbers /\ queue \in BlockNumbers /\ Len(queue) = Len(s.queue) - 1
      /\ Ascending(printed) /\ EventsInOrder(printed, queue, s.next)
  <2>1. PICK p, q, n : p = s.printed /\ q = s.queue /\ n = s.next
    OBVIOUS
  <2>2. p \in BlockNumbers /\ q \in BlockNumbers /\ q # <<>> /\ Ascending(p) /\ EventsInOrder(p, q, n)
    BY <1>2, <2>1
  <2>3. printed = Append(p, Head(q)) /\ queue = Tail(q)
    BY <1>3, <2>1
  <2>4. /\ printed \in BlockNumbers /\ queue \in BlockNumbers /\ Len(queue) = Len(q) - 1
        /\ Ascending(printed) /\ EventsInOrder(printed, queue, n)
    BY <2>2, <2>3, EventTaken
  <2> QED BY <2>1, <2>4
<1>5. Len(queue) <= EventBuffer
  BY <1>2, <1>4, EventsAreNumbers, CommandsAssumption
<1>6. PICK e : e = [s EXCEPT !.queue = queue, !.printed = printed]
  OBVIOUS
<1>7. NextEvent(u) = e
  BY <1>1, <1>3, <1>6 DEF NextEvent
<1>8. e \in Sessions
  BY <1>2, <1>4, <1>6 DEF Sessions, BlockNumbers
<1>9. /\ e.pc = s.pc /\ e.outcome = s.outcome /\ e.cmd = s.cmd /\ e.sdk = s.sdk /\ e.peers = s.peers
      /\ e.refused = s.refused /\ e.printed = printed /\ e.queue = queue /\ e.next = s.next
  BY <1>2, <1>6 DEF Sessions
<1>10. CASE TakeEvent(u)
  <2>1. QueueInv(e)
    BY <1>4, <1>9 DEF QueueInv
  <2>2. Becomes(u, e) /\ UNCHANGED <<network, left>>
    BY <1>7, <1>10 DEF TakeEvent
  <2> QED BY <1>1, <1>2, <1>4, <1>5, <1>8, <1>9, <2>1, <2>2, ListenerStep
<1>11. CASE TakeTx(u)
  <2>1. PICK t : t = [e EXCEPT !.pc = "unreg", !.outcome = "ok"]
    OBVIOUS
  <2>2. t \in Sessions
    BY <1>8, <2>1 DEF Sessions, Pcs
  <2>3. /\ t.pc = "unreg" /\ t.outcome = "ok" /\ t.cmd = s.cmd /\ t.sdk = s.sdk /\ t.peers = s.peers
        /\ t.refused = s.refused /\ t.printed = printed /\ t.queue = queue
    BY <1>8, <1>9, <2>1 DEF Sessions
  <2>4. Becomes(u, t) /\ UNCHANGED <<network, left>>
    BY <1>7, <1>11, <2>1 DEF TakeTx
  <2>5. QueueInv(t)
    BY <2>3 DEF QueueInv
  <2> QED BY <1>1, <1>2, <1>4, <1>5, <2>2, <2>3, <2>4, <2>5, ListenerStep
<1> QED BY <1>10, <1>11

LEMMA StopListeningStep ==
  ASSUME CommandInv, NEW u \in Users, TakeEnter(u) \/ TakeClosed(u)
  PROVE  CommandInv'
<1>1. PICK s : s = session[u]
  OBVIOUS
<1>2. s \in Sessions /\ OwnInv(s) /\ s.pc = "wait"
  BY <1>1 DEF CommandInv, TakeEnter, TakeClosed
<1>3. PICK reader \in {"none", "reading", "sending"} :
        Becomes(u, [s EXCEPT !.pc = "unreg", !.outcome = "ok", !.reader = reader])
  <2>1. CASE TakeEnter(u)
    BY <1>1, <2>1 DEF TakeEnter
  <2>2. CASE TakeClosed(u)
    <3>1. [s EXCEPT !.pc = "unreg", !.outcome = "ok"]
            = [s EXCEPT !.pc = "unreg", !.outcome = "ok", !.reader = s.reader]
      BY <1>2 DEF Sessions
    <3>2. s.reader \in {"none", "reading", "sending"}
      BY <1>2 DEF Sessions
    <3> QED BY <1>1, <2>2, <3>1, <3>2 DEF TakeClosed
  <2> QED BY <2>1, <2>2
<1>4. PICK t : t = [s EXCEPT !.pc = "unreg", !.outcome = "ok", !.reader = reader]
  OBVIOUS
<1>5. t \in Sessions
  BY <1>2, <1>4 DEF Sessions, Pcs
<1>6. /\ t.pc = "unreg" /\ t.outcome = "ok" /\ t.cmd = s.cmd /\ t.sdk = s.sdk /\ t.peers = s.peers
      /\ t.refused = s.refused /\ t.printed = s.printed /\ t.queue = s.queue
  BY <1>2, <1>4 DEF Sessions
<1>7. QueueInv(t) /\ Ascending(t.printed) /\ Len(t.queue) <= EventBuffer
  BY <1>2, <1>6, ListenerState DEF QueueInv
<1>8. Becomes(u, t) /\ UNCHANGED <<network, left>>
  BY <1>3, <1>4 DEF TakeEnter, TakeClosed
<1> QED BY <1>1, <1>2, <1>5, <1>6, <1>7, <1>8, ListenerStep

LEMMA UnregisterStep ==
  ASSUME CommandInv, NEW u \in Users, Unregister(u)
  PROVE  CommandInv'
<1>1. PICK s : s = session[u]
  OBVIOUS
<1>2. /\ s \in Sessions /\ OwnInv(s) /\ s.pc = "unreg" /\ s.cmd.kind \in ListenKinds
      /\ Ascending(s.printed)
  BY <1>1, ListenerState DEF CommandInv, Unregister, OwnInv, KindInv
<1>3. PICK t : t = [s EXCEPT !.pc = "term", !.channel = "none", !.queue = <<>>]
  OBVIOUS
<1>4. t \in Sessions
  <2>1. <<>> \in Seq(0..(MaxBlocks - 1))
    OBVIOUS
  <2> QED BY <1>2, <1>3, <2>1 DEF Sessions, Pcs
<1>5. /\ t.pc = "term" /\ t.outcome = s.outcome /\ t.cmd = s.cmd /\ t.sdk = s.sdk /\ t.peers = s.peers
      /\ t.refused = s.refused /\ t.printed = s.printed /\ t.queue = <<>> /\ t.channel = "none"
  BY <1>2, <1>3 DEF Sessions
<1>6. Len(t.queue) = 0
  BY <1>5
<1>7. KindInv(t) /\ SdkInv(t) /\ PanicInv(t)
  BY <1>2, <1>5, <1>6, CommandsAssumption DEF OwnInv, KindInv, SdkInv, PanicInv, Working
<1>8. PrintInv(t) /\ QueueInv(t)
  BY <1>2, <1>5 DEF OwnInv, PrintInv, QueueInv, Ascending, ListenKinds
<1>9. NetInv(t)
  BY <1>2, <1>5 DEF NetInv, ListenKinds, PerOrgKinds
<1>10. OwnInv(t)
  BY <1>4, <1>7, <1>8 DEF OwnInv
<1>11. Becomes(u, t) /\ UNCHANGED <<network, left>>
  BY <1>1, <1>3 DEF Unregister
<1> QED BY <1>9, <1>10, <1>11, QuietStep DEF CommandInv

-----------------------------------------------------------------------------
LEMMA InvInit == Init => CommandInv
<1> SUFFICES ASSUME Init
             PROVE  CommandInv
  OBVIOUS
<1>1. PICK line : line = CHOOSE c \in CommandLines : TRUE
  OBVIOUS
<1>2. line \in CommandLines
  BY <1>1, CommandsAssumption
<1>3. PICK t : t = Ended(line, "none", "none")
  OBVIOUS
<1>4. OwnInv(t) /\ NetInv(t)
  BY <1>2, <1>3, EndedOwn
<1>5. session = [u \in Users |-> t]
  BY <1>1, <1>3 DEF Init
<1>6. session \in [Users -> Sessions] /\ \A u \in Users : OwnInv(session[u]) /\ NetInv(session[u])
  <2>1. t \in Sessions
    BY <1>4 DEF OwnInv
  <2>2. \A u \in Users : session[u] = t
    BY <1>5
  <2> QED BY <1>4, <1>5, <2>1, <2>2
<1>7. NetworkTypeOK
  BY CommandsAssumption DEF Init, NetworkTypeOK
<1>8. left \in 0..MaxCommands
  BY CommandsAssumption DEF Init
<1> QED BY <1>6, <1>7, <1>8 DEF CommandInv

LEMMA InvStep == CommandInv /\ [Next]_vars => CommandInv'
<1> SUFFICES ASSUME CommandInv, [Next]_vars
             PROVE  CommandInv'
  OBVIOUS
<1>1. CASE UNCHANGED vars
  <2>1. NetworkTypeOK' /\ Grows /\ session' = session /\ left' = left
    BY <1>1 DEF vars, CommandInv, NetworkTypeOK, network, Grows, Blocks
  <2>2. ASSUME NEW u \in Users
        PROVE  CommandInv'
    <3>1. PICK t : t = session[u]
      OBVIOUS
    <3>2. t \in Sessions /\ OwnInv(t) /\ NetInv(t)
      BY <3>1 DEF CommandInv
    <3>3. session' = [session EXCEPT ![u] = t]
      BY <2>1, <3>1 DEF CommandInv
    <3> QED BY <1>1, <3>2, <3>3, QuietStep DEF Becomes, vars, CommandInv
  <2>3. CASE Users = {}
    BY <2>1, <2>3 DEF CommandInv, Sessions, Pcs
  <2> QED BY <2>2, <2>3
<1>2. ASSUME NEW u \in Users, Begin(u)
      PROVE  CommandInv'
  BY <1>2, NotInitializedStep, InitializeStep DEF Begin
<1>3. ASSUME NEW u \in Users, Work(u)
      PROVE  CommandInv'
  <2>1. CASE NoOrgID(u) \/ Fails(u)
    BY <2>1, NoOrgIDStep, FailsStep
  <2>2. CASE ForOrg(u) \/ AllOrgs(u)
    BY <2>2, ForOrgStep, AllOrgsStep
  <2>3. CASE Create(u) \/ Endorse(u) \/ Order(u)
    BY <2>3, CreateStep, EndorseStep, OrderStep
  <2>4. CASE \/ GetInfo(u) \/ QueryInstalled(u) \/ QueryChannels(u) \/ QueryInfo(u) \/ QueryTx(u)
             \/ QueryPeers(u) \/ QueryLocalPeers(u)
    <3>1. \E kind \in ReadKinds : Read(u, kind)
      BY <2>4 DEF GetInfo, QueryInstalled, QueryChannels, QueryInfo, QueryTx, QueryPeers,
                  QueryLocalPeers, ReadKinds
    <3> QED BY <3>1, ReadStep
  <2>5. CASE QueryBlock(u) \/ Traverse(u)
    BY <2>5, QueryBlockStep, TraverseStep
  <2> QED BY <1>3, <2>1, <2>2, <2>3, <2>4, <2>5 DEF Work
<1>4. ASSUME NEW u \in Users, Listen(u)
      PROVE  CommandInv'
  BY <1>4, RegisterStep, TakeStep, StopListeningStep, UnregisterStep DEF Listen
<1>5. ASSUME NEW u \in Users, Terminate(u)
      PROVE  CommandInv'
  BY <1>5, TerminateStep
<1>6. ASSUME NEW u \in Users, Outside(u)
      PROVE  CommandInv'
  BY <1>6, StartStep, DeliverStep, CloseChannelStep, PressEnterStep DEF Outside
<1> QED BY <1>1, <1>2, <1>3, <1>4, <1>5, <1>6 DEF Next, Process

LEMMA Invariant == Spec => []CommandInv
BY InvInit, InvStep, PTL DEF Spec

-----------------------------------------------------------------------------
(* The SDK is closed after the registration that uses it is given up, and  *)
(* is closed when a command is done or has panicked, for any users         *)
(* (action.go:167, listenblockcmd.go:72).                                  *)
THEOREM ClosedLast == Spec => []SdkClosedLast
<1>1. CommandInv => SdkClosedLast
  <2> SUFFICES ASSUME CommandInv, NEW u \in Users, NEW s, s = session[u]
               PROVE  /\ s.channel # "none" => s.sdk = "open"
                      /\ s.pc = "idle" /\ s.outcome \in {"ok", "panic"}
                           => s.sdk = "closed" /\ s.channel = "none"
    BY DEF SdkClosedLast
  <2>1. SdkInv(s) /\ KindInv(s)
    BY DEF CommandInv, OwnInv
  <2> QED BY <2>1 DEF SdkInv, KindInv, Working
<1> QED BY <1>1, Invariant, PTL

(* A listener prints each block at most once and in the order of the       *)
(* channel, and a traversal a block and its predecessors, none left out,   *)
(* for any buffer of events and any growth of the channel                  *)
(* (queryblockcmd.go:98, listenblockcmd.go:72).                            *)
THEOREM PrintsInOrder == Spec => []PrintedInOrder
<1>1. CommandInv => PrintedInOrder
  <2> SUFFICES ASSUME CommandInv, NEW u \in Users, NEW s, s = session[u],
                      NEW i \in 1..(Len(s.printed) - 1)
               PROVE  IF s.cmd.kind = "queryblock" THEN s.printed[i + 1] = s.printed[i] - 1
                      ELSE s.printed[i] < s.printed[i + 1]
    BY DEF PrintedInOrder
  <2>1. PrintInv(s)
    BY DEF CommandInv, OwnInv
  <2> QED BY <2>1 DEF PrintInv
<1> QED BY <1>1, Invariant, PTL

(* What a command ends with is what happened on the network, whatever the  *)
(* other users do meanwhile: the installations and joins that answered are *)
(* there, a definition that is reported is on the channel, and OrgID       *)
(* panics only for organizations none of which is known                    *)
(* (installcmd.go:75, instantiatecmd.go:126, action.go:398).               *)
THEOREM EndsTrue == Spec => []OutcomesTrue
<1>1. CommandInv => TypeOK
  <2> SUFFICES ASSUME CommandInv
               PROVE  TypeOK
    OBVIOUS
  <2>1. ASSUME NEW u \in Users, NEW s, s = session[u]
        PROVE  /\ s.pc \in {"init", "run", "order", "traverse", "wait", "unreg", "term", "idle"}
               /\ s.cmd \in CommandLines
               /\ s.sdk \in {"none", "open", "closed"} /\ s.channel \in {"none", "open", "closed"}
               /\ s.peers \subseteq Peers /\ s.refused \subseteq s.peers /\ s.todo \subseteq Orgs
               /\ s.lastErr \in BOOLEAN /\ s.outcome \in {"none", "ok", "error", "help", "panic"}
               /\ s.defined \in 0..MaxBlocks /\ s.next \in 0..MaxBlocks
               /\ s.reader \in {"none", "reading", "sending"} /\ s.more \in 0..MaxTraverse
               /\ Len(s.queue) <= EventBuffer
               /\ \A i \in DOMAIN s.printed : s.printed[i] \in 0..(MaxBlocks - 1)
    <3>1. s \in Sessions /\ KindInv(s)
      BY <2>1 DEF CommandInv, OwnInv
    <3>2. s.printed \in BlockNumbers
      BY <3>1 DEF Sessions, BlockNumbers
    <3>3. \A i \in DOMAIN s.printed : s.printed[i] \in 0..(MaxBlocks - 1)
      <4>1. DOMAIN s.printed = 1..Len(s.printed)
        BY <3>2 DEF BlockNumbers
      <4> QED BY <3>2, <4>1, EventsAreNumbers
    <3>4. /\ s.lastErr \in BOOLEAN /\ s.defined \in 0..MaxBlocks /\ s.next \in 0..MaxBlocks
          /\ s.more \in 0..MaxTraverse
      BY <3>1 DEF Sessions
    <3>5. /\ s.cmd \in CommandLines /\ s.peers \subseteq Peers /\ s.todo \subseteq Orgs
          /\ s.refused \subseteq s.peers /\ Len(s.queue) <= EventBuffer
      BY <3>1 DEF Sessions, KindInv
    <3> QED BY <3>1, <3>3, <3>4, <3>5 DEF Sessions, Pcs
  <2>2. NetworkTypeOK /\ left \in 0..MaxCommands
    BY DEF CommandInv
  <2> QED BY <2>1, <2>2 DEF TypeOK
<1>2. CommandInv => Reported
  <2> SUFFICES ASSUME CommandInv, NEW u \in Users, At(u, "term", PerOrgKinds),
                      session[u].outcome \in {"ok", "error"}
               PROVE  /\ \A p \in session[u].peers \ session[u].refused : Served(u, p)
                      /\ session[u].outcome = "error" <=> session[u].refused # {}
    BY DEF Reported
  <2>1. NetInv(session[u])
    BY DEF CommandInv
  <2> QED BY <2>1 DEF NetInv, At, Served, ServedIn
<1>3. CommandInv => Deployed
  <2> SUFFICES ASSUME CommandInv, NEW u \in Users, session[u].outcome = "ok"
               PROVE  /\ At(u, "term", {"instantiate"}) => Current # None
                      /\ At(u, "term", {"upgrade"}) =>
                           \E i \in DOMAIN chain : /\ chain[i].version = session[u].cmd.version
                                                   /\ chain[i].policy = Policy(session[u].cmd)
    BY DEF Deployed
  <2>1. NetInv(session[u]) /\ NetworkTypeOK
    BY DEF CommandInv
  <2>2. At(u, "term", {"instantiate"}) => Current # None
    BY <2>1, LatestDefinition DEF NetInv, At
  <2>3. At(u, "term", {"upgrade"}) => OnChannel(session[u].cmd)
    BY <2>1 DEF NetInv, At
  <2>4. DOMAIN chain = 1..Len(chain)
    BY <2>1 DEF NetworkTypeOK
  <2> QED BY <2>2, <2>3, <2>4 DEF OnChannel
<1>4. CommandInv => PanicOnlyUnknownOrg
  BY DEF CommandInv, OwnInv, PanicInv, PanicOnlyUnknownOrg
<1>5. CommandInv => OutcomesTrue
  BY <1>1, <1>2, <1>3, <1>4 DEF OutcomesTrue
<1> QED BY <1>5, Invariant, PTL

-----------------------------------------------------------------------------
(* The printers.  What is left to print is a sequence, and the invariant   *)
(* says of it that its positions can be labelled, from p before the first  *)
(* step to q after the last, so that each step relates the labels around   *)
(* it by R.  The labels are indentations (Drifts) or places in a document  *)
(* (Sits); a chain is made of the chains of its parts, and printing takes  *)
(* its head off.                                                           *)
Chain(R, x, p, q) ==
  \E l : /\ l[1] = p /\ l[Len(x) + 1] = q
         /\ \A i \in 1..Len(x) : <<l[i], x[i], l[i + 1]>> \in R

LEMMA ChainNone ==
  ASSUME NEW R, NEW p
  PROVE  Chain(R, <<>>, p, p)
<1> DEFINE l == [i \in 1..1 |-> p]
<1>1. l[1] = p /\ l[Len(<<>>) + 1] = p /\ \A i \in 1..Len(<<>>) : <<l[i], <<>>[i], l[i + 1]>> \in R
  OBVIOUS
<1> QED BY <1>1 DEF Chain

LEMMA ChainNothing ==
  ASSUME NEW R, NEW p, NEW q, Chain(R, <<>>, p, q)
  PROVE  p = q
BY DEF Chain

LEMMA ChainOne ==
  ASSUME NEW R, NEW s, NEW p, NEW q, <<p, s, q>> \in R
  PROVE  Chain(R, <<s>>, p, q)
<1> DEFINE l == [i \in 1..2 |-> IF i = 1 THEN p ELSE q]
<1>1. l[1] = p /\ l[2] = q
  OBVIOUS
<1> HIDE DEF l
<1>2. Len(<<s>>) = 1 /\ <<s>>[1] = s
  OBVIOUS
<1>3. \A i \in 1..Len(<<s>>) : <<l[i], <<s>>[i], l[i + 1]>> \in R
  BY <1>1, <1>2
<1>4. l[Len(<<s>>) + 1] = q
  BY <1>1, <1>2
<1> QED BY <1>1, <1>3, <1>4 DEF Chain

LEMMA ChainCat ==
  ASSUME NEW R, NEW S, NEW x \in Seq(S), NEW y \in Seq(S), NEW p, NEW q, NEW r,
         Chain(R, x, p, q), Chain(R, y, q, r)
  PROVE  Chain(R, x \o y, p, r)
<1>1. PICK l : /\ l[1] = p /\ l[Len(x) + 1] = q
               /\ \A i \in 1..Len(x) : <<l[i], x[i], l[i + 1]>> \in R
  BY DEF Chain
<1>2. PICK k : /\ k[1] = q /\ k[Len(y) + 1] = r
               /\ \A i \in 1..Len(y) : <<k[i], y[i], k[i + 1]>> \in R
  BY DEF Chain
<1>3. PICK m \in Nat, n \in Nat : m = Len(x) /\ n = Len(y) /\ Len(x \o y) = m + n
  OBVIOUS
<1> DEFINE h == [i \in 1..(m + n + 1) |-> IF i <= m THEN l[i] ELSE k[i - m]]
<1>4. \A i \in 1..(m + n + 1) : h[i] = IF i <= m THEN l[i] ELSE k[i - m]
  OBVIOUS
<1> HIDE DEF h
<1>5. \A i \in 1..(m + 1) : h[i] = l[i]
  <2> SUFFICES ASSUME NEW i \in 1..(m + 1)
               PROVE  h[i] = l[i]
    OBVIOUS
  <2>1. CASE i <= m
    BY <1>4, <2>1
  <2>2. CASE i = m + 1
    <3>1. i \in 1..(m + n + 1) /\ ~(i <= m) /\ i - m = 1
      BY <2>2
    <3>2. h[i] = k[1]
      BY <1>4, <3>1
    <3>3. l[i] = q
      BY <1>1, <1>3, <2>2
    <3> QED BY <1>2, <3>2, <3>3
  <2> QED BY <2>1, <2>2
<1>6. \A j \in 1..(n + 1) : h[m + j] = k[j]
  <2> SUFFICES ASSUME NEW j \in 1..(n + 1)
               PROVE  h[m + j] = k[j]
    OBVIOUS
  <2>1. m + j \in 1..(m + n + 1) /\ ~(m + j <= m) /\ (m + j) - m = j
    OBVIOUS
  <2> QED BY <1>4, <2>1
<1>7. h[1] = p /\ h[Len(x \o y) + 1] = r
  <2>1. 1 \in 1..(m + 1) /\ n + 1 \in 1..(n + 1) /\ m + (n + 1) = Len(x \o y) + 1
    BY <1>3
  <2>2. h[1] = p
    BY <1>1, <1>5, <2>1
  <2>3. h[m + (n + 1)] = r
    BY <1>2, <1>3, <1>6, <2>1
  <2> QED BY <2>1, <2>2, <2>3
<1>8. ASSUME NEW i \in 1..Len(x \o y)
      PROVE  <<h[i], (x \o y)[i], h[i + 1]>> \in R
  <2>1. CASE i <= m
    <3>1. i \in 1..m /\ i \in 1..(m + 1) /\ i + 1 \in 1..(m + 1)
      BY <2>1
    <3>2. (x \o y)[i] = x[i]
      BY <1>3, <3>1
    <3> QED BY <1>1, <1>3, <1>5, <3>1, <3>2
  <2>2. CASE i > m
    <3>1. PICK j \in 1..n : i = m + j
      <4>1. i - m \in 1..n /\ i = m + (i - m)
        BY <1>3, <2>2
      <4> QED BY <4>1
    <3>2. j \in 1..(n + 1) /\ j + 1 \in 1..(n + 1) /\ m + (j + 1) = i + 1
      BY <3>1
    <3>3. (x \o y)[m + j] = y[j]
      BY <1>3
    <3>4. h[i] = k[j] /\ h[i + 1] = k[j + 1]
      BY <1>6, <3>1, <3>2
    <3> QED BY <1>2, <1>3, <3>1, <3>3, <3>4
  <2>3. i \in 1..(m + n)
    BY <1>3
  <2>4. i <= m \/ i > m
    BY <2>3
  <2> QED BY <2>1, <2>2, <2>4
<1> QED BY <1>7, <1>8 DEF Chain

LEMMA ChainWithin ==
  ASSUME NEW R, NEW S, NEW x \in Seq(S), NEW a \in S, NEW b \in S, NEW p, NEW q, NEW r, NEW t,
         Chain(R, <<a>>, p, q), Chain(R, x, q, r), Chain(R, <<b>>, r, t)
  PROVE  Chain(R, <<a>> \o x \o <<b>>, p, t)
<1>1. <<a>> \in Seq(S) /\ <<b>> \in Seq(S) /\ <<a>> \o x \in Seq(S)
  OBVIOUS
<1>2. Chain(R, <<a>> \o x, p, r)
  BY <1>1, ChainCat
<1> QED BY <1>1, <1>2, ChainCat

LEMMA ChainHead ==
  ASSUME NEW R, NEW S, NEW x \in Seq(S), x # <<>>, NEW p, NEW r, Chain(R, x, p, r)
  PROVE  \E q : <<p, Head(x), q>> \in R /\ Chain(R, Tail(x), q, r)
<1>1. PICK l : /\ l[1] = p /\ l[Len(x) + 1] = r
               /\ \A i \in 1..Len(x) : <<l[i], x[i], l[i + 1]>> \in R
  BY DEF Chain
<1>2. PICK n \in Nat : Len(x) = n + 1 /\ Len(Tail(x)) = n
  <2>1. Len(x) \in Nat \ {0} /\ Len(Tail(x)) = Len(x) - 1
    OBVIOUS
  <2>2. Len(x) - 1 \in Nat /\ Len(x) = (Len(x) - 1) + 1
    BY <2>1
  <2> QED BY <2>1, <2>2
<1> DEFINE k == [i \in 1..(n + 1) |-> l[i + 1]]
<1>3. \A i \in 1..(n + 1) : k[i] = l[i + 1]
  OBVIOUS
<1> HIDE DEF k
<1>4. \A i \in 1..n : Tail(x)[i] = x[i + 1] /\ i \in 1..(n + 1) /\ i + 1 \in 1..(n + 1)
  BY <1>2
<1>5. k[1] = l[2] /\ k[Len(Tail(x)) + 1] = r
  <2>1. 1 \in 1..(n + 1) /\ n + 1 \in 1..(n + 1)
    OBVIOUS
  <2> QED BY <1>1, <1>2, <1>3, <2>1
<1>6. ASSUME NEW i \in 1..Len(Tail(x))
      PROVE  <<k[i], Tail(x)[i], k[i + 1]>> \in R
  <2>1. i \in 1..n /\ i + 1 \in 1..Len(x)
    BY <1>2
  <2>2. <<l[i + 1], x[i + 1], l[(i + 1) + 1]>> \in R
    BY <1>1, <2>1
  <2> QED BY <1>3, <1>4, <2>1, <2>2
<1>7. <<p, Head(x), l[2]>> \in R
  <2>1. 1 \in 1..Len(x) /\ x[1] = Head(x)
    BY <1>2
  <2> QED BY <1>1, <2>1
<1> QED BY <1>5, <1>6, <1>7 DEF Chain

-----------------------------------------------------------------------------
(* The steps of printing, and the functions a member of an object is       *)
(* printed by: all but those of a whole document, of an element of an      *)
(* array that the formatter is not told of, and of a collection            *)
(* configuration.                                                          *)
StepKinds == {"do", "print", "each", "loop", "values"}
Members == {
  "ChannelId", "doPrintChaincodeData", "doPrintCollConfig", "printStaticCollectionConfig",
  "PrintTxProposalResponse", "PrintProposalResponse", "PrintResponse", "PrintEnvelope", "PrintPayload",
  "PrintChannelHeader", "PrintChaincodeID", "PrintChaincodeInfo", "PrintSignatureHeader", "PrintData",
  "PrintConfigEnvelope", "PrintConfigUpdateEnvelope", "PrintTransaction", "PrintTXAction",
  "PrintFilteredCCAction", "PrintChaincodeActionPayload", "PrintChaincodeProposalPayload",
  "TransientValue", "PrintChaincodeInvocationSpec", "PrintAction", "PrintProposalResponsePayload",
  "PrintChaincodeAction", "PrintTxReadWriteSet", "PrintNsReadWriteSet", "PrintKvRwSet",
  "PrintCollHashedRwSets", "PrintCollHashedRwSet", "PrintHashedRwSet", "PrintHashedRead",
  "PrintHashedWrite", "PrintRangeQueryInfo", "PrintReadsInfo", "PrintRead", "PrintVersion",
  "PrintWrite",
  "PrintLSCCWrite", "PrintEndorsement", "PrintConfig", "PrintConfigGroup", "PrintConfigPolicy",
  "PrintSignaturePolicyEnvelope", "PrintMSPPrincipal", "PrintSignaturePolicy", "PrintConfigValue",
  "PrintCapabilities", "Capability", "PrintMSPConfig", "PrintAnchorPeers", "PrintAnchorPeer",
  "PrintConfigSignature", "PrintConfigUpdate", "PrintBlockMetadata", "PrintChaincodeSpec",
  "PrintChaincodeInput", "PrintPeer"}

Functions == Members \cup Roots \cup {"PrintFilteredTransaction"}

Names == Calls \cup Functions \cup {"CollectionConfig", "index", "key"}

Steps == StepKinds \X Names \X Nat

-----------------------------------------------------------------------------
(* The indentation.  A step takes it from d to e: a call changes it, a     *)
(* function or a loop leaves it as it was.  A collection configuration is  *)
(* printed in an array, so that d > 0, and loses a level when its type is  *)
(* unknown.                                                                *)
ConfigsNext(s) ==
  \/ s = P("CollectionConfig")
  \/ s[1] = "loop" /\ s[2] = "CollectionConfig"

Drift(d, s, e) ==
  \/ s[1] = "do" /\ s[2] \in Calls /\ e = Indent(d, s[2])
  \/ s[1] \in {"print", "each", "loop"} /\ s[2] \in Functions /\ e = d
  \/ ConfigsNext(s) /\ d > 0 /\ e = d
  \/ s[1] = "values" /\ e = d

Drifts == {t \in Nat \X Steps \X Nat : Drift(t[1], t[2], t[3])}

LEMMA DriftIs ==
  ASSUME NEW d, NEW s, NEW e
  PROVE  <<d, s, e>> \in Drifts <=> d \in Nat /\ s \in Steps /\ e \in Nat /\ Drift(d, s, e)
BY DEF Drifts

(* What leaves every indentation as it was.                                *)
Flat(x) == x \in Seq(Steps) /\ \A d \in Nat : Chain(Drifts, x, d, d)

LEMMA DoStep ==
  ASSUME NEW c \in Calls
  PROVE  Do(c) \in Steps
BY DEF Steps, StepKinds, Do, Names

LEMMA DriftDo ==
  ASSUME NEW c \in Calls, NEW d \in Nat, NEW e \in Nat, e = Indent(d, c)
  PROVE  <<d, Do(c), e>> \in Drifts
<1>1. <<d, Do(c), e>> \in Nat \X Steps \X Nat
  BY DoStep
<1>2. Do(c)[1] = "do" /\ Do(c)[2] = c
  BY DEF Do
<1> QED BY <1>1, <1>2, DriftIs DEF Drift

LEMMA PrintStep ==
  ASSUME NEW f \in Names
  PROVE  P(f) \in Steps /\ Each(f) \in Steps /\ Loop(f) \in Steps /\ Values(f) \in Steps
BY DEF Steps, StepKinds, P, Each, Loop, Values

LEMMA DriftPrint ==
  ASSUME NEW f \in Functions, NEW d \in Nat
  PROVE  <<d, P(f), d>> \in Drifts /\ <<d, Each(f), d>> \in Drifts /\ <<d, Loop(f), d>> \in Drifts
<1>1. f \in Names
  BY DEF Names
<1>2. \A s \in Steps : <<d, s, d>> \in Nat \X Steps \X Nat
  OBVIOUS
<1>3. /\ P(f)[1] = "print" /\ Each(f)[1] = "each" /\ Loop(f)[1] = "loop"
      /\ P(f)[2] = f /\ Each(f)[2] = f /\ Loop(f)[2] = f
  BY DEF P, Each, Loop
<1> QED BY <1>1, <1>2, <1>3, PrintStep, DriftIs DEF Drift

LEMMA FlatNone == Flat(<<>>)
BY ChainNone DEF Flat

LEMMA FlatCat ==
  ASSUME NEW x, NEW y, Flat(x), Flat(y)
  PROVE  Flat(x \o y)
BY ChainCat DEF Flat

LEMMA FlatOne ==
  ASSUME NEW s \in Steps, \A d \in Nat : <<d, s, d>> \in Drifts
  PROVE  Flat(<<s>>)
<1>1. <<s>> \in Seq(Steps)
  OBVIOUS
<1>2. \A d \in Nat : Chain(Drifts, <<s>>, d, d)
  BY ChainOne
<1> QED BY <1>1, <1>2 DEF Flat

LEMMA FlatPrint ==
  ASSUME NEW f \in Functions
  PROVE  Flat(<<P(f)>>) /\ Flat(<<Each(f)>>) /\ Flat(<<Loop(f)>>)
<1>1. P(f) \in Steps /\ Each(f) \in Steps /\ Loop(f) \in Steps
  BY PrintStep DEF Names
<1> QED BY <1>1, FlatOne, DriftPrint

Level == {"Header", "Footer", "Field", "Value", "Item0", "ItemN", "ItemK", "Print", "Stray"}

LEMMA FlatDo ==
  ASSUME NEW c \in Level
  PROVE  Flat(<<Do(c)>>)
<1>1. c \in Calls /\ \A d \in Nat : Indent(d, c) = d
  BY DEF Level, Calls, Opening, Closing, Indent
<1> QED BY <1>1, FlatOne, DoStep, DriftDo

LEMMA FlatValues ==
  ASSUME NEW k \in {"index", "key"}
  PROVE  Flat(<<Values(k)>>)
<1>1. Values(k) \in Steps
  BY PrintStep DEF Names
<1>2. Values(k)[1] = "values"
  BY DEF Values
<1>3. ASSUME NEW d \in Nat
      PROVE  <<d, Values(k), d>> \in Drifts
  BY <1>1, <1>2, DriftIs DEF Drift
<1> QED BY <1>1, <1>3, FlatOne

LEMMA FlatWithin ==
  ASSUME NEW b \in {"Element", "Array", "Array0", "Item"}, NEW e \in {"ElementEnd", "ArrayEnd",
                                                                      "ItemEnd"},
         NEW x \in Seq(Steps), \A d \in Nat : d > 0 => Chain(Drifts, x, d, d)
  PROVE  Flat(<<Do(b)>> \o x \o <<Do(e)>>)
<1>1. b \in Calls /\ e \in Calls
  BY DEF Calls, Opening, Closing
<1>2. Do(b) \in Steps /\ Do(e) \in Steps
  BY <1>1, DoStep
<1>3. \A d \in Nat : Indent(d, b) = d + 1 /\ Indent(d + 1, e) = d
  BY DEF Indent, Opening, Closing
<1>4. ASSUME NEW d \in Nat
      PROVE  Chain(Drifts, <<Do(b)>> \o x \o <<Do(e)>>, d, d)
  <2>0. d + 1 \in Nat /\ d + 1 > 0
    OBVIOUS
  <2>1. <<d, Do(b), d + 1>> \in Drifts /\ <<d + 1, Do(e), d>> \in Drifts
    BY <1>1, <1>3, <2>0, DriftDo
  <2>2. Chain(Drifts, <<Do(b)>>, d, d + 1) /\ Chain(Drifts, <<Do(e)>>, d + 1, d)
    BY <2>1, ChainOne
  <2>3. Chain(Drifts, x, d + 1, d + 1)
    BY <2>0
  <2> QED BY <1>2, <2>2, <2>3, ChainWithin
<1>5. <<Do(b)>> \o x \o <<Do(e)>> \in Seq(Steps)
  BY <1>2
<1> QED BY <1>4, <1>5 DEF Flat

(* n calls of Field.                                                       *)
LEMMA FieldsChain ==
  ASSUME NEW R, NEW p, <<p, Do("Field"), p>> \in R, NEW n \in Nat
  PROVE  Chain(R, Fields(n), p, p)
<1> DEFINE l == [i \in 1..(n + 1) |-> p]
<1>1. Len(Fields(n)) = n /\ \A i \in 1..n : Fields(n)[i] = Do("Field")
  BY DEF Fields
<1>2. l[1] = p /\ l[n + 1] = p /\ \A i \in 1..n : l[i] = p /\ l[i + 1] = p
  OBVIOUS
<1> QED BY <1>1, <1>2 DEF Chain

LEMMA FieldsSeq ==
  ASSUME NEW n \in Nat
  PROVE  Fields(n) \in Seq(Steps)
<1>1. Do("Field") \in Steps
  BY DoStep DEF Calls
<1> QED BY <1>1 DEF Fields

LEMMA FlatFields ==
  ASSUME NEW n \in Nat
  PROVE  Flat(Fields(n))
<1>1. "Field" \in Calls /\ \A d \in Nat : Indent(d, "Field") = d
  BY DEF Calls, Indent, Opening, Closing
<1>2. \A d \in Nat : <<d, Do("Field"), d>> \in Drifts
  BY <1>1, DriftDo
<1> QED BY <1>2, FieldsSeq, FieldsChain DEF Flat

(* How the short sequences of the rules are made of single steps.          *)
LEMMA Pair ==
  ASSUME NEW a, NEW b
  PROVE  <<a, b>> = <<a>> \o <<b>>
<1> DEFINE t == <<a>> \o <<b>>
<1>1. <<a, b>> \in Seq({a, b}) /\ t \in Seq({a, b})
  OBVIOUS
<1>2. Len(<<a, b>>) = 2 /\ <<a, b>>[1] = a /\ <<a, b>>[2] = b
  OBVIOUS
<1>3. Len(t) = 2 /\ t[1] = a /\ t[2] = b
  OBVIOUS
<1> HIDE DEF t
<1>4. \A i \in 1..2 : <<a, b>>[i] = t[i]
  BY <1>2, <1>3
<1> QED BY <1>1, <1>2, <1>3, <1>4, SeqEqual DEF t

LEMMA Triple ==
  ASSUME NEW a, NEW b, NEW c
  PROVE  <<a, b, c>> = <<a>> \o <<b>> \o <<c>>
<1> DEFINE t == <<a>> \o <<b>> \o <<c>>
<1>1. <<a, b, c>> \in Seq({a, b, c}) /\ t \in Seq({a, b, c})
  OBVIOUS
<1>2. Len(<<a, b, c>>) = 3 /\ <<a, b, c>>[1] = a /\ <<a, b, c>>[2] = b /\ <<a, b, c>>[3] = c
  OBVIOUS
<1>3. Len(t) = 3 /\ t[1] = a /\ t[2] = b /\ t[3] = c
  OBVIOUS
<1> HIDE DEF t
<1>4. \A i \in 1..3 : <<a, b, c>>[i] = t[i]
  BY <1>2, <1>3
<1> QED BY <1>1, <1>2, <1>3, <1>4, SeqEqual DEF t

LEMMA FlatElement ==
  ASSUME NEW x, Flat(x)
  PROVE  Flat(Element(x))
BY FlatWithin DEF Flat, Element

LEMMA ArrayIs ==
  ASSUME NEW s
  PROVE  Array(s) = <<Do("Array")>> \o <<s>> \o <<Do("ArrayEnd")>>
<1>1. \A a, b, c : <<a, b, c>> = <<a>> \o <<b>> \o <<c>>
  BY Triple
<1>2. <<Do("Array"), s, Do("ArrayEnd")>> = <<Do("Array")>> \o <<s>> \o <<Do("ArrayEnd")>>
  BY <1>1
<1> QED BY <1>2 DEF Array

LEMMA FlatArray ==
  ASSUME NEW s \in Steps, \A d \in Nat : d > 0 => <<d, s, d>> \in Drifts
  PROVE  Flat(Array(s)) /\ Flat(<<Do("Array0"), s, Do("ArrayEnd")>>)
<1>1. <<s>> \in Seq(Steps)
  OBVIOUS
<1>2. \A d \in Nat : d > 0 => Chain(Drifts, <<s>>, d, d)
  BY ChainOne
<1>3. /\ Array(s) = <<Do("Array")>> \o <<s>> \o <<Do("ArrayEnd")>>
      /\ <<Do("Array0"), s, Do("ArrayEnd")>> = <<Do("Array0")>> \o <<s>> \o <<Do("ArrayEnd")>>
  <2>1. \A a, b, c : <<a, b, c>> = <<a>> \o <<b>> \o <<c>>
    BY Triple
  <2>2. Array(s) = <<Do("Array")>> \o <<s>> \o <<Do("ArrayEnd")>>
    BY ArrayIs
  <2>3. <<Do("Array0"), s, Do("ArrayEnd")>> = <<Do("Array0")>> \o <<s>> \o <<Do("ArrayEnd")>>
    BY <2>1
  <2> QED BY <2>2, <2>3
<1> QED BY <1>1, <1>2, <1>3, FlatWithin

LEMMA FlatLists ==
  ASSUME NEW f \in Functions
  PROVE  /\ Flat(Items(f)) /\ Flat(Array(Loop(f)))
         /\ Flat(<<Do("Array0"), Each(f), Do("ArrayEnd")>>)
<1>1. Each(f) \in Steps /\ Loop(f) \in Steps
  BY PrintStep DEF Names
<1> QED BY <1>1, DriftPrint, FlatArray DEF Items

LEMMA FlatConfigs == Flat(Array(Loop("CollectionConfig")))
<1>1. Loop("CollectionConfig") \in Steps
  BY PrintStep DEF Names
<1>2. Loop("CollectionConfig")[1] = "loop" /\ Loop("CollectionConfig")[2] = "CollectionConfig"
  BY DEF Loop
<1>3. \A d \in Nat : d > 0 => <<d, Loop("CollectionConfig"), d>> \in Drifts
  BY <1>1, <1>2, DriftIs DEF Drift, ConfigsNext
<1> QED BY <1>1, <1>3, FlatArray

LEMMA FlatNumbers ==
  ASSUME NEW k \in {"index", "key"}
  PROVE  Flat(Array(Values(k)))
<1>1. Values(k) \in Steps
  BY PrintStep DEF Names
<1>2. Values(k)[1] = "values"
  BY DEF Values
<1>3. \A d \in Nat : <<d, Values(k), d>> \in Drifts
  BY <1>1, <1>2, DriftIs DEF Drift
<1> QED BY <1>1, <1>3, FlatArray

LEMMA FlatDocument ==
  ASSUME NEW x, Flat(x)
  PROVE  Flat(Document(x))
<1>1. Flat(<<Do("Header")>>) /\ Flat(<<Do("Footer")>>)
  BY FlatDo DEF Level
<1> QED BY <1>1, FlatCat DEF Document

-----------------------------------------------------------------------------
(* A place in a JSON document: the brackets that are open, and the comma   *)
(* flag of the formatter with what the reader of its output may have read  *)
(* last.  First is the start of a document or of an array of values,       *)
(* Member where a member of an object or an array can follow, Valued an    *)
(* array after its first value, Done where only the end can follow.        *)
First == {<<FALSE, "first">>}
Member == {<<FALSE, "first">>, <<TRUE, "next">>}
Valued == {<<FALSE, "next">>, <<TRUE, "next">>}
Done == Member \cup Valued

Marks == {"{", "["}
Opens == Seq(Marks)
Places == [open : Opens, at : {First, Member, Valued, Done}]

Braces(o) == [open |-> Append(o, "{"), at |-> Member]
Brackets(o, at) == [open |-> Append(o, "["), at |-> at]
Objects == {Braces(o) : o \in Opens}
Lists == {Brackets(o, Member) : o \in Opens}
(* Before a document, and after it.                                        *)
Outset == [open |-> <<>>, at |-> First]
Finish == [open |-> <<>>, at |-> Done]

Flaws == {"Value", "ItemK", "Stray"}

(* Where a call may be made, and where it leads.  A flaw may be made       *)
(* anywhere and leads anywhere: nothing is claimed once a document is      *)
(* flawed.                                                                 *)
Called(c, p, q) ==
  \/ c \in Flaws
  \/ c = "Print" /\ q = p
  \/ c = "Field" /\ p \in Objects /\ q = p
  \/ c = "Element" /\ p \in Objects /\ q = Braces(p.open)
  \/ c = "Array" /\ p \in Objects /\ q \in {Brackets(p.open, First), Brackets(p.open, Member)}
  \/ c = "Item" /\ p \in Lists /\ q = Braces(p.open)
  \/ c = "ElementEnd" /\ q \in Objects /\ p = Braces(q.open)
  \/ c = "ItemEnd" /\ q \in Lists /\ p = Braces(q.open)
  \/ c = "ArrayEnd" /\ q \in Objects /\ p \in {Brackets(q.open, Done), Brackets(q.open, Member)}
  \/ c = "Header" /\ p = Outset /\ q = Braces(<<>>)
  \/ c = "Footer" /\ p = Braces(<<>>) /\ q = Finish
  \/ c = "Item0" /\ \E o \in Opens : p = Brackets(o, First) /\ q = Brackets(o, Valued)
  \/ c = "ItemN" /\ \E o \in Opens : p = Brackets(o, Valued) /\ q = p

(* Values of an array from the n-th on.                                    *)
Listed(n, p, q) ==
  \E o \in Opens : p = Brackets(o, IF n = 0 THEN First ELSE Valued) /\ q = Brackets(o, Done)

(* Where a step may be made, and where it leads.                           *)
Sit(p, s, q) ==
  \/ s[1] = "do" /\ s[2] \in Calls /\ Called(s[2], p, q)
  \/ s[1] \in {"print", "loop"} /\ s[2] \in Members /\ p \in Objects /\ q = p
  \/ s[1] = "each" /\ s[2] \in Members /\ p \in Lists /\ q = p
  \/ ConfigsNext(s) /\ p \in Lists /\ q = p
  \/ s[1] = "values" /\ Listed(s[3], p, q)
  \/ s[1] = "print" /\ s[2] \in JsonRoots /\ p = Outset /\ q = Finish

Sits == {t \in Places \X Steps \X Places : Sit(t[1], t[2], t[3])}

LEMMA SitIs ==
  ASSUME NEW p, NEW s, NEW q
  PROVE  <<p, s, q>> \in Sits <=> p \in Places /\ s \in Steps /\ q \in Places /\ Sit(p, s, q)
BY DEF Sits

(* What prints members into any object, and leaves the indentation as it   *)
(* was.                                                                    *)
Good(x) == Flat(x) /\ \A p \in Objects : Chain(Sits, x, p, p)

LEMMA PlacesOK ==
  /\ Objects \subseteq Places /\ Lists \subseteq Places /\ Outset \in Places /\ Finish \in Places
  /\ \A o \in Opens : /\ Braces(o) \in Objects
                      /\ \A a \in {First, Member, Valued, Done} : Brackets(o, a) \in Places
<1> DEFINE Allowed == {First, Member, Valued, Done}
<1>1. \A o \in Opens : Append(o, "{") \in Opens /\ Append(o, "[") \in Opens
  <2>1. "{" \in Marks /\ "[" \in Marks
    BY DEF Marks
  <2>2. \A o \in Seq(Marks), m \in Marks : Append(o, m) \in Seq(Marks)
    OBVIOUS
  <2> QED BY <2>1, <2>2 DEF Opens
<1>2. <<>> \in Opens
  BY DEF Opens
<1>3. First \in Allowed /\ Member \in Allowed /\ Done \in Allowed
  OBVIOUS
<1> HIDE DEF Allowed
<1>4. Places = [open : Opens, at : Allowed]
  BY DEF Places, Allowed
<1>5. \A o \in Opens : Braces(o) \in Places /\ \A a \in Allowed : Brackets(o, a) \in Places
  BY <1>1, <1>3, <1>4 DEF Braces, Brackets
<1>6. Outset \in Places /\ Finish \in Places
  BY <1>2, <1>3, <1>4 DEF Outset, Finish
<1> QED BY <1>3, <1>5, <1>6 DEF Objects, Lists, Allowed

LEMMA SitDo ==
  ASSUME NEW c \in Calls, NEW p \in Places, NEW q \in Places, Called(c, p, q)
  PROVE  <<p, Do(c), q>> \in Sits
<1>1. <<p, Do(c), q>> \in Places \X Steps \X Places
  BY DoStep
<1>2. Do(c)[1] = "do" /\ Do(c)[2] = c
  BY DEF Do
<1> QED BY <1>1, <1>2, SitIs DEF Sit

LEMMA GoodNone == Good(<<>>)
BY FlatNone, ChainNone DEF Good

LEMMA GoodCat ==
  ASSUME NEW x, NEW y, Good(x), Good(y)
  PROVE  Good(x \o y)
BY FlatCat, ChainCat DEF Good, Flat

LEMMA GoodPrint ==
  ASSUME NEW f \in Members
  PROVE  Good(<<P(f)>>) /\ Good(<<Loop(f)>>)
<1>1. f \in Functions /\ f \in Names
  BY DEF Functions, Names
<1>2. P(f) \in Steps /\ Loop(f) \in Steps
  BY <1>1, PrintStep
<1>3. P(f)[1] = "print" /\ Loop(f)[1] = "loop" /\ P(f)[2] = f /\ Loop(f)[2] = f
  BY DEF P, Loop
<1>4. ASSUME NEW p \in Objects
      PROVE  <<p, P(f), p>> \in Sits /\ <<p, Loop(f), p>> \in Sits
  <2>1. p \in Places
    BY PlacesOK
  <2> QED BY <1>2, <1>3, <2>1, SitIs DEF Sit
<1> QED BY <1>1, <1>4, FlatPrint, ChainOne DEF Good

LEMMA GoodDo ==
  ASSUME NEW c \in Flaws \cup {"Print", "Field"}
  PROVE  Good(<<Do(c)>>)
<1>1. c \in Calls /\ c \in Level
  BY DEF Flaws, Calls, Level
<1>2. ASSUME NEW p \in Objects
      PROVE  <<p, Do(c), p>> \in Sits
  <2>1. p \in Places
    BY PlacesOK
  <2>2. Called(c, p, p)
    BY DEF Called
  <2> QED BY <1>1, <2>1, <2>2, SitDo
<1> QED BY <1>1, <1>2, FlatDo, ChainOne DEF Good

LEMMA GoodFields ==
  ASSUME NEW n \in Nat
  PROVE  Good(Fields(n))
<1>1. "Field" \in Calls
  BY DEF Calls
<1>2. ASSUME NEW p \in Objects
      PROVE  <<p, Do("Field"), p>> \in Sits
  <2>1. p \in Places
    BY PlacesOK
  <2>2. Called("Field", p, p)
    BY DEF Called
  <2> QED BY <1>1, <2>1, <2>2, SitDo
<1> QED BY <1>2, FlatFields, FieldsChain DEF Good

(* A part of a document between two calls.                                 *)
LEMMA SitsWithin ==
  ASSUME NEW b \in Calls, NEW e \in Calls, NEW x \in Seq(Steps),
         NEW p \in Places, NEW q \in Places, NEW r \in Places, NEW t \in Places,
         Called(b, p, q), Chain(Sits, x, q, r), Called(e, r, t)
  PROVE  Chain(Sits, <<Do(b)>> \o x \o <<Do(e)>>, p, t)
<1>1. Chain(Sits, <<Do(b)>>, p, q) /\ Chain(Sits, <<Do(e)>>, r, t)
  BY SitDo, ChainOne
<1>2. Do(b) \in Steps /\ Do(e) \in Steps
  BY DoStep
<1> QED BY <1>1, <1>2, ChainWithin

LEMMA GoodElement ==
  ASSUME NEW x, Good(x)
  PROVE  Good(Element(x))
<1>1. "Element" \in Calls /\ "ElementEnd" \in Calls
  BY DEF Calls, Opening, Closing
<1>2. ASSUME NEW p \in Objects
      PROVE  Chain(Sits, Element(x), p, p)
  <2>1. p \in Places /\ p.open \in Opens
    BY PlacesOK DEF Places
  <2>2. Braces(p.open) \in Objects /\ Braces(p.open) \in Places
    BY <2>1, PlacesOK
  <2>3. Called("Element", p, Braces(p.open)) /\ Called("ElementEnd", Braces(p.open), p)
    BY DEF Called
  <2>4. Chain(Sits, x, Braces(p.open), Braces(p.open)) /\ x \in Seq(Steps)
    BY <2>2 DEF Good, Flat
  <2> QED BY <1>1, <2>1, <2>2, <2>3, <2>4, SitsWithin DEF Element
<1> QED BY <1>2, FlatElement DEF Good

LEMMA GoodIn ==
  ASSUME NEW f \in Members
  PROVE  Good(In(f))
BY GoodPrint, GoodElement DEF In

LEMMA GoodInFields ==
  ASSUME NEW n \in Nat
  PROVE  Good(InFields(n))
BY GoodFields, GoodElement DEF InFields

(* An array whose values or elements lead from place a to place z.         *)
LEMMA SitsArray ==
  ASSUME NEW s \in Steps, NEW a \in {First, Member}, NEW z \in {Done, Member},
         \A o \in Opens : <<Brackets(o, a), s, Brackets(o, z)>> \in Sits
  PROVE  \A p \in Objects : Chain(Sits, Array(s), p, p)
<1>1. "Array" \in Calls /\ "ArrayEnd" \in Calls
  BY DEF Calls, Opening, Closing
<1> SUFFICES ASSUME NEW p \in Objects
             PROVE  Chain(Sits, Array(s), p, p)
  OBVIOUS
<1>2. p \in Places /\ p.open \in Opens
  BY PlacesOK DEF Places
<1>3. Brackets(p.open, a) \in Places /\ Brackets(p.open, z) \in Places
  BY <1>2, PlacesOK
<1>4. Called("Array", p, Brackets(p.open, a)) /\ Called("ArrayEnd", Brackets(p.open, z), p)
  BY DEF Called
<1>5. Chain(Sits, <<s>>, Brackets(p.open, a), Brackets(p.open, z))
  BY <1>2, ChainOne
<1>7. <<s>> \in Seq(Steps)
  OBVIOUS
<1>6. Chain(Sits, <<Do("Array")>> \o <<s>> \o <<Do("ArrayEnd")>>, p, p)
  BY <1>1, <1>2, <1>3, <1>4, <1>5, <1>7, SitsWithin
<1> QED BY <1>6, ArrayIs

LEMMA GoodItems ==
  ASSUME NEW f \in Members
  PROVE  Good(Items(f))
<1>1. f \in Functions /\ f \in Names
  BY DEF Functions, Names
<1>2. Each(f) \in Steps /\ Each(f)[1] = "each" /\ Each(f)[2] = f
  BY <1>1, PrintStep DEF Each
<1>3. ASSUME NEW o \in Opens
      PROVE  <<Brackets(o, Member), Each(f), Brackets(o, Member)>> \in Sits
  <2>1. Brackets(o, Member) \in Lists /\ Brackets(o, Member) \in Places
    BY PlacesOK DEF Lists
  <2> QED BY <1>2, <2>1, SitIs DEF Sit
<1>4. \A p \in Objects : Chain(Sits, Array(Each(f)), p, p)
  BY <1>2, <1>3, SitsArray
<1> QED BY <1>1, <1>4, FlatLists DEF Good, Items

LEMMA GoodNumbers ==
  ASSUME NEW k \in {"index", "key"}
  PROVE  Good(Array(Values(k)))
<1>1. Values(k) \in Steps /\ Values(k)[1] = "values" /\ Values(k)[3] = 0
  BY PrintStep DEF Values, Names
<1>2. ASSUME NEW o \in Opens
      PROVE  <<Brackets(o, First), Values(k), Brackets(o, Done)>> \in Sits
  <2>1. Brackets(o, First) \in Places /\ Brackets(o, Done) \in Places
    BY PlacesOK
  <2>2. Listed(0, Brackets(o, First), Brackets(o, Done))
    BY DEF Listed
  <2> QED BY <1>1, <2>1, <2>2, SitIs DEF Sit
<1>3. \A p \in Objects : Chain(Sits, Array(Values(k)), p, p)
  BY <1>1, <1>2, SitsArray
<1> QED BY <1>3, FlatNumbers DEF Good

LEMMA GoodConfigs == Good(Array(Loop("CollectionConfig")))
<1> DEFINE s == Loop("CollectionConfig")
<1>1. s \in Steps /\ s[1] = "loop" /\ s[2] = "CollectionConfig"
  BY PrintStep DEF Loop, Names
<1>2. ASSUME NEW o \in Opens
      PROVE  <<Brackets(o, Member), s, Brackets(o, Member)>> \in Sits
  <2>1. Brackets(o, Member) \in Lists /\ Brackets(o, Member) \in Places
    BY PlacesOK DEF Lists
  <2> QED BY <1>1, <2>1, SitIs DEF Sit, ConfigsNext
<1>3. \A p \in Objects : Chain(Sits, Array(s), p, p)
  BY <1>1, <1>2, SitsArray
<1> QED BY <1>3, FlatConfigs DEF Good

(* What prints a document.                                                 *)
Whole(x) == Flat(x) /\ Chain(Sits, x, Outset, Finish)

LEMMA WholeDocument ==
  ASSUME NEW x, Good(x)
  PROVE  Whole(Document(x))
<1>1. "Header" \in Calls /\ "Footer" \in Calls
  BY DEF Calls, Opening, Closing
<1>2. <<>> \in Opens
  BY DEF Opens
<1>3. Braces(<<>>) \in Objects /\ Braces(<<>>) \in Places /\ Outset \in Places /\ Finish \in Places
  BY <1>2, PlacesOK
<1>4. Called("Header", Outset, Braces(<<>>)) /\ Called("Footer", Braces(<<>>), Finish)
  BY DEF Called
<1>5. Chain(Sits, x, Braces(<<>>), Braces(<<>>)) /\ x \in Seq(Steps)
  BY <1>3 DEF Good, Flat
<1>6. Chain(Sits, <<Do("Header")>> \o x \o <<Do("Footer")>>, Outset, Finish)
  BY <1>1, <1>3, <1>4, <1>5, SitsWithin
<1> QED BY <1>6, FlatDocument DEF Whole, Document, Good

-----------------------------------------------------------------------------
(* What the rules are shown to print: members, a document, a document that *)
(* only keeps the indentation, or an element of the array of collection    *)
(* configurations.                                                         *)
Configs == {<<Do("Item"), P("printStaticCollectionConfig"), Do("ItemEnd")>>, <<Do("Item"),
                                                                               Do("Value")>>}

Fits(f, x) ==
  \/ Good(x) /\ f \in Members
  \/ Whole(x) /\ f \in JsonRoots
  \/ Flat(x) /\ f \notin Members \cup JsonRoots \cup {"CollectionConfig"}
  \/ x \in Configs /\ f = "CollectionConfig"

Fitting(G) == \A f \in DOMAIN G : \A x \in G[f] : Fits(f, x)

(* What rules are made of is good, so that the lemma of a group of rules   *)
(* has one step for each function.                                         *)
LEMMA GoodTwo ==
  ASSUME NEW a, NEW b, Good(<<a>>), Good(<<b>>)
  PROVE  Good(<<a, b>>)
<1>1. <<a, b>> = <<a>> \o <<b>>
  BY Pair
<1> QED BY <1>1, GoodCat

LEMMA GoodParts ==
  /\ Good(<<>>) /\ Good(<<Do("Print")>>) /\ Good(<<Do("Stray")>>) /\ Good(<<Do("Value")>>)
  /\ Good(<<Do("Field")>>) /\ Good(Array(Values("index"))) /\ Good(Array(Values("key")))
  /\ \A n \in Nat : Good(Fields(n)) /\ Good(InFields(n))
  /\ Good(Array(Loop("CollectionConfig")))
  /\ \A x, y : Good(x) /\ Good(y) => Good(x \o y)
  /\ \A x : Good(x) => Good(Element(x))
  /\ Good(<<Do("Field"), Do("Print")>>) /\ Good(<<Do("Print"), Do("Print"), Do("Field")>>)
<1>1. Good(<<Do("Print")>>) /\ Good(<<Do("Stray")>>) /\ Good(<<Do("Value")>>) /\ Good(<<Do("Field")>>)
  BY GoodDo DEF Flaws
<1>2. \A x, y : Good(x) /\ Good(y) => Good(x \o y)
  BY GoodCat
<1>3. \A n \in Nat : Good(Fields(n)) /\ Good(InFields(n))
  BY GoodFields, GoodInFields
<1>4. \A x : Good(x) => Good(Element(x))
  BY GoodElement
<1>5. Good(<<Do("Field"), Do("Print")>>)
  BY <1>1, GoodTwo
<1>6. Good(<<Do("Print"), Do("Print"), Do("Field")>>)
  <2>1. <<Do("Print"), Do("Print"),
          Do("Field")>> = <<Do("Print")>> \o <<Do("Print")>> \o <<Do("Field")>>
    BY Triple
  <2> QED BY <1>1, <1>2, <2>1
<1> QED BY <1>1, <1>2, <1>3, <1>4, <1>5, <1>6, GoodNone, GoodNumbers, GoodConfigs

LEMMA GoodMembers ==
  \A f \in Members :
    /\ Good(<<P(f)>>) /\ Good(<<Loop(f)>>) /\ Good(In(f)) /\ Good(Items(f))
    /\ Good(<<Do("Print"), P(f)>>) /\ Good(<<Do("Field"), P(f)>>)
<1>1. \A f \in Members : Good(<<P(f)>>) /\ Good(<<Loop(f)>>)
  BY GoodPrint
<1>2. Good(<<Do("Print")>>) /\ Good(<<Do("Field")>>)
  BY GoodParts
<1>3. \A f \in Members : Good(<<Do("Print"), P(f)>>) /\ Good(<<Do("Field"), P(f)>>)
  BY <1>1, <1>2, GoodTwo
<1> QED BY <1>1, <1>3, GoodIn, GoodItems

LEMMA FlatParts ==
  /\ \A n \in Nat : Flat(Fields(n))
  /\ \A x, y : Flat(x) /\ Flat(y) => Flat(x \o y)
  /\ \A x : Flat(x) => Flat(Element(x)) /\ Flat(Document(x))
  /\ \A f \in Functions : Flat(Array(Loop(f))) /\ Flat(<<Do("Array0"), Each(f), Do("ArrayEnd")>>)
<1>1. \A x, y : Flat(x) /\ Flat(y) => Flat(x \o y)
  BY FlatCat
<1>2. \A x : Flat(x) => Flat(Element(x)) /\ Flat(Document(x))
  BY FlatElement, FlatDocument
<1>3. \A f \in Functions : Flat(Array(Loop(f))) /\ Flat(<<Do("Array0"), Each(f), Do("ArrayEnd")>>)
  BY FlatLists
<1> QED BY <1>1, <1>2, <1>3, FlatFields

LEMMA WholeParts == \A x : Good(x) => Whole(Document(x))
BY WholeDocument

LEMMA ResponseRulesFit == Fitting(ResponseRules)
<1>1. {"PrintEndorsement", "PrintProposalResponse", "PrintProposalResponsePayload",
       "PrintResponse", "PrintTxProposalResponse"} \subseteq Members
  BY DEF Members
<1>2. {"PrintEndorsement", "PrintProposalResponse", "PrintProposalResponsePayload",
       "PrintResponse"} \subseteq Functions
  BY <1>1 DEF Functions
<1>3. \A x \in ResponseRules.PrintTxProposalResponse : Good(x)
  BY <1>1, GoodParts, GoodMembers DEF ResponseRules
<1>4. \A x \in ResponseRules.PrintProposalResponse : Good(x)
  BY <1>1, GoodParts, GoodMembers DEF ResponseRules
<1>5. \A x \in ResponseRules.PrintResponses : Flat(x)
  BY <1>2, FlatParts DEF ResponseRules
<1>6. \A x \in ResponseRules.PrintResponse : Good(x)
  BY <1>1, GoodParts, GoodMembers DEF ResponseRules
<1>7. DOMAIN ResponseRules = {"PrintTxProposalResponse", "PrintProposalResponse",
                              "PrintResponses", "PrintResponse"}
  BY DEF ResponseRules
<1>8. /\ {"PrintResponses"}
           \cap (Members \cup JsonRoots \cup {"CollectionConfig"}) = {}
  BY DEF Members, JsonRoots
<1> QED BY <1>1, <1>3, <1>4, <1>5, <1>6, <1>7, <1>8 DEF Fitting, Fits

LEMMA EnvelopeRulesFit == Fitting(EnvelopeRules)
<1>1. {"PrintChaincodeID", "PrintChaincodeInfo", "PrintChannelHeader", "PrintConfig",
       "PrintConfigEnvelope", "PrintConfigSignature", "PrintConfigUpdate",
       "PrintConfigUpdateEnvelope", "PrintData", "PrintEnvelope", "PrintPayload",
       "PrintSignatureHeader", "PrintTransaction"} \subseteq Members
  BY DEF Members
<1>2. \A x \in EnvelopeRules.PrintEnvelope : Good(x)
  BY <1>1, GoodParts, GoodMembers DEF EnvelopeRules
<1>3. \A x \in EnvelopeRules.PrintPayload : Good(x)
  BY <1>1, GoodParts, GoodMembers DEF EnvelopeRules
<1>4. \A x \in EnvelopeRules.PrintChannelHeader : Good(x)
  BY <1>1, GoodParts, GoodMembers DEF EnvelopeRules
<1>5. \A x \in EnvelopeRules.PrintChaincodeID : Good(x)
  BY <1>1, GoodParts, GoodMembers DEF EnvelopeRules
<1>6. \A x \in EnvelopeRules.PrintChaincodeInfo : Good(x)
  BY <1>1, GoodParts, GoodMembers DEF EnvelopeRules
<1>7. \A x \in EnvelopeRules.PrintSignatureHeader : Good(x)
  BY <1>1, GoodParts, GoodMembers DEF EnvelopeRules
<1>8. \A x \in EnvelopeRules.PrintData : Good(x)
  BY <1>1, GoodParts, GoodMembers DEF EnvelopeRules
<1>9. \A x \in EnvelopeRules.PrintConfigEnvelope : Good(x)
  BY <1>1, GoodParts, GoodMembers DEF EnvelopeRules
<1>10. \A x \in EnvelopeRules.PrintConfigUpdateEnvelope : Good(x)
  BY <1>1, GoodParts, GoodMembers DEF EnvelopeRules
<1>11. DOMAIN EnvelopeRules = {"PrintEnvelope", "PrintPayload", "PrintChannelHeader",
                               "PrintChaincodeID",
       "PrintChaincodeInfo", "PrintSignatureHeader", "PrintData", "PrintConfigEnvelope",
       "PrintConfigUpdateEnvelope"}
  BY DEF EnvelopeRules
<1>12. \A f \in DOMAIN EnvelopeRules : \A x \in EnvelopeRules[f] : Good(x)
  BY <1>2, <1>3, <1>4, <1>5, <1>6, <1>7, <1>8, <1>9, <1>10, <1>11
<1> QED BY <1>1, <1>11, <1>12 DEF Fitting, Fits

LEMMA TransactionRulesFit == Fitting(TransactionRules)
<1>1. {"PrintAction", "PrintChaincodeAction", "PrintChaincodeActionPayload",
       "PrintChaincodeInvocationSpec", "PrintChaincodeProposalPayload", "PrintChaincodeSpec",
       "PrintEndorsement", "PrintFilteredCCAction", "PrintProposalResponsePayload",
       "PrintSignatureHeader", "PrintTXAction", "PrintTransaction", "TransientValue"} \subseteq Members
  BY DEF Members
<1>2. {"PrintAction", "PrintChaincodeAction", "PrintChaincodeActionPayload",
       "PrintChaincodeInvocationSpec", "PrintChaincodeProposalPayload", "PrintChaincodeSpec",
       "PrintEndorsement", "PrintFilteredCCAction", "PrintProposalResponsePayload",
       "PrintSignatureHeader", "PrintTXAction", "TransientValue"} \subseteq Functions
  BY <1>1 DEF Functions
<1>3. \A x \in TransactionRules.PrintTransaction : Good(x)
  BY <1>1, GoodParts, GoodMembers DEF TransactionRules
<1>4. \A x \in TransactionRules.PrintFilteredTransaction : Flat(x)
  BY <1>2, FlatParts DEF TransactionRules
<1>5. \A x \in TransactionRules.PrintTXAction : Good(x)
  BY <1>1, GoodParts, GoodMembers DEF TransactionRules
<1>6. \A x \in TransactionRules.PrintFilteredCCAction : Good(x)
  BY <1>1, GoodParts, GoodMembers DEF TransactionRules
<1>7. \A x \in TransactionRules.PrintChaincodeActionPayload : Good(x)
  BY <1>1, GoodParts, GoodMembers DEF TransactionRules
<1>8. \A x \in TransactionRules.PrintChaincodeProposalPayload : Good(x)
  BY <1>1, GoodParts, GoodMembers DEF TransactionRules
<1>9. \A x \in TransactionRules.TransientValue : Good(x)
  BY <1>1, GoodParts, GoodMembers DEF TransactionRules
<1>10. \A x \in TransactionRules.PrintChaincodeInvocationSpec : Good(x)
  BY <1>1, GoodParts, GoodMembers DEF TransactionRules
<1>11. \A x \in TransactionRules.PrintAction : Good(x)
  BY <1>1, GoodParts, GoodMembers DEF TransactionRules
<1>12. \A x \in TransactionRules.PrintProposalResponsePayload : Good(x)
  BY <1>1, GoodParts, GoodMembers DEF TransactionRules
<1>13. DOMAIN TransactionRules = {"PrintTransaction", "PrintFilteredTransaction",
                                  "PrintTXAction", "PrintFilteredCCAction",
       "PrintChaincodeActionPayload", "PrintChaincodeProposalPayload", "TransientValue",
       "PrintChaincodeInvocationSpec", "PrintAction", "PrintProposalResponsePayload"}
  BY DEF TransactionRules
<1>14. /\ {"PrintFilteredTransaction"}
           \cap (Members \cup JsonRoots \cup {"CollectionConfig"}) = {}
  BY DEF Members, JsonRoots
<1> QED BY <1>1, <1>3, <1>4, <1>5, <1>6, <1>7, <1>8, <1>9, <1>10, <1>11, <1>12, <1>13,
           <1>14 DEF Fitting, Fits

LEMMA RwSetRulesFit == Fitting(RwSetRules)
<1>1. {"PrintChaincodeAction", "PrintCollHashedRwSet", "PrintCollHashedRwSets", "PrintHashedRead",
       "PrintHashedRwSet", "PrintHashedWrite", "PrintKvRwSet", "PrintLSCCWrite",
       "PrintNsReadWriteSet", "PrintRangeQueryInfo", "PrintRead", "PrintTxReadWriteSet",
       "PrintVersion", "PrintWrite"} \subseteq Members
  BY DEF Members
<1>2. \A x \in RwSetRules.PrintChaincodeAction : Good(x)
  BY <1>1, GoodParts, GoodMembers DEF RwSetRules
<1>3. \A x \in RwSetRules.PrintTxReadWriteSet : Good(x)
  BY <1>1, GoodParts, GoodMembers DEF RwSetRules
<1>4. \A x \in RwSetRules.PrintNsReadWriteSet : Good(x)
  BY <1>1, GoodParts, GoodMembers DEF RwSetRules
<1>5. \A x \in RwSetRules.PrintKvRwSet : Good(x)
  BY <1>1, GoodParts, GoodMembers DEF RwSetRules
<1>6. \A x \in RwSetRules.PrintCollHashedRwSets : Good(x)
  BY <1>1, GoodParts, GoodMembers DEF RwSetRules
<1>7. \A x \in RwSetRules.PrintCollHashedRwSet : Good(x)
  BY <1>1, GoodParts, GoodMembers DEF RwSetRules
<1>8. \A x \in RwSetRules.PrintHashedRwSet : Good(x)
  BY <1>1, GoodParts, GoodMembers DEF RwSetRules
<1>9. \A x \in RwSetRules.PrintHashedRead : Good(x)
  BY <1>1, GoodParts, GoodMembers DEF RwSetRules
<1>10. DOMAIN RwSetRules = {"PrintChaincodeAction", "PrintTxReadWriteSet", "PrintNsReadWriteSet",
                            "PrintKvRwSet",
       "PrintCollHashedRwSets", "PrintCollHashedRwSet", "PrintHashedRwSet", "PrintHashedRead"}
  BY DEF RwSetRules
<1>11. \A f \in DOMAIN RwSetRules : \A x \in RwSetRules[f] : Good(x)
  BY <1>2, <1>3, <1>4, <1>5, <1>6, <1>7, <1>8, <1>9, <1>10
<1> QED BY <1>1, <1>10, <1>11 DEF Fitting, Fits

LEMMA ReadRulesFit == Fitting(ReadRules)
<1>1. {"PrintEndorsement", "PrintHashedWrite", "PrintLSCCWrite", "PrintRangeQueryInfo",
       "PrintRead", "PrintReadsInfo", "PrintVersion", "PrintWrite", "doPrintChaincodeData",
       "doPrintCollConfig"} \subseteq Members
  BY DEF Members
<1>2. \A x \in ReadRules.PrintHashedWrite : Good(x)
  BY <1>1, GoodParts, GoodMembers DEF ReadRules
<1>3. \A x \in ReadRules.PrintRangeQueryInfo : Good(x)
  BY <1>1, GoodParts, GoodMembers DEF ReadRules
<1>4. \A x \in ReadRules.PrintReadsInfo : Good(x)
  BY <1>1, GoodParts, GoodMembers DEF ReadRules
<1>5. \A x \in ReadRules.PrintRead : Good(x)
  BY <1>1, GoodParts, GoodMembers DEF ReadRules
<1>6. \A x \in ReadRules.PrintVersion : Good(x)
  BY <1>1, GoodParts, GoodMembers DEF ReadRules
<1>7. \A x \in ReadRules.PrintWrite : Good(x)
  BY <1>1, GoodParts, GoodMembers DEF ReadRules
<1>8. \A x \in ReadRules.PrintLSCCWrite : Good(x)
  <2>1. /\ Good(<<>>) /\ Good(In("doPrintChaincodeData")) /\ Good(<<P("doPrintCollConfig")>>)
        /\ Good(<<Do("Stray")>>)
    BY <1>1, GoodParts, GoodMembers
  <2>2. Good(Fields(2)) /\ \A x, y : Good(x) /\ Good(y) => Good(x \o y)
    BY GoodParts
  <2> QED BY <2>1, <2>2 DEF ReadRules
<1>9. \A x \in ReadRules.PrintEndorsement : Good(x)
  BY <1>1, GoodParts, GoodMembers DEF ReadRules
<1>10. DOMAIN ReadRules = {"PrintHashedWrite", "PrintRangeQueryInfo", "PrintReadsInfo",
                           "PrintRead", "PrintVersion",
       "PrintWrite", "PrintLSCCWrite", "PrintEndorsement"}
  BY DEF ReadRules
<1>11. \A f \in DOMAIN ReadRules : \A x \in ReadRules[f] : Good(x)
  BY <1>2, <1>3, <1>4, <1>5, <1>6, <1>7, <1>8, <1>9, <1>10
<1> QED BY <1>1, <1>10, <1>11 DEF Fitting, Fits

LEMMA ConfigRulesFit == Fitting(ConfigRules)
<1>1. {"PrintConfig", "PrintConfigGroup", "PrintConfigPolicy", "PrintConfigValue",
       "PrintMSPPrincipal", "PrintSignaturePolicy", "PrintSignaturePolicyEnvelope"} \subseteq Members
  BY DEF Members
<1>2. \A x \in ConfigRules.PrintConfig : Good(x)
  BY <1>1, GoodParts, GoodMembers DEF ConfigRules
<1>3. \A x \in ConfigRules.PrintConfigGroup : Good(x)
  BY <1>1, GoodParts, GoodMembers DEF ConfigRules
<1>4. \A x \in ConfigRules.PrintConfigPolicy : Good(x)
  BY <1>1, GoodParts, GoodMembers DEF ConfigRules
<1>5. \A x \in ConfigRules.PrintSignaturePolicyEnvelope : Good(x)
  BY <1>1, GoodParts, GoodMembers DEF ConfigRules
<1>6. DOMAIN ConfigRules = {"PrintConfig", "PrintConfigGroup", "PrintConfigPolicy",
                            "PrintSignaturePolicyEnvelope"}
  BY DEF ConfigRules
<1>7. \A f \in DOMAIN ConfigRules : \A x \in ConfigRules[f] : Good(x)
  BY <1>2, <1>3, <1>4, <1>5, <1>6
<1> QED BY <1>1, <1>6, <1>7 DEF Fitting, Fits

LEMMA PolicyRulesFit == Fitting(PolicyRules)
<1>1. {"PrintMSPPrincipal", "PrintSignaturePolicy"} \subseteq Members
  BY DEF Members
<1>2. \A x \in PolicyRules.PrintMSPPrincipal : Good(x)
  BY <1>1, GoodParts, GoodMembers DEF PolicyRules
<1>3. \A x \in PolicyRules.PrintSignaturePolicy : Good(x)
  BY <1>1, GoodParts, GoodMembers DEF PolicyRules
<1>4. DOMAIN PolicyRules = {"PrintMSPPrincipal", "PrintSignaturePolicy"}
  BY DEF PolicyRules
<1>5. \A f \in DOMAIN PolicyRules : \A x \in PolicyRules[f] : Good(x)
  BY <1>2, <1>3, <1>4
<1> QED BY <1>1, <1>4, <1>5 DEF Fitting, Fits

LEMMA ValueRulesFit == Fitting(ValueRules)
<1>1. {"Capability", "PrintAnchorPeers", "PrintCapabilities", "PrintConfigPolicy",
       "PrintConfigValue", "PrintMSPConfig"} \subseteq Members
  BY DEF Members
<1>2. \A x \in ValueRules.PrintConfigValue : Good(x)
  <2>1. /\ Good(In("PrintAnchorPeers")) /\ Good(In("PrintMSPConfig")) /\ Good(In("PrintConfigPolicy"))
        /\ Good(In("PrintCapabilities")) /\ Good(<<Do("Print")>>)
    BY <1>1, GoodParts, GoodMembers
  <2>2. Good(Fields(1)) /\ Good(Fields(2)) /\ Good(InFields(1)) /\ Good(InFields(3))
    BY GoodParts
  <2>3. \A x, y : Good(x) /\ Good(y) => Good(x \o y)
    BY GoodParts
  <2> QED BY <2>1, <2>2, <2>3 DEF ValueRules
<1>3. \A x \in ValueRules.PrintCapabilities : Good(x)
  BY <1>1, GoodParts, GoodMembers DEF ValueRules
<1>4. \A x \in ValueRules.Capability : Good(x)
  BY <1>1, GoodParts, GoodMembers DEF ValueRules
<1>5. DOMAIN ValueRules = {"PrintConfigValue", "PrintCapabilities", "Capability"}
  BY DEF ValueRules
<1>6. \A f \in DOMAIN ValueRules : \A x \in ValueRules[f] : Good(x)
  BY <1>2, <1>3, <1>4, <1>5
<1> QED BY <1>1, <1>5, <1>6 DEF Fitting, Fits

LEMMA MetadataRulesFit == Fitting(MetadataRules)
<1>1. {"PrintAnchorPeer", "PrintAnchorPeers", "PrintBlockMetadata", "PrintConfigGroup",
       "PrintConfigSignature", "PrintConfigUpdate", "PrintMSPConfig",
       "PrintSignatureHeader"} \subseteq Members
  BY DEF Members
<1>2. \A x \in MetadataRules.PrintMSPConfig : Good(x)
  BY <1>1, GoodParts, GoodMembers DEF MetadataRules
<1>3. \A x \in MetadataRules.PrintAnchorPeers : Good(x)
  BY <1>1, GoodParts, GoodMembers DEF MetadataRules
<1>4. \A x \in MetadataRules.PrintAnchorPeer : Good(x)
  BY <1>1, GoodParts, GoodMembers DEF MetadataRules
<1>5. \A x \in MetadataRules.PrintConfigSignature : Good(x)
  BY <1>1, GoodParts, GoodMembers DEF MetadataRules
<1>6. \A x \in MetadataRules.PrintConfigUpdate : Good(x)
  BY <1>1, GoodParts, GoodMembers DEF MetadataRules
<1>7. \A x \in MetadataRules.PrintBlockMetadata : Good(x)
  BY <1>1, GoodParts, GoodMembers DEF MetadataRules
<1>8. DOMAIN MetadataRules = {"PrintMSPConfig", "PrintAnchorPeers", "PrintAnchorPeer",
                              "PrintConfigSignature",
       "PrintConfigUpdate", "PrintBlockMetadata"}
  BY DEF MetadataRules
<1>9. \A f \in DOMAIN MetadataRules : \A x \in MetadataRules[f] : Good(x)
  BY <1>2, <1>3, <1>4, <1>5, <1>6, <1>7, <1>8
<1> QED BY <1>1, <1>8, <1>9 DEF Fitting, Fits

LEMMA SpecRulesFit == Fitting(SpecRules)
<1>1. {"PrintChaincodeID", "PrintChaincodeInput", "PrintChaincodeSpec", "PrintPeer"} \subseteq Members
  BY DEF Members
<1>2. \A x \in SpecRules.PrintChaincodeSpec : Good(x)
  BY <1>1, GoodParts, GoodMembers DEF SpecRules
<1>3. \A x \in SpecRules.PrintChaincodeInput : Good(x)
  BY <1>1, GoodParts, GoodMembers DEF SpecRules
<1>4. \A x \in SpecRules.PrintPeer : Good(x)
  BY <1>1, GoodParts, GoodMembers DEF SpecRules
<1>5. DOMAIN SpecRules = {"PrintChaincodeSpec", "PrintChaincodeInput", "PrintPeer"}
  BY DEF SpecRules
<1>6. \A f \in DOMAIN SpecRules : \A x \in SpecRules[f] : Good(x)
  BY <1>2, <1>3, <1>4, <1>5
<1> QED BY <1>1, <1>5, <1>6 DEF Fitting, Fits

LEMMA DataRulesFit == Fitting(DataRules)
<1>1. {"PrintSignaturePolicyEnvelope", "PrintTxProposalResponse", "doPrintChaincodeData",
       "doPrintCollConfig", "printStaticCollectionConfig"} \subseteq Members
  BY DEF Members
<1>2. {"PrintSignaturePolicyEnvelope", "PrintTxProposalResponse",
       "printStaticCollectionConfig"} \subseteq Functions
  BY <1>1 DEF Functions
<1>3. \A x \in DataRules.doPrintChaincodeData : Good(x)
  BY <1>1, GoodParts, GoodMembers DEF DataRules
<1>4. \A x \in DataRules.doPrintCollConfig : Good(x)
  BY <1>1, GoodParts, GoodMembers DEF DataRules
<1>5. \A x \in DataRules.CollectionConfig : x \in Configs
  BY DEF DataRules, Configs
<1>6. \A x \in DataRules.printStaticCollectionConfig : Good(x)
  BY <1>1, GoodParts, GoodMembers DEF DataRules
<1>7. \A x \in DataRules.PrintTxProposalResponses : Flat(x)
  BY <1>2, FlatParts DEF DataRules
<1>8. \A x \in DataRules.PrintChaincodeEvent : Whole(x)
  BY <1>1, GoodParts, GoodMembers, WholeParts DEF DataRules
<1>9. DOMAIN DataRules = {"doPrintChaincodeData", "doPrintCollConfig", "CollectionConfig",
       "printStaticCollectionConfig", "PrintTxProposalResponses", "PrintChaincodeEvent"}
  BY DEF DataRules
<1>10. /\ {"PrintChaincodeEvent"} \subseteq JsonRoots
       /\ {"PrintTxProposalResponses"}
           \cap (Members \cup JsonRoots \cup {"CollectionConfig"}) = {}
  BY DEF Members, JsonRoots
<1> QED BY <1>1, <1>3, <1>4, <1>5, <1>6, <1>7, <1>8, <1>9, <1>10 DEF Fitting, Fits

LEMMA DocumentRulesFit == Fitting(DocumentRules)
<1>1. {"ChannelId", "PrintBlockMetadata", "PrintChaincodeInfo", "PrintEnvelope", "PrintPeer",
       "doPrintChaincodeData", "doPrintCollConfig"} \subseteq Members
  BY DEF Members
<1>2. {"ChannelId", "PrintBlockMetadata", "PrintChaincodeInfo", "PrintEnvelope",
       "PrintFilteredTransaction", "PrintPeer", "doPrintChaincodeData",
       "doPrintCollConfig"} \subseteq Functions
  BY <1>1 DEF Functions
<1>3. \A x \in DocumentRules.PrintBlockchainInfo : Whole(x)
  BY <1>1, GoodParts, GoodMembers, WholeParts DEF DocumentRules
<1>4. \A x \in DocumentRules.PrintBlock : Whole(x)
  BY <1>1, GoodParts, GoodMembers, WholeParts DEF DocumentRules
<1>5. \A x \in DocumentRules.PrintFilteredBlock : Flat(x)
  BY <1>2, FlatParts DEF DocumentRules
<1>6. \A x \in DocumentRules.PrintChannels : Flat(x)
  BY <1>2, FlatParts DEF DocumentRules
<1>7. \A x \in DocumentRules.ChannelId : Good(x)
  BY <1>1, GoodParts, GoodMembers DEF DocumentRules
<1>8. \A x \in DocumentRules.PrintPeers : Whole(x)
  BY <1>1, GoodParts, GoodMembers, WholeParts DEF DocumentRules
<1>9. \A x \in DocumentRules.PrintChaincodes : Flat(x)
  BY <1>2, FlatParts DEF DocumentRules
<1>10. \A x \in DocumentRules.PrintProcessedTransaction : Whole(x)
  BY <1>1, GoodParts, GoodMembers, WholeParts DEF DocumentRules
<1>11. \A x \in DocumentRules.PrintChaincodeData : Whole(x)
  BY <1>1, GoodParts, GoodMembers, WholeParts DEF DocumentRules
<1>12. DOMAIN DocumentRules = {"PrintBlockchainInfo", "PrintBlock", "PrintFilteredBlock",
                               "PrintChannels", "ChannelId",
       "PrintPeers", "PrintChaincodes", "PrintProcessedTransaction", "PrintChaincodeData"}
  BY DEF DocumentRules
<1>13. /\ {"PrintBlockchainInfo", "PrintBlock", "PrintPeers", "PrintProcessedTransaction",
              "PrintChaincodeData"} \subseteq JsonRoots
       /\ {"PrintFilteredBlock", "PrintChannels", "PrintChaincodes"}
           \cap (Members \cup JsonRoots \cup {"CollectionConfig"}) = {}
  BY DEF Members, JsonRoots
<1> QED BY <1>1, <1>3, <1>4, <1>5, <1>6, <1>7, <1>8, <1>9, <1>10, <1>11, <1>12, <1>13 DEF Fitting, Fits

LEMMA RulesFit ==
  ASSUME NEW f, NEW x \in Rules(f)
  PROVE  Fits(f, x)
<1>1. PICK G \in RuleGroups : f \in DOMAIN G /\ x \in G[f]
  BY DEF Rules
<1>2. Fitting(G)
  BY DocumentRulesFit, DataRulesFit, ResponseRulesFit, EnvelopeRulesFit, TransactionRulesFit,
     RwSetRulesFit,
     ReadRulesFit, ConfigRulesFit, PolicyRulesFit, ValueRulesFit, MetadataRulesFit,
     SpecRulesFit DEF RuleGroups
<1> QED BY <1>1, <1>2 DEF Fitting

-----------------------------------------------------------------------------

(* A function is entered, or a loop goes on or ends: what is put in the    *)
(* place of the step leads from where the step did to where it did.        *)
LEMMA FlatItem ==
  ASSUME NEW f \in Functions
  PROVE  Flat(<<Do("Item"), P(f), Do("ItemEnd")>>)
<1>1. Flat(<<P(f)>>)
  BY FlatPrint
<1>2. \A a, b, c : <<a, b, c>> = <<a>> \o <<b>> \o <<c>>
  BY Triple
<1>3. <<Do("Item"), P(f), Do("ItemEnd")>> = <<Do("Item")>> \o <<P(f)>> \o <<Do("ItemEnd")>>
  BY <1>2
<1>4. Flat(<<Do("Item")>> \o <<P(f)>> \o <<Do("ItemEnd")>>)
  BY <1>1, FlatWithin DEF Flat
<1> QED BY <1>3, <1>4

LEMMA DriftNext ==
  ASSUME NEW d \in Nat, NEW s \in Steps, <<d, s, d>> \in Drifts, s[1] \in {"each", "loop", "values"}
  PROVE  <<s[1], s[2], s[3] + 1>> \in Steps /\ <<d, <<s[1], s[2], s[3] + 1>>, d>> \in Drifts
<1> DEFINE n == <<s[1], s[2], s[3] + 1>>
<1>1. n \in Steps /\ n[1] = s[1] /\ n[2] = s[2]
  BY DEF Steps
<1> HIDE DEF n
<1>2. s # P("CollectionConfig")
  BY DEF P
<1> QED BY <1>1, <1>2, DriftIs DEF Drift, ConfigsNext, n

LEMMA DriftMore ==
  ASSUME NEW d \in Nat, NEW e, NEW s \in Steps, <<d, s, e>> \in Drifts, s[1] \in {"each", "loop",
                                                                                  "values"}
  PROVE  d = e /\ OneMore(s) \in Seq(Steps) /\ Chain(Drifts, OneMore(s), d, d)
<1>0. s # P("CollectionConfig")
  BY DEF P
<1>1. d = e
  BY <1>0, DriftIs DEF Drift, ConfigsNext
<1>2. CASE s[1] = "each"
  <2>1. s[2] \in Functions
    BY <1>0, <1>2, DriftIs DEF Drift, ConfigsNext
  <2>2. OneMore(s) = <<Do("Item"), P(s[2]), Do("ItemEnd")>>
    BY <1>2 DEF OneMore
  <2> QED BY <1>1, <2>1, <2>2, FlatItem DEF Flat
<1>3. CASE s[1] = "loop"
  <2>1. OneMore(s) = <<P(s[2])>>
    BY <1>3 DEF OneMore
  <2>2. s[2] \in Functions \/ (s[2] = "CollectionConfig" /\ d > 0)
    <3>1. s[2] \in Functions \/ (ConfigsNext(s) /\ d > 0)
      BY <1>3, DriftIs DEF Drift
    <3> QED BY <1>0, <3>1 DEF ConfigsNext
  <2>3. P(s[2]) \in Steps
    BY <2>2, PrintStep DEF Names
  <2>4. <<d, P(s[2]), d>> \in Drifts
    <3>1. CASE s[2] \in Functions
      BY <3>1, DriftPrint
    <3>2. CASE s[2] = "CollectionConfig" /\ d > 0
      <4>1. Drift(d, P(s[2]), d)
        BY <3>2 DEF Drift, ConfigsNext
      <4> QED BY <2>3, <4>1, DriftIs
    <3> QED BY <2>2, <3>1, <3>2
  <2> QED BY <1>1, <2>1, <2>3, <2>4, ChainOne
<1>4. CASE s[1] = "values"
  <2>1. PICK c \in {"ItemK", "Item0", "ItemN"} : OneMore(s) = <<Do(c)>>
    BY <1>4 DEF OneMore
  <2>2. Flat(<<Do(c)>>)
    BY FlatDo DEF Level
  <2> QED BY <1>1, <2>1, <2>2 DEF Flat
<1> QED BY <1>2, <1>3, <1>4

LEMMA DriftExpand ==
  ASSUME NEW d \in Nat, NEW e, NEW s \in Steps, <<d, s, e>> \in Drifts, s[1] # "do",
         NEW x \in Alternatives(s)
  PROVE  /\ x \in Seq(Steps)
         /\ ~IsStray(s, x) => Chain(Drifts, x, d, e)
         /\ IsStray(s, x) => d > 0 /\ Chain(Drifts, x, d - 1, e)
<1>1. CASE s[1] = "print" /\ s[2] \in Functions
  <2>1. x \in Rules(s[2])
    BY <1>1 DEF Alternatives
  <2>2. s[2] # "CollectionConfig" /\ s # P("CollectionConfig")
    BY <1>1 DEF Functions, Members, Roots, P
  <2>3. Flat(x)
    BY <2>1, <2>2, RulesFit DEF Fits, Good, Whole
  <2>4. d = e /\ ~IsStray(s, x)
    BY <1>1, <2>2, DriftIs DEF Drift, IsStray, ConfigsNext
  <2> QED BY <2>3, <2>4 DEF Flat
<1>2. CASE s = P("CollectionConfig")
  <2>1. x \in Rules("CollectionConfig")
    BY <1>2 DEF Alternatives, P
  <2>2. "CollectionConfig" \notin Members \cup JsonRoots \cup Functions
    BY DEF Members, JsonRoots, Functions, Roots
  <2>3. x \in Configs
    BY <2>1, <2>2, RulesFit DEF Fits
  <2>4. d = e /\ d > 0
    BY <1>2, <2>2, DriftIs DEF Drift, P, ConfigsNext
  <2>5. CASE x = <<Do("Item"), P("printStaticCollectionConfig"), Do("ItemEnd")>>
    <3>1. Do("ItemEnd") \in ToSet(x)
      BY <2>5 DEF ToSet
    <3>2. "printStaticCollectionConfig" \in Functions
      BY DEF Functions, Members
    <3>3. Flat(x)
      BY <2>5, <3>2, FlatItem
    <3> QED BY <2>4, <3>1, <3>3 DEF Flat, IsStray
  <2>6. CASE x = <<Do("Item"), Do("Value")>>
    <3>1. Do("ItemEnd") \notin ToSet(x)
      BY <2>6 DEF ToSet, Do
    <3>2. d - 1 \in Nat /\ Indent(d - 1, "Item") = d /\ Indent(d, "Value") = d
      BY <2>4 DEF Indent, Opening, Closing
    <3>3. "Item" \in Calls /\ "Value" \in Calls
      BY DEF Calls, Opening
    <3>4. <<d - 1, Do("Item"), d>> \in Drifts /\ <<d, Do("Value"), d>> \in Drifts
      BY <3>2, <3>3, DriftDo
    <3>5. Chain(Drifts, <<Do("Item")>>, d - 1, d) /\ Chain(Drifts, <<Do("Value")>>, d, d)
      BY <3>4, ChainOne
    <3>6. Do("Item") \in Steps /\ Do("Value") \in Steps
      BY <3>3, DoStep
    <3>7. Chain(Drifts, <<Do("Item")>> \o <<Do("Value")>>, d - 1, d)
      <4>1. <<Do("Item")>> \in Seq(Steps) /\ <<Do("Value")>> \in Seq(Steps)
        BY <3>6
      <4> QED BY <3>5, <4>1, ChainCat
    <3>8. \A a, b : <<a, b>> = <<a>> \o <<b>>
      BY Pair
    <3>9. x = <<Do("Item")>> \o <<Do("Value")>>
      BY <2>6, <3>8
    <3>10. x \in Seq(Steps)
      BY <2>6, <3>6
    <3> QED BY <1>2, <2>4, <3>1, <3>7, <3>9, <3>10 DEF IsStray
  <2> QED BY <2>3, <2>5, <2>6 DEF Configs
<1>3. CASE s[1] \in {"each", "loop", "values"}
  <2>1. s[1] # "print" /\ s # P("CollectionConfig")
    BY <1>3 DEF P
  <2>2. x = <<>> \/ x = OneMore(s) \o <<<<s[1], s[2], s[3] + 1>>>>
    BY <2>1 DEF Alternatives, MoreItems
  <2>3. ~IsStray(s, x)
    BY <2>1 DEF IsStray
  <2>4. d = e /\ OneMore(s) \in Seq(Steps) /\ Chain(Drifts, OneMore(s), d, d)
    BY <1>3, DriftMore
  <2>5. CASE x = <<>>
    BY <2>3, <2>4, <2>5, ChainNone
  <2>6. CASE x = OneMore(s) \o <<<<s[1], s[2], s[3] + 1>>>>
    <3>1. PICK n \in Steps : n = <<s[1], s[2], s[3] + 1>> /\ <<d, n, d>> \in Drifts
      BY <1>3, <2>4, DriftNext
    <3>2. <<n>> \in Seq(Steps) /\ Chain(Drifts, <<n>>, d, d)
      BY <3>1, ChainOne
    <3>3. x = OneMore(s) \o <<n>>
      BY <2>6, <3>1
    <3>4. x \in Seq(Steps)
      BY <2>4, <3>2, <3>3
    <3>5. Chain(Drifts, x, d, d)
      BY <2>4, <3>2, <3>3, ChainCat
    <3> QED BY <2>3, <2>4, <3>4, <3>5
  <2> QED BY <2>2, <2>5, <2>6
<1> QED BY <1>1, <1>2, <1>3, DriftIs DEF Drift, ConfigsNext

(* ... and the same of the places of a document.                           *)
LEMMA MoreSteps ==
  ASSUME NEW s \in Steps, s[1] \in {"each", "loop"}
  PROVE  OneMore(s) \in Seq(Steps)
<1>1. P(s[2]) \in Steps
  BY PrintStep DEF Steps
<1>2. "Item" \in Calls /\ "ItemEnd" \in Calls
  BY DEF Calls, Opening, Closing
<1>3. Do("Item") \in Steps /\ Do("ItemEnd") \in Steps
  BY <1>2, DoStep
<1>4. OneMore(s) = <<Do("Item"), P(s[2]), Do("ItemEnd")>> \/ OneMore(s) = <<P(s[2])>>
  BY DEF OneMore
<1>5. <<Do("Item"), P(s[2]), Do("ItemEnd")>> \in Seq(Steps) /\ <<P(s[2])>> \in Seq(Steps)
  BY <1>1, <1>3
<1> QED BY <1>4, <1>5

LEMMA SitItem ==
  ASSUME NEW f \in Members, NEW p \in Lists
  PROVE  Chain(Sits, <<Do("Item"), P(f), Do("ItemEnd")>>, p, p)
<1>1. "Item" \in Calls /\ "ItemEnd" \in Calls
  BY DEF Calls, Opening, Closing
<1>2. p \in Places /\ p.open \in Opens
  BY PlacesOK DEF Places
<1>3. Braces(p.open) \in Objects /\ Braces(p.open) \in Places
  BY <1>2, PlacesOK
<1>4. Called("Item", p, Braces(p.open)) /\ Called("ItemEnd", Braces(p.open), p)
  BY DEF Called
<1>5. Chain(Sits, <<P(f)>>, Braces(p.open), Braces(p.open)) /\ <<P(f)>> \in Seq(Steps)
  BY <1>3, GoodPrint DEF Good, Flat
<1>6. Chain(Sits, <<Do("Item")>> \o <<P(f)>> \o <<Do("ItemEnd")>>, p, p)
  BY <1>1, <1>2, <1>3, <1>4, <1>5, SitsWithin
<1>7. \A a, b, c : <<a, b, c>> = <<a>> \o <<b>> \o <<c>>
  BY Triple
<1>8. <<Do("Item"), P(f), Do("ItemEnd")>> = <<Do("Item")>> \o <<P(f)>> \o <<Do("ItemEnd")>>
  BY <1>7
<1> QED BY <1>6, <1>8

LEMMA SitConfig ==
  ASSUME NEW x \in Configs, NEW p \in Lists
  PROVE  Chain(Sits, x, p, p)
<1>1. CASE x = <<Do("Item"), P("printStaticCollectionConfig"), Do("ItemEnd")>>
  <2>1. "printStaticCollectionConfig" \in Members
    BY DEF Members
  <2> QED BY <1>1, <2>1, SitItem
<1>2. CASE x = <<Do("Item"), Do("Value")>>
  <2>1. "Item" \in Calls /\ "Value" \in Calls
    BY DEF Calls, Opening, Closing
  <2>2. p \in Places /\ p.open \in Opens
    BY PlacesOK DEF Places
  <2>3. Braces(p.open) \in Places
    BY <2>2, PlacesOK
  <2>4. Called("Item", p, Braces(p.open)) /\ Called("Value", Braces(p.open), p)
    BY DEF Called, Flaws
  <2>5. Chain(Sits, <<Do("Item")>>, p, Braces(p.open)) /\ Chain(Sits, <<Do("Value")>>,
                                                                Braces(p.open), p)
    BY <2>1, <2>2, <2>3, <2>4, SitDo, ChainOne
  <2>6. <<Do("Item")>> \in Seq(Steps) /\ <<Do("Value")>> \in Seq(Steps)
    <3>1. Do("Item") \in Steps /\ Do("Value") \in Steps
      BY <2>1, DoStep
    <3> QED BY <3>1
  <2>7. Chain(Sits, <<Do("Item")>> \o <<Do("Value")>>, p, p)
    BY <2>5, <2>6, ChainCat
  <2>8. \A a, b : <<a, b>> = <<a>> \o <<b>>
    BY Pair
  <2>9. <<Do("Item"), Do("Value")>> = <<Do("Item")>> \o <<Do("Value")>>
    BY <2>8
  <2> QED BY <1>2, <2>7, <2>9
<1> QED BY <1>1, <1>2 DEF Configs

LEMMA SitMore ==
  ASSUME NEW p, NEW q, NEW s \in Steps, <<p, s, q>> \in Sits, s[1] \in {"each", "loop"}
  PROVE  /\ p = q
         /\ Chain(Sits, OneMore(s), p, p)
         /\ <<p, <<s[1], s[2], s[3] + 1>>, p>> \in Sits
<1> DEFINE n == <<s[1], s[2], s[3] + 1>>
<1>0. s # P("CollectionConfig") /\ s[1] # "do" /\ s[1] # "print" /\ s[1] # "values"
  BY DEF P
<1>1. p \in Places /\ Sit(p, s, q)
  BY SitIs
<1>2. /\ p = q
      /\ \/ s[1] = "loop" /\ s[2] \in Members /\ p \in Objects
         \/ s[1] = "each" /\ s[2] \in Members /\ p \in Lists
         \/ s[1] = "loop" /\ s[2] = "CollectionConfig" /\ p \in Lists
  BY <1>0, <1>1 DEF Sit, ConfigsNext
<1>3. n \in Steps /\ n[1] = s[1] /\ n[2] = s[2]
  BY DEF Steps
<1> HIDE DEF n
<1>4. Sit(p, n, p)
  BY <1>2, <1>3 DEF Sit, ConfigsNext
<1>5. <<p, n, p>> \in Sits
  BY <1>1, <1>3, <1>4, SitIs
<1>6. CASE s[1] = "loop" /\ s[2] \in Members /\ p \in Objects
  <2>1. OneMore(s) = <<P(s[2])>>
    BY <1>6 DEF OneMore
  <2> QED BY <1>2, <1>5, <1>6, <2>1, GoodPrint DEF Good, n
<1>7. CASE s[1] = "each" /\ s[2] \in Members /\ p \in Lists
  <2>1. OneMore(s) = <<Do("Item"), P(s[2]), Do("ItemEnd")>>
    BY <1>7 DEF OneMore
  <2> QED BY <1>2, <1>5, <1>7, <2>1, SitItem DEF n
<1>8. CASE s[1] = "loop" /\ s[2] = "CollectionConfig" /\ p \in Lists
  <2>1. OneMore(s) = <<P("CollectionConfig")>>
    BY <1>8 DEF OneMore
  <2>2. Sit(p, P("CollectionConfig"), p)
    BY <1>8 DEF Sit, ConfigsNext
  <2>3. P("CollectionConfig") \in Steps
    BY PrintStep DEF Names
  <2>4. <<p, P("CollectionConfig"), p>> \in Sits
    BY <1>1, <2>2, <2>3, SitIs
  <2> QED BY <1>2, <1>5, <2>1, <2>4, ChainOne DEF n
<1> QED BY <1>2, <1>6, <1>7, <1>8

LEMMA SitValue ==
  ASSUME NEW p, NEW q, NEW s \in Steps, <<p, s, q>> \in Sits, s[1] = "values"
  PROVE  Chain(Sits, OneMore(s) \o <<<<s[1], s[2], s[3] + 1>>>>, p, q)
<1> DEFINE n == <<s[1], s[2], s[3] + 1>>
<1>1. p \in Places /\ q \in Places /\ Listed(s[3], p, q)
  <2>1. s # P("CollectionConfig")
    BY DEF P
  <2> QED BY <2>1, SitIs DEF Sit, ConfigsNext
<1>2. s[3] \in Nat
  BY DEF Steps
<1>3. PICK o \in Opens : p = Brackets(o, IF s[3] = 0 THEN First ELSE Valued) /\ q = Brackets(o, Done)
  BY <1>1 DEF Listed
<1>4. PICK m \in Places : m = Brackets(o, Valued)
  BY PlacesOK
<1>5. n \in Steps /\ n[1] = "values" /\ n[3] = s[3] + 1 /\ s[3] + 1 # 0
  BY <1>2 DEF Steps
<1> HIDE DEF n
<1>6. Listed(n[3], m, q)
  BY <1>3, <1>4, <1>5 DEF Listed
<1>7. <<m, n, q>> \in Sits
  BY <1>1, <1>4, <1>5, <1>6, SitIs DEF Sit
<1>8. PICK c \in Calls : OneMore(s) = <<Do(c)>> /\ Called(c, p, m)
  <2>1. "ItemK" \in Calls /\ "Item0" \in Calls /\ "ItemN" \in Calls
    BY DEF Calls
  <2>2. CASE s[2] = "key"
    <3>1. OneMore(s) = <<Do("ItemK")>>
      BY <2>2 DEF OneMore
    <3>2. Called("ItemK", p, m)
      BY DEF Called, Flaws
    <3> QED BY <2>1, <3>1, <3>2
  <2>3. CASE s[2] # "key" /\ s[3] = 0
    <3>1. OneMore(s) = <<Do("Item0")>>
      BY <2>3 DEF OneMore
    <3>2. Called("Item0", p, m)
      BY <1>3, <1>4, <2>3 DEF Called
    <3> QED BY <2>1, <3>1, <3>2
  <2>4. CASE s[2] # "key" /\ s[3] # 0
    <3>1. OneMore(s) = <<Do("ItemN")>>
      BY <2>4 DEF OneMore
    <3>2. Called("ItemN", p, m)
      BY <1>3, <1>4, <2>4 DEF Called
    <3> QED BY <2>1, <3>1, <3>2
  <2> QED BY <2>2, <2>3, <2>4
<1>9. <<p, Do(c), m>> \in Sits /\ Do(c) \in Steps
  BY <1>1, <1>4, <1>8, SitDo, DoStep
<1>10. Chain(Sits, <<Do(c)>>, p, m) /\ Chain(Sits, <<n>>, m, q)
  BY <1>7, <1>9, ChainOne
<1>11. <<Do(c)>> \in Seq(Steps) /\ <<n>> \in Seq(Steps)
  BY <1>5, <1>9
<1>12. Chain(Sits, <<Do(c)>> \o <<n>>, p, q)
  BY <1>10, <1>11, ChainCat
<1> QED BY <1>8, <1>12 DEF n

LEMMA SitExpand ==
  ASSUME NEW p, NEW q, NEW s \in Steps, <<p, s, q>> \in Sits, s[1] # "do", NEW x \in Alternatives(s)
  PROVE  \E m \in Places : m.open = p.open /\ p.at \subseteq m.at /\ Chain(Sits, x, m, q)
<1>1. p \in Places /\ q \in Places /\ Sit(p, s, q)
  BY SitIs
<1>2. CASE s[1] = "print"
  <2>1. x \in Rules(s[2])
    BY <1>2 DEF Alternatives
  <2>2. \/ s[2] \in Members /\ p \in Objects /\ q = p
        \/ s[2] \in JsonRoots /\ p = Outset /\ q = Finish
        \/ s[2] = "CollectionConfig" /\ p \in Lists /\ q = p
    BY <1>1, <1>2 DEF Sit, ConfigsNext, P
  <2>3. /\ Members \cap JsonRoots = {} /\ "CollectionConfig" \notin Members \cup JsonRoots
    BY DEF Members, JsonRoots
  <2>4. Fits(s[2], x)
    BY <2>1, RulesFit
  <2>5. Chain(Sits, x, p, q)
    <3>1. CASE s[2] \in Members /\ p \in Objects /\ q = p
      BY <2>3, <2>4, <3>1 DEF Fits, Good
    <3>2. CASE s[2] \in JsonRoots /\ p = Outset /\ q = Finish
      BY <2>3, <2>4, <3>2 DEF Fits, Whole
    <3>3. CASE s[2] = "CollectionConfig" /\ p \in Lists /\ q = p
      <4>1. x \in Configs
        BY <2>3, <2>4, <3>3 DEF Fits
      <4> QED BY <3>3, <4>1, SitConfig
    <3> QED BY <2>2, <3>1, <3>2, <3>3
  <2> QED BY <1>1, <2>5
<1>3. CASE s[1] \in {"each", "loop"}
  <2>1. x = <<>> \/ x = OneMore(s) \o <<<<s[1], s[2], s[3] + 1>>>>
    BY <1>3 DEF Alternatives, MoreItems
  <2>2. PICK n : n = <<s[1], s[2], s[3] + 1>>
    OBVIOUS
  <2>3. p = q /\ Chain(Sits, OneMore(s), p, p) /\ <<p, n, p>> \in Sits
    BY <1>3, <2>2, SitMore
  <2>4. Chain(Sits, <<n>>, p, p)
    BY <2>3, ChainOne
  <2>5. n \in Steps
    BY <2>3, SitIs
  <2>6. OneMore(s) \in Seq(Steps)
    BY <1>3, MoreSteps
  <2>7. Chain(Sits, OneMore(s) \o <<n>>, p, p)
    <3>1. <<n>> \in Seq(Steps)
      BY <2>5
    <3> QED BY <2>3, <2>4, <2>6, <3>1, ChainCat
  <2> QED BY <1>1, <2>1, <2>2, <2>3, <2>7, ChainNone
<1>4. CASE s[1] = "values"
  <2>1. x = <<>> \/ x = OneMore(s) \o <<<<s[1], s[2], s[3] + 1>>>>
    BY <1>4 DEF Alternatives, MoreItems
  <2>2. CASE x = <<>>
    <3>1. s # P("CollectionConfig")
      BY <1>4 DEF P
    <3>2. PICK o \in Opens : p = Brackets(o,
                                          IF s[3] = 0 THEN First ELSE Valued) /\ q = Brackets(o, Done)
      BY <1>1, <1>4, <3>1 DEF Sit, ConfigsNext, Listed
    <3>3. First \subseteq Done /\ Valued \subseteq Done
      BY DEF First, Valued, Done, Member
    <3>4. q.open = p.open /\ p.at \subseteq q.at
      BY <3>2, <3>3 DEF Brackets
    <3> QED BY <1>1, <2>2, <3>4, ChainNone
  <2>3. CASE x = OneMore(s) \o <<<<s[1], s[2], s[3] + 1>>>>
    BY <1>1, <1>4, <2>3, SitValue
  <2> QED BY <2>1, <2>2, <2>3
<1> QED BY <1>2, <1>3, <1>4 DEF Steps, StepKinds

-----------------------------------------------------------------------------

(* A call is made: what it writes is read as the place it leads to says.   *)
ReadAt(o, l) == [open |-> o, last |-> l]

LEMMA LastMark ==
  ASSUME NEW o \in Opens, NEW m \in Marks
  PROVE  /\ Append(o, m) # <<>> /\ Last(Append(o, m)) = m /\ Front(Append(o, m)) = o
<1>1. PICK n \in Nat : n = Len(o)
  BY DEF Opens
<1>2. Len(Append(o, m)) = n + 1 /\ Append(o, m)[n + 1] = m
  BY <1>1 DEF Opens
<1>3. Append(o, m) # <<>> /\ Last(Append(o, m)) = m
  <2>1. Append(o, m) # <<>>
    BY <1>2
  <2> QED BY <1>2, <2>1 DEF Last
<1>4. Front(Append(o, m)) = o
  <2>1. Front(Append(o, m)) = SubSeq(Append(o, m), 1, n)
    BY <1>2 DEF Front
  <2>2. SubSeq(Append(o, m), 1, n) \in Seq(Marks) /\ Len(SubSeq(Append(o, m), 1, n)) = n
    BY <1>1, <1>2 DEF Opens
  <2>3. \A i \in 1..n : SubSeq(Append(o, m), 1, n)[i] = o[i]
    BY <1>1, <1>2 DEF Opens
  <2> QED BY <1>1, <2>1, <2>2, <2>3, SeqEqual DEF Opens
<1> QED BY <1>3, <1>4

LEMMA TokensRead ==
  ASSUME NEW o \in Opens, NEW l
  PROVE  /\ l = "next" /\ o # <<>> => ReadToken(ReadAt(o, l), ",") = ReadAt(o, "comma")
         /\ Inside(ReadAt(o, l), "{") /\ l \in {"first", "comma"} =>
              ReadToken(ReadAt(o, l), "name") = ReadAt(o, "key")
         /\ TakesValue(ReadAt(o, l)) =>
              /\ ReadToken(ReadAt(o, l), "value") = ReadAt(o, "next")
              /\ ReadToken(ReadAt(o, l), "{") = ReadAt(Append(o, "{"), "first")
              /\ ReadToken(ReadAt(o, l), "[") = ReadAt(Append(o, "["), "first")
         /\ l \in {"first", "next"} =>
              /\ Inside(ReadAt(o, l), "{") => ReadToken(ReadAt(o, l), "}") = ReadAt(Front(o), "next")
              /\ Inside(ReadAt(o, l), "[") => ReadToken(ReadAt(o, l), "]") = ReadAt(Front(o), "next")
<1> DEFINE r == ReadAt(o, l)
<1>1. r.open = o /\ r.last = l /\ \A k : [r EXCEPT !.last = k] = ReadAt(o, k)
  BY DEF ReadAt
<1> HIDE DEF r
<1>2. l = "next" /\ o # <<>> => ReadToken(r, ",") = ReadAt(o, "comma")
  BY <1>1 DEF ReadToken
<1>3. Inside(r, "{") /\ l \in {"first", "comma"} => ReadToken(r, "name") = ReadAt(o, "key")
  BY <1>1 DEF ReadToken, TakesName
<1>4. TakesValue(r) => ReadToken(r, "value") = ReadAt(o, "next")
  BY <1>1 DEF ReadToken
<1>5. TakesValue(r) => /\ ReadToken(r, "{") = ReadAt(Append(o, "{"), "first")
                       /\ ReadToken(r, "[") = ReadAt(Append(o, "["), "first")
  BY <1>1 DEF ReadToken, ReadAt
<1>6. l \in {"first", "next"} =>
        /\ Inside(r, "{") => ReadToken(r, "}") = ReadAt(Front(o), "next")
        /\ Inside(r, "[") => ReadToken(r, "]") = ReadAt(Front(o), "next")
  BY <1>1 DEF ReadToken, Closes, ReadAt
<1> QED BY <1>2, <1>3, <1>4, <1>5, <1>6 DEF r

LEMMA InsideMark ==
  ASSUME NEW o \in Opens, NEW m \in Marks, NEW l
  PROVE  Inside(ReadAt(Append(o, m), l), m) /\ Append(o, m) \in Opens
<1>1. Append(o, m) \in Opens
  BY DEF Opens
<1> QED BY <1>1, LastMark DEF Inside, ReadAt

LEMMA CallWrites ==
  ASSUME NEW r, NEW comma \in BOOLEAN
  PROVE  /\ \A c \in {"ElementEnd", "ItemEnd", "Footer"} : ReadCall(r, comma, c) = ReadToken(r, "}")
         /\ ReadCall(r, comma, "ArrayEnd") = ReadToken(r, "]")
         /\ ReadCall(r, comma, "Item0") = ReadToken(r, "value")
         /\ ReadCall(r, comma, "ItemN") = ReadToken(ReadToken(r, ","), "value")
         /\ ReadCall(r, comma, "Print") = r
<1>1. /\ \A c \in {"ElementEnd", "ItemEnd", "Footer", "ArrayEnd", "Item0",
                   "Print"} : ~WritesComma(comma, c)
      /\ WritesComma(comma, "ItemN")
  BY DEF WritesComma, Opening
<1>2. \A c \in {"ElementEnd", "ItemEnd", "Footer", "ArrayEnd", "Item0", "ItemN",
                "Print"} : ~WritesName(c)
  BY DEF WritesName
<1>3. /\ \A c \in {"ElementEnd", "ItemEnd", "Footer"} : LastToken(c) = "}"
      /\ LastToken("ArrayEnd") = "]" /\ LastToken("Item0") = "value" /\ LastToken("ItemN") = "value"
      /\ LastToken("Print") = "none"
  BY DEF LastToken
<1>4. /\ \A c \in {"ElementEnd", "ItemEnd", "Footer"} : ReadCall(r, comma, c) = ReadToken(r, "}")
      /\ ReadCall(r, comma, "ArrayEnd") = ReadToken(r, "]")
      /\ ReadCall(r, comma, "Item0") = ReadToken(r, "value")
  BY <1>1, <1>2, <1>3 DEF ReadCall, ReadIf
<1>5. /\ ReadCall(r, comma, "ItemN") = ReadToken(ReadToken(r, ","), "value")
      /\ ReadCall(r, comma, "Print") = r
  BY <1>1, <1>2, <1>3 DEF ReadCall, ReadIf
<1> QED BY <1>4, <1>5

LEMMA OpeningWrites ==
  ASSUME NEW r
  PROVE  /\ ReadCall(r, TRUE, "Field") = ReadToken(ReadToken(ReadToken(r, ","), "name"), "value")
         /\ ReadCall(r, TRUE, "Element") = ReadToken(ReadToken(ReadToken(r, ","), "name"), "{")
         /\ ReadCall(r, TRUE, "Array") = ReadToken(ReadToken(ReadToken(r, ","), "name"), "[")
         /\ ReadCall(r, TRUE, "Item") = ReadToken(ReadToken(r, ","), "{")
         /\ ReadCall(r, FALSE, "Field") = ReadToken(ReadToken(r, "name"), "value")
         /\ ReadCall(r, FALSE, "Element") = ReadToken(ReadToken(r, "name"), "{")
         /\ ReadCall(r, FALSE, "Array") = ReadToken(ReadToken(r, "name"), "[")
         /\ \A c \in {"Header", "Item"} : ReadCall(r, FALSE, c) = ReadToken(r, "{")
<1>1. \A c \in {"Field", "Element", "Array", "Header", "Item"} :
         WritesComma(TRUE, c) /\ ~WritesComma(FALSE, c)
  BY DEF WritesComma, Opening
<1>2. /\ WritesName("Field") /\ WritesName("Element") /\ WritesName("Array")
      /\ ~WritesName("Header") /\ ~WritesName("Item")
  BY DEF WritesName
<1>3. /\ LastToken("Field") = "value" /\ LastToken("Element") = "{" /\ LastToken("Array") = "["
      /\ LastToken("Header") = "{" /\ LastToken("Item") = "{"
  BY DEF LastToken
<1> QED BY <1>1, <1>2, <1>3 DEF ReadCall, ReadIf

LEMMA PlaceIs ==
  /\ \A o : Braces(o).open = Append(o, "{") /\ Braces(o).at = Member
  /\ \A o, a : Brackets(o, a).open = Append(o, "[") /\ Brackets(o, a).at = a
  /\ \A p \in Objects \cup Lists : p.at = Member
<1>1. \A o : Braces(o).open = Append(o, "{") /\ Braces(o).at = Member
  BY DEF Braces
<1>2. \A o, a : Brackets(o, a).open = Append(o, "[") /\ Brackets(o, a).at = a
  BY DEF Brackets
<1> QED BY <1>1, <1>2 DEF Objects, Lists

LEMMA DoneReads ==
  ASSUME NEW comma, NEW l, <<comma, l>> \in Done
  PROVE  l \in {"first", "next"}
BY Zenon DEF Done, Member, Valued

LEMMA ObjectReads ==
  ASSUME NEW p \in Objects, NEW comma, NEW l, <<comma, l>> \in p.at
  PROVE  /\ ReadCall(ReadAt(p.open, l), comma, "Field") = ReadAt(p.open, "next")
         /\ ReadCall(ReadAt(p.open, l), comma, "Element") = ReadAt(Append(p.open, "{"), "first")
         /\ ReadCall(ReadAt(p.open, l), comma, "Array") = ReadAt(Append(p.open, "["), "first")
<1>1. PICK o \in Opens : p.open = Append(o, "{") /\ p.at = Member
  BY PlaceIs DEF Objects
<1>2. "{" \in Marks
  BY DEF Marks
<1>3. p.open \in Opens /\ p.open # <<>> /\ \A k : Inside(ReadAt(p.open, k), "{")
  BY <1>1, <1>2, InsideMark, LastMark
<1>4. /\ ReadToken(ReadAt(p.open, "key"), "value") = ReadAt(p.open, "next")
      /\ ReadToken(ReadAt(p.open, "key"), "{") = ReadAt(Append(p.open, "{"), "first")
      /\ ReadToken(ReadAt(p.open, "key"), "[") = ReadAt(Append(p.open, "["), "first")
  <2>1. TakesValue(ReadAt(p.open, "key"))
    BY DEF TakesValue, ReadAt
  <2> QED BY <1>3, <2>1, TokensRead
<1>5. /\ ReadToken(ReadAt(p.open, "next"), ",") = ReadAt(p.open, "comma")
      /\ ReadToken(ReadAt(p.open, "comma"), "name") = ReadAt(p.open, "key")
      /\ ReadToken(ReadAt(p.open, "first"), "name") = ReadAt(p.open, "key")
  BY <1>3, TokensRead
<1>6. CASE comma = FALSE /\ l = "first"
  <2>0. /\ ReadCall(ReadAt(p.open, "first"), FALSE, "Field") =
             ReadToken(ReadToken(ReadAt(p.open, "first"), "name"), "value")
        /\ ReadCall(ReadAt(p.open, "first"), FALSE, "Element") =
             ReadToken(ReadToken(ReadAt(p.open, "first"), "name"), "{")
        /\ ReadCall(ReadAt(p.open, "first"), FALSE, "Array") =
             ReadToken(ReadToken(ReadAt(p.open, "first"), "name"), "[")
    BY OpeningWrites, Zenon
  <2>1. ReadCall(ReadAt(p.open, "first"), FALSE, "Field") = ReadAt(p.open, "next")
    BY <1>4, <1>5, <2>0
  <2>2. ReadCall(ReadAt(p.open, "first"), FALSE, "Element") = ReadAt(Append(p.open, "{"), "first")
    BY <1>4, <1>5, <2>0
  <2>3. ReadCall(ReadAt(p.open, "first"), FALSE, "Array") = ReadAt(Append(p.open, "["), "first")
    BY <1>4, <1>5, <2>0
  <2> QED BY <1>6, <2>1, <2>2, <2>3
<1>7. CASE comma = TRUE /\ l = "next"
  <2>0. /\ ReadCall(ReadAt(p.open, "next"), TRUE, "Field") =
             ReadToken(ReadToken(ReadToken(ReadAt(p.open, "next"), ","), "name"), "value")
        /\ ReadCall(ReadAt(p.open, "next"), TRUE, "Element") =
             ReadToken(ReadToken(ReadToken(ReadAt(p.open, "next"), ","), "name"), "{")
        /\ ReadCall(ReadAt(p.open, "next"), TRUE, "Array") =
             ReadToken(ReadToken(ReadToken(ReadAt(p.open, "next"), ","), "name"), "[")
    BY OpeningWrites, Zenon
  <2>1. ReadCall(ReadAt(p.open, "next"), TRUE, "Field") = ReadAt(p.open, "next")
    BY <1>4, <1>5, <2>0
  <2>2. ReadCall(ReadAt(p.open, "next"), TRUE, "Element") = ReadAt(Append(p.open, "{"), "first")
    BY <1>4, <1>5, <2>0
  <2>3. ReadCall(ReadAt(p.open, "next"), TRUE, "Array") = ReadAt(Append(p.open, "["), "first")
    BY <1>4, <1>5, <2>0
  <2> QED BY <1>7, <2>1, <2>2, <2>3
<1> QED BY <1>1, <1>6, <1>7 DEF Member

LEMMA ListReads ==
  ASSUME NEW p \in Lists, NEW comma, NEW l, <<comma, l>> \in p.at
  PROVE  ReadCall(ReadAt(p.open, l), comma, "Item") = ReadAt(Append(p.open, "{"), "first")
<1>1. PICK o \in Opens : p.open = Append(o, "[") /\ p.at = Member
  <2>1. PICK o \in Opens : p = Brackets(o, Member)
    BY DEF Lists
  <2> QED BY <2>1, PlaceIs
<1>2. "[" \in Marks
  BY DEF Marks
<1>3. p.open \in Opens /\ p.open # <<>> /\ \A k : Inside(ReadAt(p.open, k), "[")
  BY <1>1, <1>2, InsideMark, LastMark
<1>4. \A k \in {"first", "comma"} : ReadToken(ReadAt(p.open, k), "{") = ReadAt(Append(p.open,
                                                                                      "{"), "first")
  <2>1. \A k \in {"first", "comma"} : TakesValue(ReadAt(p.open, k))
    BY <1>3 DEF TakesValue, ReadAt
  <2> QED BY <1>3, <2>1, TokensRead
<1>5. ReadToken(ReadAt(p.open, "next"), ",") = ReadAt(p.open, "comma")
  BY <1>3, TokensRead
<1>6. CASE comma = FALSE /\ l = "first"
  <2>1. ReadCall(ReadAt(p.open, "first"), FALSE, "Item") = ReadAt(Append(p.open, "{"), "first")
    BY <1>4, OpeningWrites
  <2> QED BY <1>6, <2>1
<1>7. CASE comma = TRUE /\ l = "next"
  <2>0. ReadCall(ReadAt(p.open, "next"), TRUE, "Item") =
           ReadToken(ReadToken(ReadAt(p.open, "next"), ","), "{")
    BY OpeningWrites, Zenon
  <2>1. ReadCall(ReadAt(p.open, "next"), TRUE, "Item") = ReadAt(Append(p.open, "{"), "first")
    BY <1>4, <1>5, <2>0
  <2> QED BY <1>7, <2>1
<1> QED BY <1>1, <1>6, <1>7 DEF Member

LEMMA CallReads ==
  ASSUME NEW c \in Calls \ Flaws, NEW p \in Places, NEW q \in Places, Called(c, p, q),
         NEW comma \in BOOLEAN, NEW l, <<comma, l>> \in p.at
  PROVE  \E k : /\ ReadCall(ReadAt(p.open, l), comma, c) = ReadAt(q.open, k)
                /\ <<CommaAfter(comma, c), k>> \in q.at
<1>1. "{" \in Marks /\ "[" \in Marks /\ p.open \in Opens /\ q.open \in Opens
  BY DEF Marks, Places
<1>2. /\ \A d \in {"Header", "Element", "Array", "Item", "Footer"} : CommaAfter(comma, d) = FALSE
      /\ \A d \in {"Field", "ItemN", "ElementEnd", "ItemEnd", "ArrayEnd"} : CommaAfter(comma, d) = TRUE
      /\ \A d \in {"Print", "Item0"} : CommaAfter(comma, d) = comma
  BY DEF CommaAfter, Opening, Closing
<1>3. \A a \in {Member, Done} : <<FALSE, "next">> \in Done /\ <<TRUE, "next">> \in a
  BY DEF Member, Done, Valued
<1>4. CASE c = "Field"
  <2>1. p \in Objects /\ q = p
    BY <1>4 DEF Called, Flaws
  <2>2. ReadCall(ReadAt(p.open, l), comma, c) = ReadAt(p.open, "next")
    BY <1>4, <2>1, ObjectReads
  <2>3. p.at = Member
    BY <2>1, PlaceIs
  <2> QED BY <1>2, <1>3, <1>4, <2>1, <2>2, <2>3
<1>41. CASE c = "Element"
  <2>1. p \in Objects /\ q = Braces(p.open)
    BY <1>41 DEF Called, Flaws
  <2>2. ReadCall(ReadAt(p.open, l), comma, c) = ReadAt(q.open, "first")
    BY <1>41, <2>1, ObjectReads, PlaceIs
  <2>3. <<FALSE, "first">> \in q.at
    BY <2>1, PlaceIs DEF Member
  <2> QED BY <1>2, <1>41, <2>2, <2>3
<1>42. CASE c = "Array"
  <2>1. p \in Objects /\ q \in {Brackets(p.open, First), Brackets(p.open, Member)}
    BY <1>42 DEF Called, Flaws
  <2>2. q.open = Append(p.open, "[") /\ (q.at = First \/ q.at = Member)
    <3>1. CASE q = Brackets(p.open, First)
      BY <3>1, PlaceIs
    <3>2. CASE q = Brackets(p.open, Member)
      BY <3>2, PlaceIs
    <3> QED BY <2>1, <3>1, <3>2
  <2>3. ReadCall(ReadAt(p.open, l), comma, c) = ReadAt(q.open, "first")
    BY <1>42, <2>1, <2>2, ObjectReads
  <2>4. <<FALSE, "first">> \in q.at
    BY <2>2 DEF First, Member
  <2> QED BY <1>2, <1>42, <2>3, <2>4
<1>5. CASE c = "Item"
  <2>1. p \in Lists /\ q = Braces(p.open)
    BY <1>5 DEF Called, Flaws
  <2>2. ReadCall(ReadAt(p.open, l), comma, c) = ReadAt(q.open, "first")
    BY <1>5, <2>1, ListReads, PlaceIs
  <2>3. <<FALSE, "first">> \in q.at
    BY <2>1, PlaceIs DEF Member
  <2> QED BY <1>2, <1>5, <2>2, <2>3
<1>6. CASE c = "Header"
  <2>1. p = Outset /\ q = Braces(<<>>)
    BY <1>6 DEF Called, Flaws
  <2>2. comma = FALSE /\ l = "first" /\ p.open = <<>>
    BY <2>1 DEF Outset, First
  <2>3. TakesValue(ReadAt(p.open, l))
    BY <2>2 DEF TakesValue, ReadAt
  <2>4. ReadCall(ReadAt(p.open, l), comma, c) = ReadAt(Append(p.open, "{"), "first")
    <3>1. ReadCall(ReadAt(p.open, l), comma, c) = ReadToken(ReadAt(p.open, l), "{")
      BY <1>6, <2>2, OpeningWrites
    <3> QED BY <1>1, <2>3, <3>1, TokensRead
  <2>5. q.open = Append(p.open, "{") /\ <<FALSE, "first">> \in q.at
    BY <2>1, <2>2 DEF Braces, Member
  <2> QED BY <1>2, <1>6, <2>4, <2>5
<1>7. CASE c \in {"ElementEnd", "ItemEnd", "Footer"}
  <2>1. p = Braces(q.open)
    BY <1>7 DEF Called, Flaws, Finish
  <2>2. p.open = Append(q.open, "{") /\ l \in {"first", "next"}
    BY <2>1 DEF Braces, Member
  <2>3. Inside(ReadAt(p.open, l), "{") /\ Front(p.open) = q.open
    BY <1>1, <2>2, InsideMark, LastMark
  <2>4. ReadCall(ReadAt(p.open, l), comma, c) = ReadAt(q.open, "next")
    <3>1. ReadCall(ReadAt(p.open, l), comma, c) = ReadToken(ReadAt(p.open, l), "}")
      BY <1>7, CallWrites
    <3> QED BY <1>1, <2>2, <2>3, <3>1, TokensRead
  <2>5. CASE c = "Footer"
    <3>1. q.at = Done
      BY <2>5 DEF Called, Flaws, Finish
    <3> QED BY <1>2, <1>3, <2>4, <2>5, <3>1
  <2>6. CASE c \in {"ElementEnd", "ItemEnd"}
    <3>1. q \in Objects \cup Lists
      BY <2>6 DEF Called, Flaws
    <3>2. q.at = Member
      BY <3>1, PlaceIs
    <3> QED BY <1>2, <1>3, <2>4, <2>6, <3>2
  <2> QED BY <1>7, <2>5, <2>6
<1>8. CASE c = "ArrayEnd"
  <2>1. q \in Objects /\ p \in {Brackets(q.open, Done), Brackets(q.open, Member)}
    BY <1>8 DEF Called, Flaws
  <2>2. p.open = Append(q.open, "[") /\ l \in {"first", "next"}
    <3>1. p.open = Append(q.open, "[") /\ (p.at = Done \/ p.at = Member)
      <4>1. CASE p = Brackets(q.open, Done)
        BY <4>1, PlaceIs
      <4>2. CASE p = Brackets(q.open, Member)
        BY <4>2, PlaceIs
      <4> QED BY <2>1, <4>1, <4>2
    <3>2. Member \subseteq Done
      BY DEF Done
    <3>3. <<comma, l>> \in Done
      <4>1. p.at \subseteq Done
        BY <3>1, <3>2
      <4> QED BY <4>1
    <3> QED BY <3>1, <3>3, DoneReads
  <2>3. Inside(ReadAt(p.open, l), "[") /\ Front(p.open) = q.open
    BY <1>1, <2>2, InsideMark, LastMark
  <2>4. ReadCall(ReadAt(p.open, l), comma, c) = ReadAt(q.open, "next")
    <3>1. ReadCall(ReadAt(p.open, l), comma, c) = ReadToken(ReadAt(p.open, l), "]")
      BY <1>8, CallWrites
    <3> QED BY <1>1, <2>2, <2>3, <3>1, TokensRead
  <2>5. q.at = Member
    BY <2>1, PlaceIs
  <2> QED BY <1>2, <1>3, <1>8, <2>4, <2>5
<1>9. CASE c = "Item0"
  <2>1. PICK o \in Opens : p = Brackets(o, First) /\ q = Brackets(o, Valued)
    BY <1>9 DEF Called, Flaws
  <2>2. p.open = Append(o, "[") /\ q.open = p.open /\ comma = FALSE /\ l = "first" /\ q.at = Valued
    BY <2>1 DEF Brackets, First
  <2>3. TakesValue(ReadAt(p.open, l))
    <3>1. Inside(ReadAt(p.open, l), "[")
      BY <1>1, <2>2, InsideMark
    <3> QED BY <2>2, <3>1 DEF TakesValue, ReadAt
  <2>4. ReadCall(ReadAt(p.open, l), comma, c) = ReadAt(q.open, "next")
    <3>1. ReadCall(ReadAt(p.open, l), comma, c) = ReadToken(ReadAt(p.open, l), "value")
      BY <1>9, CallWrites
    <3> QED BY <1>1, <2>2, <2>3, <3>1, TokensRead
  <2>5. <<FALSE, "next">> \in q.at
    BY <2>2 DEF Valued
  <2> QED BY <1>2, <1>9, <2>2, <2>4, <2>5
<1>10. CASE c = "ItemN"
  <2>1. PICK o \in Opens : p = Brackets(o, Valued) /\ q = p
    BY <1>10 DEF Called, Flaws
  <2>2. p.open = Append(o, "[") /\ l = "next" /\ q.at = Valued
    BY <2>1 DEF Brackets, Valued
  <2>3. p.open # <<>> /\ Inside(ReadAt(p.open, "comma"), "[")
    BY <1>1, <2>2, InsideMark, LastMark
  <2>4. TakesValue(ReadAt(p.open, "comma"))
    BY <2>3 DEF TakesValue, ReadAt
  <2>5. ReadToken(ReadAt(p.open, l), ",") = ReadAt(p.open, "comma")
    BY <1>1, <2>2, <2>3, TokensRead
  <2>6. ReadToken(ReadAt(p.open, "comma"), "value") = ReadAt(q.open, "next")
    BY <1>1, <2>1, <2>4, TokensRead
  <2>7. ReadCall(ReadAt(p.open, l), comma, c) = ReadAt(q.open, "next")
    <3>1. ReadCall(ReadAt(p.open, l), comma, c) = ReadToken(ReadToken(ReadAt(p.open, l), ","), "value")
      BY <1>10, CallWrites
    <3> QED BY <2>5, <2>6, <3>1
  <2>8. <<TRUE, "next">> \in q.at
    BY <2>2 DEF Valued
  <2> QED BY <1>2, <1>10, <2>7, <2>8
<1>11. CASE c = "Print"
  <2>1. q = p
    BY <1>11 DEF Called, Flaws
  <2>2. ReadCall(ReadAt(p.open, l), comma, c) = ReadAt(p.open, l)
    BY <1>11, CallWrites
  <2> QED BY <1>2, <1>11, <2>1, <2>2
<1> QED BY <1>4, <1>41, <1>42, <1>5, <1>6, <1>7, <1>8, <1>9, <1>10, <1>11 DEF Called, Flaws

-----------------------------------------------------------------------------

(* The inductive invariant.  Whatever a document was left with by its      *)
(* collection configurations, the calls to come take the indentation to    *)
(* that; and if every value was plain and printed by a call that suits its *)
(* place, they take the JSON that was read so far to the end of a          *)
(* document.                                                               *)
Walked(p, l) ==
  /\ p \in Places
  /\ out.reader = ReadAt(p.open, l) /\ <<out.comma, l>> \in p.at
  /\ Chain(Sits, todo, p, Finish)

PrinterInv ==
  /\ root \in Roots /\ flawed \in BOOLEAN /\ out.comma \in BOOLEAN
  /\ extra \in 0..MaxExtra /\ strays \in Nat /\ out.indent \in Nat
  /\ todo \in Seq(Steps)
  /\ \E d \in Nat : out.indent = d + strays /\ Chain(Drifts, todo, d, 0)
  /\ root \in JsonRoots /\ ~flawed => \E p, l : Walked(p, l)

LEMMA InvOutset == PrinterInit => PrinterInv
<1> SUFFICES ASSUME PrinterInit
             PROVE  PrinterInv
  OBVIOUS
<1> USE DEF PrinterInit
<1>1. root \in Functions /\ P(root) \in Steps
  BY PrintStep DEF Functions, Names
<1>2. todo \in Seq(Steps)
  BY <1>1
<1>3. Chain(Drifts, todo, 0, 0)
  BY <1>1, DriftPrint, ChainOne
<1>4. ASSUME root \in JsonRoots
      PROVE  Walked(Outset, "first")
  <2>1. Sit(Outset, P(root), Finish)
    BY <1>4 DEF Sit, P
  <2>2. <<Outset, P(root), Finish>> \in Sits
    BY <1>1, <2>1, PlacesOK, SitIs
  <2>3. Chain(Sits, todo, Outset, Finish)
    BY <2>2, ChainOne
  <2>4. out.reader = ReadAt(Outset.open, "first") /\ <<out.comma, "first">> \in Outset.at
    BY DEF ReadAt, Outset, NothingRead, First
  <2> QED BY <2>3, <2>4, PlacesOK DEF Walked
<1>5. 0 \in 0..MaxExtra
  BY BoundsAssumption
<1>6. \E d \in Nat : out.indent = d + strays /\ Chain(Drifts, todo, d, 0)
  BY <1>3
<1> QED BY <1>2, <1>4, <1>5, <1>6, PlacesOK DEF PrinterInv

LEMMA InvExpand ==
  ASSUME PrinterInv, Expand
  PROVE  PrinterInv'
<1> DEFINE s == Head(todo)
<1>1. todo \in Seq(Steps) /\ todo # <<>> /\ s[1] # "do" /\ UNCHANGED <<root, out, flawed>>
  BY DEF PrinterInv, Expand
<1>2. s \in Steps /\ Tail(todo) \in Seq(Steps)
  BY <1>1
<1>3. PICK x \in Alternatives(s) :
        /\ todo' = x \o Tail(todo)
        /\ extra' = extra + (IF IsExtra(s, x) THEN 1 ELSE 0)
        /\ strays' = strays + (IF IsStray(s, x) THEN 1 ELSE 0)
        /\ extra' <= MaxExtra
  BY DEF Expand
<1> HIDE DEF s
<1>4. PICK d \in Nat : out.indent = d + strays /\ Chain(Drifts, todo, d, 0)
  BY DEF PrinterInv
<1>5. PICK e : <<d, s, e>> \in Drifts /\ Chain(Drifts, Tail(todo), e, 0)
  BY <1>1, <1>4, ChainHead DEF s
<1>6. /\ x \in Seq(Steps)
      /\ ~IsStray(s, x) => Chain(Drifts, x, d, e)
      /\ IsStray(s, x) => d > 0 /\ Chain(Drifts, x, d - 1, e)
  BY <1>1, <1>2, <1>5, DriftExpand DEF s
<1>7. todo' \in Seq(Steps)
  BY <1>2, <1>3, <1>6
<1>8. /\ strays' \in Nat
      /\ \E f \in Nat : out.indent = f + strays' /\ Chain(Drifts, todo', f, 0)
  <2>1. CASE IsStray(s, x)
    <3>1. d - 1 \in Nat /\ strays' = strays + 1 /\ strays' \in Nat /\ out.indent = (d - 1) + strays'
      BY <1>3, <1>4, <1>6, <2>1 DEF PrinterInv
    <3>2. Chain(Drifts, todo', d - 1, 0)
      BY <1>2, <1>3, <1>5, <1>6, <2>1, ChainCat
    <3> QED BY <3>1, <3>2
  <2>2. CASE ~IsStray(s, x)
    <3>1. strays' = strays /\ strays \in Nat
      BY <1>3, <2>2 DEF PrinterInv
    <3>2. Chain(Drifts, todo', d, 0)
      BY <1>2, <1>3, <1>5, <1>6, <2>2, ChainCat
    <3> QED BY <1>4, <3>1, <3>2
  <2> QED BY <2>1, <2>2
<1>9. ASSUME root \in JsonRoots, ~flawed
      PROVE  \E p, l : Walked(p, l)'
  <2>1. PICK p, l : Walked(p, l)
    BY <1>9 DEF PrinterInv
  <2>2. PICK q : <<p, s, q>> \in Sits /\ Chain(Sits, Tail(todo), q, Finish)
    BY <1>1, <2>1, ChainHead DEF s, Walked
  <2>3. PICK m \in Places : m.open = p.open /\ p.at \subseteq m.at /\ Chain(Sits, x, m, q)
    BY <1>1, <1>2, <2>2, SitExpand DEF s
  <2>4. Chain(Sits, todo', m, Finish)
    BY <1>2, <1>3, <1>6, <2>2, <2>3, ChainCat
  <2>5. out' = out /\ out.reader = ReadAt(m.open, l) /\ <<out.comma, l>> \in m.at
    BY <1>1, <2>1, <2>3 DEF Walked
  <2>6. Walked(m, l)'
    BY <2>3, <2>4, <2>5 DEF Walked
  <2> QED BY <2>6
<1>10. extra' \in 0..MaxExtra
  BY <1>3, BoundsAssumption DEF PrinterInv
<1> QED BY <1>1, <1>7, <1>8, <1>9, <1>10 DEF PrinterInv

LEMMA InvCall ==
  ASSUME PrinterInv, Call
  PROVE  PrinterInv'
<1> DEFINE s == Head(todo)
           c == s[2]
<1>1. /\ todo \in Seq(Steps) /\ todo # <<>> /\ s[1] = "do" /\ UNCHANGED <<root, extra, strays>>
      /\ todo' = Tail(todo)
  BY DEF PrinterInv, Call
<1>12. PICK plain \in BOOLEAN :
        /\ flawed' = (flawed \/ c \in Flaws \/ ~plain)
        /\ out' = [indent |-> Indent(out.indent, c), comma |-> CommaAfter(out.comma, c),
                   reader |-> IF plain THEN ReadCall(out.reader, out.comma, c)
                              ELSE ReadRaw(out.reader, out.comma, c)]
  BY DEF Call, Flaws
<1>2. s \in Steps /\ Tail(todo) \in Seq(Steps)
  BY <1>1
<1> HIDE DEF s
<1>3. out'.indent = Indent(out.indent, c) /\ out'.comma = CommaAfter(out.comma, c)
  BY <1>12
<1>4. plain => out'.reader = ReadCall(out.reader, out.comma, c)
  BY <1>12
<1>5. PICK d \in Nat : out.indent = d + strays /\ Chain(Drifts, todo, d, 0)
  BY DEF PrinterInv
<1>6. PICK e : <<d, s, e>> \in Drifts /\ Chain(Drifts, Tail(todo), e, 0)
  BY <1>1, <1>5, ChainHead DEF s
<1>7. e \in Nat /\ c \in Calls /\ e = Indent(d, c)
  BY <1>1, <1>6, DriftIs DEF Drift, ConfigsNext, P
<1>8. out'.indent = e + strays
  <2>1. strays \in Nat /\ out.indent \in Nat
    BY DEF PrinterInv
  <2> QED BY <1>3, <1>5, <1>7, <2>1 DEF Indent
<1>9. CommaAfter(out.comma, c) \in BOOLEAN
  BY DEF CommaAfter, PrinterInv
<1>10. ASSUME root \in JsonRoots, ~flawed'
       PROVE  \E p, l : Walked(p, l)'
  <2>1. ~flawed /\ c \notin Flaws /\ plain
    BY <1>10, <1>12
  <2>2. PICK p, l : Walked(p, l)
    BY <1>10, <2>1 DEF PrinterInv
  <2>3. PICK q : <<p, s, q>> \in Sits /\ Chain(Sits, Tail(todo), q, Finish)
    BY <1>1, <2>2, ChainHead DEF s, Walked
  <2>4. q \in Places /\ Called(c, p, q)
    BY <1>1, <2>3, SitIs DEF Sit, ConfigsNext, P
  <2>5. PICK k : /\ ReadCall(ReadAt(p.open, l), out.comma, c) = ReadAt(q.open, k)
                 /\ <<CommaAfter(out.comma, c), k>> \in q.at
    <3>1. p \in Places /\ out.comma \in BOOLEAN /\ <<out.comma, l>> \in p.at
      BY <2>2 DEF PrinterInv, Walked
    <3>2. c \in Calls \ Flaws
      BY <1>7, <2>1
    <3> HIDE DEF c
    <3> QED BY <2>4, <3>1, <3>2, CallReads
  <2>6. Walked(q, k)'
    BY <1>1, <1>3, <1>4, <2>1, <2>2, <2>3, <2>4, <2>5 DEF Walked
  <2> QED BY <2>4, <2>6
<1>11. flawed' \in BOOLEAN
  BY <1>12
<1> QED BY <1>1, <1>2, <1>3, <1>6, <1>7, <1>8, <1>9, <1>10, <1>11 DEF PrinterInv

(* Whatever the print functions find in a block, a transaction or a        *)
(* response (blockprinter.go), what is left to print closes what was       *)
(* opened and no more.                                                     *)
THEOREM PrinterInductive == PrinterSpec => []PrinterInv
<1>1. PrinterInv /\ [PrinterNext]_printerVars => PrinterInv'
  <2> SUFFICES ASSUME PrinterInv, [PrinterNext]_printerVars
               PROVE  PrinterInv'
    OBVIOUS
  <2>1. CASE PrinterNext
    BY <2>1, InvExpand, InvCall DEF PrinterNext
  <2>2. CASE UNCHANGED printerVars
    <3>1. UNCHANGED <<root, todo, out, extra, flawed, strays>>
      BY <2>2 DEF printerVars
    <3> QED BY <3>1 DEF PrinterInv, Walked
  <2> QED BY <2>1, <2>2
<1> QED BY <1>1, InvOutset, PTL DEF PrinterSpec

(* The functions of blockprinter.go leave displayFormatter.indent as they  *)
(* found it, but for one level per collection configuration of an unknown  *)
(* type.                                                                   *)
THEOREM DocumentsAreClosed == PrinterSpec => []DocumentsClosed
<1>1. PrinterInv => DocumentsClosed
  <2> SUFFICES ASSUME PrinterInv
               PROVE  DocumentsClosed
    OBVIOUS
  <2>1. PICK d \in Nat : out.indent = d + strays /\ Chain(Drifts, todo, d, 0)
    BY DEF PrinterInv
  <2>2. ASSUME NEW i \in DOMAIN todo, todo[i][1] = "do"
        PROVE  todo[i][2] \in Calls
    <3>1. i \in 1..Len(todo)
      BY DEF PrinterInv
    <3>2. PICK a, b : <<a, todo[i], b>> \in Drifts
      BY <2>1, <3>1 DEF Chain
    <3> QED BY <2>2, <3>2, DriftIs DEF Drift, ConfigsNext, P
  <2>3. todo = <<>> => out.indent = strays
    BY <2>1, ChainNothing DEF PrinterInv
  <2> QED BY <2>2, <2>3 DEF DocumentsClosed, PrinterTypeOK, PrinterInv
<1> QED BY <1>1, PrinterInductive, PTL

(* The documents of jsonFormatter whose arrays consist of values or of     *)
(* items are JSON if every value printed so far is plain and was printed   *)
(* by a call that suits its place: commas, names and brackets are where a  *)
(* reader expects them, whatever the shape of the data.  Nothing is said   *)
(* of a document with a value that JSON would have to escape.              *)
THEOREM JsonIsReadable == PrinterSpec => []JsonReadable
<1>1. PrinterInv => JsonReadable
  <2> SUFFICES ASSUME PrinterInv, root \in JsonRoots, ~flawed
               PROVE  out.reader.last # "bad" /\ (todo = <<>> => out.reader.open = <<>>)
    BY DEF JsonReadable
  <2>1. PICK p, l : Walked(p, l)
    BY DEF PrinterInv
  <2>2. out.reader.open = p.open /\ out.reader.last = l /\ <<out.comma, l>> \in p.at
    BY <2>1 DEF Walked, ReadAt
  <2>3. <<out.comma, l>> \in Done \cup First
    BY <2>1, <2>2 DEF Walked, Places, Done
  <2>4. l # "bad"
    BY <2>3 DEF Done, First, Member, Valued
  <2>5. todo = <<>> => p = Finish
    BY <2>1, ChainNothing DEF Walked
  <2> QED BY <2>2, <2>4, <2>5 DEF Finish
<1> QED BY <1>1, PrinterInductive, PTL

=============================================================================
