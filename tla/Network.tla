------------------------------- MODULE Network -------------------------------
(***************************************************************************)
(* The Fabric network as the commands of fabric-cli see it: one channel,   *)
(* its peers and the chaincode defined on it.  This is not code of the     *)
(* repository: it is what the commands under fabric-cli expect of the SDK  *)
(* and of the peers they call.  A block is what it defines: a version of   *)
(* the chaincode under a policy (the organizations that can satisfy it),   *)
(* or nothing.                                                             *)
(***************************************************************************)
EXTENDS Naturals, Sequences, FiniteSetsExt

CONSTANTS
  Orgs, Peers,
  OrgOf,        \* the organization of a peer
  Versions,     \* versions of the chaincode
  None,         \* no version
  MaxBlocks     \* bound: length of the channel

(* Every organization of the configuration has a peer, and there is one.   *)
ASSUME NetworkAssumption ==
  /\ OrgOf \in [Peers -> Orgs] /\ None \notin Versions /\ MaxBlocks \in Nat
  /\ Peers # {} /\ \A o \in Orgs : \E p \in Peers : OrgOf[p] = o

VARIABLES
  joined,       \* the peers on the channel
  installed,    \* versions on a peer
  chain         \* blocks of the channel; empty while it does not exist

network == <<joined, installed, chain>>

Blocks == [version : Versions \cup {None}, policy : SUBSET Orgs]
Config == [version |-> None, policy |-> {}]

NetworkTypeOK ==
  /\ joined \subseteq Peers
  /\ installed \in [Peers -> SUBSET Versions]
  /\ chain \in Seq(Blocks) /\ Len(chain) <= MaxBlocks

Created == chain # <<>>
Defines(b) == b.version # None
Definitions == {i \in 1..Len(chain) : Defines(chain[i])}
LastDefinition == Max(Definitions \cup {0})
Current == IF Definitions = {} THEN None ELSE chain[LastDefinition].version

HasRoom == Len(chain) < MaxBlocks
Append1(b) == /\ HasRoom /\ chain' = Append(chain, b)

(* A peer simulates the definition of version v.                           *)
Endorses(p, v) == p \in joined /\ v \in installed[p]

(* The peers of done join the channel, or install v; a peer joins a        *)
(* channel that exists.                                                    *)
Joins(done) ==
  /\ Created \/ done = {}
  /\ joined' = joined \cup done
  /\ UNCHANGED <<installed, chain>>

Installs(done, v) ==
  /\ installed' = [p \in Peers |-> installed[p] \cup {w \in {v} : p \in done}]
  /\ UNCHANGED <<joined, chain>>

=============================================================================
