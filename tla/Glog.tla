-------------------------------- MODULE Glog --------------------------------
(***************************************************************************)
(* The level filter of the courier's log (log/handler_glog.go): records    *)
(* logged by several goroutines while others change the verbosity, the     *)
(* patterns and the backtrace location.  What a list of patterns means is  *)
(* a function from the call sites to levels, 0 where none matches.         *)
(*                                                                         *)
(* What is read and written under the RWMutex is read and written only     *)
(* there, so each of its critical sections is one step; it happens when    *)
(* the one word that is read without the lock is stored.                   *)
(***************************************************************************)
EXTENDS Naturals

CONSTANTS
  Loggers,    \* goroutines that log
  Sites,      \* call sites
  Rulesets,   \* what a Vmodule may mean
  MaxLvl,     \* LvlTrace
  LvlInfo,
  MaxChanges, \* bound: changes of the settings
  Nowhere     \* no backtrace location

ASSUME LevelAssumption == MaxLvl \in Nat /\ LvlInfo \in 0..MaxLvl
ASSUME RulesetAssumption == Rulesets \subseteq [Sites -> 0..MaxLvl]

VARIABLES
  level, override,         \* the atomics
  patterns, siteCache,     \* siteCache[s] is NotCached where the map has no entry
  location,                \* Nowhere when the flag backtrace is zero
  changes,
  pc, site, lvl,           \* the record of each logger and what is done with it
  allowed, denied          \* history: the filters that have, at some time while it
                           \* was logged, let the record through, or not

settings == <<level, override, patterns, location, changes>>
vars == <<settings, siteCache, pc, site, lvl, allowed, denied>>

-----------------------------------------------------------------------------
Lvls == 0..MaxLvl
NotCached == MaxLvl + 1
NoCache == [s \in Sites |-> NotCached]

Allows(filter, s, l) ==
  IF filter = "global" THEN level >= l ELSE override /\ patterns[s] >= l

Filters == {"global", "local"}

(* What the filters say of the records after the step.                     *)
Witness ==
  /\ allowed' = [p \in Loggers |-> IF pc'[p] = "idle" THEN {}
                   ELSE allowed[p] \cup {f \in Filters : Allows(f, site[p], lvl[p])'}]
  /\ denied' = [p \in Loggers |-> IF pc'[p] = "idle" THEN {}
                  ELSE denied[p] \cup {f \in Filters : ~Allows(f, site[p], lvl[p])'}]

Init ==
  /\ level = 0 /\ override = FALSE /\ patterns = [s \in Sites |-> 0]
  /\ siteCache = NoCache /\ location = Nowhere /\ changes = 0
  /\ pc = [p \in Loggers |-> "idle"]
  /\ site \in [Loggers -> Sites] /\ lvl = [p \in Loggers |-> 0]
  /\ allowed = [p \in Loggers |-> {}] /\ denied = [p \in Loggers |-> {}]

-----------------------------------------------------------------------------
(* The settings.                                                           *)

Change == changes < MaxChanges /\ changes' = changes + 1

Verbosity(l) ==
  /\ Change /\ level' = l
  /\ UNCHANGED <<override, patterns, siteCache, location, pc, site, lvl>>

(* Mutant: the cache stays.                                                *)
VmoduleKeepsCache(rules, nonempty) ==
  /\ nonempty \/ \A s \in Sites : rules[s] = 0
  /\ Change
  /\ patterns' = rules /\ override' = nonempty
  /\ UNCHANGED <<siteCache, level, location, pc, site, lvl>>

(* Rules of level 0 are left out of the list; a list may match no site.    *)
Vmodule(rules, nonempty) ==
  /\ nonempty \/ \A s \in Sites : rules[s] = 0
  /\ Change
  /\ patterns' = rules /\ siteCache' = NoCache /\ override' = nonempty
  /\ UNCHANGED <<level, location, pc, site, lvl>>

BacktraceAt(s) ==
  /\ Change /\ location' = s
  /\ UNCHANGED <<level, override, patterns, siteCache, pc, site, lvl>>

-----------------------------------------------------------------------------
(* A record.                                                               *)

GoTo(p, step) == pc' = [pc EXCEPT ![p] = step]

Start(p) ==
  /\ pc[p] = "idle"
  /\ \E s \in Sites, l \in Lvls : site' = [site EXCEPT ![p] = s] /\ lvl' = [lvl EXCEPT ![p] = l]
  /\ GoTo(p, "backtrace")
  /\ UNCHANGED <<settings, siteCache>>

LoadBacktrace(p) ==
  /\ pc[p] = "backtrace"
  /\ GoTo(p, IF location # Nowhere THEN "match" ELSE "level")
  /\ UNCHANGED <<settings, siteCache, site, lvl>>

(* A record logged at the location becomes one of level info.              *)
Match(p) ==
  /\ pc[p] = "match"
  /\ lvl' = [lvl EXCEPT ![p] = IF location = site[p] THEN LvlInfo ELSE @]
  /\ GoTo(p, "level")
  /\ UNCHANGED <<settings, siteCache, site>>

CheckLevel(p) ==
  /\ pc[p] = "level"
  /\ GoTo(p, IF level >= lvl[p] THEN "emit" ELSE "override")
  /\ UNCHANGED <<settings, siteCache, site, lvl>>

CheckOverride(p) ==
  /\ pc[p] = "override"
  /\ GoTo(p, IF override THEN "cache" ELSE "drop")
  /\ UNCHANGED <<settings, siteCache, site, lvl>>

Decide(p, found) == GoTo(p, IF found >= lvl[p] THEN "emit" ELSE "drop")

ReadCache(p) ==
  /\ pc[p] = "cache"
  /\ IF siteCache[site[p]] = NotCached THEN GoTo(p, "compute") ELSE Decide(p, siteCache[site[p]])
  /\ UNCHANGED <<settings, siteCache, site, lvl>>

(* Mutant: what the site was found to be is not used for this record.      *)
ComputeUnused(p) ==
  /\ pc[p] = "compute"
  /\ siteCache' = [siteCache EXCEPT ![site[p]] = patterns[site[p]]]
  /\ Decide(p, level)
  /\ UNCHANGED <<settings, site, lvl>>

(* The patterns are those of now, whichever the cache was read with.       *)
Compute(p) ==
  /\ pc[p] = "compute"
  /\ siteCache' = [siteCache EXCEPT ![site[p]] = patterns[site[p]]]
  /\ Decide(p, patterns[site[p]])
  /\ UNCHANGED <<settings, site, lvl>>

Return(p) ==
  /\ pc[p] \in {"emit", "drop"}
  /\ GoTo(p, "idle")
  /\ UNCHANGED <<settings, siteCache, site, lvl>>

Set ==
  \/ \E l \in Lvls : Verbosity(l)
  \/ \E rules \in Rulesets, nonempty \in BOOLEAN : Vmodule(rules, nonempty)
  \/ \E s \in Sites : BacktraceAt(s)

Log(p) == LoadBacktrace(p) \/ Match(p) \/ CheckLevel(p) \/ CheckOverride(p) \/ ReadCache(p) \/ Compute(p)

Step == Set \/ \E p \in Loggers : Start(p) \/ Log(p) \/ Return(p)

Next == Step /\ Witness

Spec == Init /\ [][Next]_vars

-----------------------------------------------------------------------------
Steps == {"idle", "backtrace", "match", "level", "override", "cache", "compute", "emit", "drop"}

TypeOK ==
  /\ level \in Lvls /\ override \in BOOLEAN /\ patterns \in [Sites -> Lvls]
  /\ siteCache \in [Sites -> Lvls \cup {NotCached}] /\ location \in Sites \cup {Nowhere}
  /\ changes \in Nat
  /\ pc \in [Loggers -> Steps] /\ site \in [Loggers -> Sites] /\ lvl \in [Loggers -> Lvls]
  /\ allowed \in [Loggers -> SUBSET Filters] /\ denied \in [Loggers -> SUBSET Filters]

(* Whatever the cache knows of a call site is what the patterns of now say *)
(* of it, although it is read, computed and filled in three steps, between *)
(* which Vmodule may swap both (handler_glog.go:209-227).                  *)
CacheFresh == \A s \in Sites : siteCache[s] # NotCached => siteCache[s] = patterns[s]

(* A record is written only if one of the two filters let it through at    *)
(* some time while it was being logged, and dropped only if each of them,  *)
(* at some time, did not (handler_glog.go:179).  It is not at one time:    *)
(* raising the verbosity and then clearing the patterns can drop a record  *)
(* that one of the two let through all the time.                           *)
Filtered == \A p \in Loggers :
  /\ pc[p] = "emit" => allowed[p] # {}
  /\ pc[p] = "drop" => denied[p] = Filters

(* The strengthening the proof needs: what each step has established.      *)
Established ==
  /\ \A s \in Sites : patterns[s] > 0 => override
  /\ \A p \in Loggers : pc[p] \in {"override", "cache", "compute"} => "global" \in denied[p] /\ lvl[p] > 0

=============================================================================
