----------------------------- MODULE Log_proofs -----------------------------
(***************************************************************************)
(* Theorems about the log, for any loggers, call sites, levels, rulesets   *)
(* and calls: what its filter decides (Glog), on its own and in front of   *)
(* the stream (Log), and that the stream writes one record at a time.      *)
(***************************************************************************)
EXTENDS Log, TLAPS

(* The types of the filter, of a record that is being written too.         *)
FilterTypes ==
  /\ level \in Lvls /\ override \in BOOLEAN /\ patterns \in [Sites -> Lvls]
  /\ siteCache \in [Sites -> Lvls \cup {NotCached}] /\ location \in Sites \cup {Nowhere}
  /\ changes \in Nat
  /\ pc \in [Loggers -> Steps \cup {"written"}] /\ site \in [Loggers -> Sites]
  /\ lvl \in [Loggers -> Lvls]
  /\ allowed \in [Loggers -> SUBSET Filters] /\ denied \in [Loggers -> SUBSET Filters]

Inv == FilterTypes /\ CacheFresh /\ Established /\ Filtered

-----------------------------------------------------------------------------
LEMMA Levels == MaxLvl \in Nat /\ LvlInfo \in Lvls /\ Rulesets \subseteq [Sites -> Lvls] /\ NotCached \notin Lvls
BY LevelAssumption, RulesetAssumption DEF Lvls, NotCached

(* The history grows while a record is logged.                             *)
LEMMA HistoryGrows ==
  ASSUME FilterTypes, Witness, NEW p \in Loggers, pc'[p] # "idle"
  PROVE  /\ allowed[p] \subseteq allowed'[p] /\ denied[p] \subseteq denied'[p]
         /\ level' >= lvl'[p] => "global" \in allowed'[p]
         /\ override' /\ patterns'[site'[p]] >= lvl'[p] => "local" \in allowed'[p]
         /\ ~(level' >= lvl'[p]) => "global" \in denied'[p]
         /\ ~(override' /\ patterns'[site'[p]] >= lvl'[p]) => "local" \in denied'[p]
BY DEF Witness, Allows, Filters

LEMMA HistoryType ==
  ASSUME FilterTypes, Witness
  PROVE  allowed' \in [Loggers -> SUBSET Filters] /\ denied' \in [Loggers -> SUBSET Filters]
BY DEF FilterTypes, Witness

(* A step of the filter, on its own or in front of the stream.             *)
AnyStep == (Step \/ LogStep) /\ Witness

LEMMA TypeStep ==
  ASSUME FilterTypes, AnyStep \/ UNCHANGED vars
  PROVE  FilterTypes'
<1> USE DEF FilterTypes
<1>1. CASE UNCHANGED vars
  BY <1>1 DEF vars, settings
<1>2. ASSUME Witness, NEW l \in Lvls, Verbosity(l)
      PROVE  FilterTypes'
  BY <1>2, HistoryType DEF Verbosity, Change
<1>3. ASSUME Witness, NEW rules \in Rulesets, NEW nonempty \in BOOLEAN, Vmodule(rules, nonempty)
      PROVE  FilterTypes'
  BY <1>3, HistoryType, Levels DEF Vmodule, Change, NoCache
<1>4. ASSUME Witness, NEW s \in Sites, BacktraceAt(s)
      PROVE  FilterTypes'
  BY <1>4, HistoryType DEF BacktraceAt, Change
<1>5. ASSUME Witness, NEW p \in Loggers, Start(p) \/ Return(p)
      PROVE  FilterTypes'
  BY <1>5, HistoryType DEF Start, Return, GoTo, settings, Steps
<1>6. ASSUME Witness, NEW p \in Loggers, LoadBacktrace(p) \/ Match(p)
      PROVE  FilterTypes'
  BY <1>6, HistoryType, Levels DEF LoadBacktrace, Match, GoTo, settings, Steps
<1>7. ASSUME Witness, NEW p \in Loggers, CheckLevel(p) \/ CheckOverride(p)
      PROVE  FilterTypes'
  BY <1>7, HistoryType DEF CheckLevel, CheckOverride, GoTo, settings, Steps
<1>8. ASSUME Witness, NEW p \in Loggers, ReadCache(p)
      PROVE  FilterTypes'
  BY <1>8, HistoryType DEF ReadCache, Decide, GoTo, settings, Steps
<1>9. ASSUME Witness, NEW p \in Loggers, Compute(p)
      PROVE  FilterTypes'
  BY <1>9, HistoryType DEF Compute, Decide, GoTo, settings, Steps
<1>10. ASSUME Witness, NEW p \in Loggers, Sync(p) \/ Format(p) \/ Written(p)
       PROVE  FilterTypes'
  BY <1>10, HistoryType DEF Sync, Format, Written, GoTo, settings, Steps
<1>11. ASSUME Witness, NEW p \in Loggers, Log(p)
       PROVE  FilterTypes'
  BY <1>11, <1>6, <1>7, <1>8, <1>9 DEF Log
<1>12. CASE Step /\ Witness
  BY <1>12, <1>2, <1>3, <1>4, <1>5, <1>11 DEF Step, Set
<1>13. CASE LogStep /\ Witness
  BY <1>13, <1>2, <1>3, <1>4, <1>5, <1>10, <1>11 DEF LogStep, Set, Write, Dropped
<1> QED
  BY <1>1, <1>12, <1>13 DEF AnyStep

-----------------------------------------------------------------------------
(* A step that leaves the records alone keeps what is known of them.       *)
LEMMA OthersKept ==
  ASSUME Inv, Witness, NEW q \in Loggers, pc'[q] = pc[q], lvl'[q] = lvl[q]
  PROVE  /\ pc'[q] \in {"override", "cache", "compute"} => "global" \in denied'[q] /\ lvl'[q] > 0
         /\ pc'[q] = "emit" => allowed'[q] # {}
         /\ pc'[q] = "drop" => denied'[q] = Filters
<1>1. CASE pc[q] \in {"override", "cache", "compute", "emit", "drop"}
  <2>1. allowed[q] \subseteq allowed'[q] /\ denied[q] \subseteq denied'[q]
    BY <1>1, HistoryGrows DEF Inv
  <2>2. denied'[q] \subseteq Filters
    BY HistoryType DEF Inv
  <2> QED
    BY <1>1, <2>1, <2>2 DEF Inv, Established, Filtered
<1>2. CASE pc[q] \notin {"override", "cache", "compute", "emit", "drop"}
  BY <1>2
<1> QED
  BY <1>1, <1>2

(* What a step of one logger has to establish.                             *)
Known(p) ==
  /\ pc[p] \in {"override", "cache", "compute"} => "global" \in denied[p] /\ lvl[p] > 0
  /\ pc[p] = "emit" => allowed[p] # {}
  /\ pc[p] = "drop" => denied[p] = Filters

LEMMA SettingsStep ==
  ASSUME Inv, Witness, Set
  PROVE  CacheFresh' /\ Established' /\ Filtered'
<1>1. pc' = pc /\ lvl' = lvl /\ site' = site
  BY DEF Set, Verbosity, Vmodule, BacktraceAt
<1>2. \A q \in Loggers : Known(q)'
  BY <1>1, OthersKept DEF Known
<1>3. CacheFresh' /\ \A s \in Sites : patterns'[s] > 0 => override'
  <2>1. CASE UNCHANGED <<patterns, siteCache, override>>
    BY <2>1 DEF Inv, CacheFresh, Established
  <2>2. ASSUME NEW rules \in Rulesets, NEW nonempty \in BOOLEAN, Vmodule(rules, nonempty)
        PROVE  CacheFresh' /\ \A s \in Sites : patterns'[s] > 0 => override'
    <3>1. CacheFresh'
      BY <2>2 DEF Vmodule, NoCache, CacheFresh
    <3>2. \A s \in Sites : patterns'[s] > 0 => override'
      BY <2>2 DEF Vmodule
    <3> QED
      BY <3>1, <3>2
  <2> QED
    BY <2>1, <2>2 DEF Set, Verbosity, BacktraceAt
<1> QED
  BY <1>2, <1>3 DEF Known, Established, Filtered

(* The steps of a logger change no settings, and the cache only for one.   *)
LEMMA LoggerStep ==
  ASSUME Inv, Witness, NEW p \in Loggers, Known(p)', CacheFresh',
         UNCHANGED <<override, patterns>>,
         \A q \in Loggers \ {p} : pc'[q] = pc[q] /\ lvl'[q] = lvl[q]
  PROVE  CacheFresh' /\ Established' /\ Filtered'
<1>1. \A q \in Loggers : Known(q)'
  BY OthersKept DEF Known
<1> QED
  BY <1>1 DEF Known, Inv, Established, Filtered

LEMMA SafetyStep ==
  ASSUME Inv, AnyStep \/ UNCHANGED vars
  PROVE  CacheFresh' /\ Established' /\ Filtered'
<1>t. FilterTypes /\ FilterTypes'
  BY TypeStep DEF Inv
<1>1. CASE UNCHANGED vars
  BY <1>1 DEF Inv, vars, settings, CacheFresh, Established, Filtered, Filters
<1>2. CASE Set /\ Witness
  BY <1>2, SettingsStep
<1>3. ASSUME Witness, NEW p \in Loggers,
             \/ Start(p) \/ Return(p) \/ LoadBacktrace(p) \/ Match(p) \/ Format(p) \/ Written(p)
      PROVE  CacheFresh' /\ Established' /\ Filtered'
  <2>1. pc'[p] \notin {"override", "cache", "compute", "emit", "drop"}
    BY <1>3, <1>t DEF FilterTypes, Start, Return, LoadBacktrace, Match, Format, Written, GoTo
  <2>2. UNCHANGED <<override, patterns, siteCache>>
    BY <1>3 DEF Start, Return, LoadBacktrace, Match, Format, Written, settings
  <2>3. \A q \in Loggers \ {p} : pc'[q] = pc[q] /\ lvl'[q] = lvl[q]
    BY <1>3, <1>t DEF FilterTypes, Start, Return, LoadBacktrace, Match, Format, Written, GoTo
  <2>4. CacheFresh'
    BY <2>2 DEF Inv, CacheFresh
  <2> QED
    BY <1>3, <2>1, <2>2, <2>3, <2>4, LoggerStep DEF Known
<1>4. ASSUME Witness, NEW p \in Loggers, CheckLevel(p) \/ CheckOverride(p) \/ ReadCache(p) \/ Compute(p)
      PROVE  CacheFresh' /\ Established' /\ Filtered'
  <2>1. UNCHANGED <<override, patterns, level, site, lvl>>
    BY <1>4 DEF CheckLevel, CheckOverride, ReadCache, Compute, settings
  <2>2. \A q \in Loggers \ {p} : pc'[q] = pc[q] /\ lvl'[q] = lvl[q]
    BY <1>4, <1>t DEF FilterTypes, CheckLevel, CheckOverride, ReadCache, Compute, Decide, GoTo
  <2>3. pc'[p] # "idle" /\ pc[p] \in {"level", "override", "cache", "compute"}
    BY <1>4, <1>t DEF FilterTypes, CheckLevel, CheckOverride, ReadCache, Compute, Decide, GoTo
  <2>4. /\ denied[p] \subseteq denied'[p] /\ denied'[p] \subseteq Filters
        /\ level >= lvl[p] => "global" \in allowed'[p]
        /\ override /\ patterns[site[p]] >= lvl[p] => "local" \in allowed'[p]
        /\ ~(level >= lvl[p]) => "global" \in denied'[p]
        /\ ~(override /\ patterns[site[p]] >= lvl[p]) => "local" \in denied'[p]
    BY <1>4, <1>t, <2>1, <2>3, HistoryGrows DEF FilterTypes
  <2>5. site[p] \in Sites /\ lvl[p] \in Nat /\ level \in Nat /\ patterns[site[p]] \in Nat
    BY <1>t, Levels DEF FilterTypes, Lvls
  <2>6. CacheFresh'
    <3>1. CASE siteCache' = siteCache
      BY <3>1, <2>1 DEF Inv, CacheFresh
    <3>2. CASE Compute(p)
      BY <3>2, <2>1, <1>t DEF FilterTypes, Inv, CacheFresh, Compute
    <3> QED
      BY <1>4, <3>1, <3>2 DEF CheckLevel, CheckOverride, ReadCache
  <2>7. CASE CheckLevel(p)
    <3>1. pc'[p] = IF level >= lvl[p] THEN "emit" ELSE "override"
      BY <2>7, <1>t DEF FilterTypes, CheckLevel, GoTo
    <3>2. Known(p)'
      BY <3>1, <2>1, <2>4, <2>5 DEF Known
    <3> QED
      BY <1>4, <2>1, <2>2, <2>6, <3>2, LoggerStep
  <2>8. CASE CheckOverride(p)
    <3>1. /\ pc[p] = "override"
          /\ pc'[p] = IF override THEN "cache" ELSE "drop"
      BY <2>8, <1>t DEF FilterTypes, CheckOverride, GoTo
    <3>2. "global" \in denied[p] /\ lvl[p] > 0
      BY <3>1 DEF Inv, Established
    <3>3. Known(p)'
      BY <3>1, <3>2, <2>1, <2>4 DEF Known, Filters
    <3> QED
      BY <1>4, <2>1, <2>2, <2>6, <3>3, LoggerStep
  <2>9. ASSUME NEW found \in Nat, found = patterns[site[p]], Decide(p, found),
               pc[p] \in {"cache", "compute"}
        PROVE  Known(p)'
    <3>1. pc'[p] = IF found >= lvl[p] THEN "emit" ELSE "drop"
      BY <2>9, <1>t DEF FilterTypes, Decide, GoTo
    <3>2. "global" \in denied[p] /\ lvl[p] > 0
      BY <2>9 DEF Inv, Established
    <3>3. found >= lvl[p] => override
      BY <2>9, <2>5, <3>2 DEF Inv, Established
    <3> QED
      BY <2>9, <3>1, <3>2, <3>3, <2>1, <2>4 DEF Known, Filters
  <2>10. CASE ReadCache(p)
    <3>1. CASE siteCache[site[p]] = NotCached
      <4>1. pc[p] = "cache" /\ pc'[p] = "compute"
        BY <2>10, <3>1, <1>t DEF FilterTypes, ReadCache, GoTo
      <4>2. Known(p)'
        BY <4>1, <2>1, <2>4 DEF Known, Inv, Established
      <4> QED
        BY <1>4, <2>1, <2>2, <2>6, <4>2, LoggerStep
    <3>2. CASE siteCache[site[p]] # NotCached
      <4>1. siteCache[site[p]] = patterns[site[p]]
        BY <3>2, <2>5 DEF Inv, CacheFresh
      <4>2. Decide(p, patterns[site[p]]) /\ pc[p] = "cache"
        BY <2>10, <3>2, <4>1 DEF ReadCache
      <4>3. Known(p)'
        BY <4>2, <2>5, <2>9
      <4> QED
        BY <1>4, <2>1, <2>2, <2>6, <4>3, LoggerStep
    <3> QED
      BY <3>1, <3>2
  <2>11. CASE Compute(p)
    <3>1. Known(p)'
      BY <2>11, <2>5, <2>9 DEF Compute
    <3> QED
      BY <1>4, <2>1, <2>2, <2>6, <3>1, LoggerStep
  <2> QED
    BY <1>4, <2>7, <2>8, <2>10, <2>11
<1>5. ASSUME Witness, NEW p \in Loggers, Sync(p)
      PROVE  CacheFresh' /\ Established' /\ Filtered'
  <2>1. UNCHANGED <<override, patterns, siteCache, pc, lvl>>
    BY <1>5 DEF Sync, settings
  <2>2. CacheFresh' /\ Known(p)'
    BY <1>5, <2>1, OthersKept DEF Inv, CacheFresh, Known
  <2> QED
    BY <1>5, <2>1, <2>2, LoggerStep
<1>6. ASSUME Witness, NEW p \in Loggers, Log(p)
      PROVE  CacheFresh' /\ Established' /\ Filtered'
  BY <1>6, <1>3, <1>4 DEF Log
<1>7. CASE Step /\ Witness
  BY <1>7, <1>2, <1>3, <1>6 DEF Step
<1>8. CASE LogStep /\ Witness
  BY <1>8, <1>2, <1>3, <1>5, <1>6 DEF LogStep, Write, Dropped
<1> QED
  BY <1>1, <1>7, <1>8 DEF AnyStep

-----------------------------------------------------------------------------
LEMMA InitialInv ==
  ASSUME Init
  PROVE  Inv
<1>1. patterns \in [Sites -> Lvls] /\ siteCache \in [Sites -> Lvls \cup {NotCached}] /\ level \in Lvls
  <2>1. 0 \in Lvls
    BY Levels DEF Lvls
  <2> QED
    BY <2>1 DEF Init, NoCache
<1>2. pc \in [Loggers -> Steps] /\ lvl \in [Loggers -> Lvls] /\ site \in [Loggers -> Sites]
  <2>1. 0 \in Lvls
    BY Levels DEF Lvls
  <2> QED
    BY <2>1 DEF Init, Steps
<1>3. allowed \in [Loggers -> SUBSET Filters] /\ denied \in [Loggers -> SUBSET Filters]
  BY DEF Init
<1>4. FilterTypes
  BY <1>1, <1>2, <1>3 DEF Init, FilterTypes
<1>5. CacheFresh
  BY DEF Init, CacheFresh, NoCache
<1>6. Established /\ Filtered
  BY DEF Init, Established, Filtered
<1> QED
  BY <1>4, <1>5, <1>6 DEF Inv

LEMMA FilterInductive == Spec => []Inv
<1>1. Init => Inv
  BY InitialInv
<1>2. Inv /\ [Next]_vars => Inv'
  BY TypeStep, SafetyStep DEF Inv, Next, AnyStep
<1> QED
  BY <1>1, <1>2, PTL DEF Spec

LEMMA LogInductive == LogSpec => []Inv
<1>1. LogInit => Inv
  BY InitialInv DEF LogInit
<1>2. Inv /\ [LogNext]_<<vars, stream>> => Inv'
  BY TypeStep, SafetyStep DEF Inv, LogNext, AnyStep
<1> QED
  BY <1>1, <1>2, PTL DEF LogSpec

(* The type invariant of the filter on its own.                            *)
THEOREM TypeCorrect == Spec => []TypeOK
<1>1. Init => TypeOK
  <2>1. pc \in [Loggers -> Steps] \/ ~Init
    BY DEF Init, Steps
  <2> QED
    BY <2>1, InitialInv DEF Inv, FilterTypes, TypeOK
<1>2. Inv /\ TypeOK /\ [Next]_vars => TypeOK'
  <2> SUFFICES ASSUME Inv, TypeOK, [Next]_vars
               PROVE  TypeOK'
    OBVIOUS
  <2>1. FilterTypes'
    BY TypeStep DEF Inv, Next, AnyStep
  <2>2. CASE UNCHANGED pc
    BY <2>1, <2>2 DEF FilterTypes, TypeOK
  <2>3. CASE \E p \in Loggers, step \in Steps : GoTo(p, step)
    <3>1. pc' \in [Loggers -> Steps]
      BY <2>3 DEF TypeOK, GoTo
    <3> QED
      BY <2>1, <3>1 DEF FilterTypes, TypeOK
  <2>4. ASSUME NEW p \in Loggers, Start(p) \/ Log(p) \/ Return(p)
        PROVE  \E step \in Steps : GoTo(p, step)
    BY <2>4 DEF Start, Log, Return, LoadBacktrace, Match, CheckLevel, CheckOverride, ReadCache,
                Compute, Decide, Steps
  <2> QED
    BY <2>2, <2>3, <2>4 DEF Next, Step, Set, Verbosity, Vmodule, BacktraceAt, vars
<1> QED
  BY <1>1, <1>2, FilterInductive, PTL DEF Spec

(* The cache of call sites is never out of date, whatever Log and Vmodule  *)
(* interleave, on its own and in front of the stream                       *)
(* (handler_glog.go:209-227).                                              *)
THEOREM CacheNeverStale == (Spec => []CacheFresh) /\ (LogSpec => []CacheFresh)
<1>1. Inv => CacheFresh
  BY DEF Inv
<1> QED
  BY <1>1, FilterInductive, LogInductive, PTL

(* Every record written was let through by a filter while it was logged,   *)
(* and every record dropped was not let through by each, while another one *)
(* may hold the stream (handler_glog.go:179, handler.go:52).               *)
THEOREM RecordsFiltered == (Spec => []Filtered) /\ (LogSpec => []Filtered)
<1>1. Inv => Filtered
  BY DEF Inv
<1> QED
  BY <1>1, FilterInductive, LogInductive, PTL

=============================================================================
