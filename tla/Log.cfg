SPECIFICATION LogSpec
CONSTANTS
  Loggers = {p, q}
  s = s
  u = u
  Sites = {s, u}
  Rulesets <- SomeRules
  MaxLvl = 1
  LvlInfo = 0
  MaxChanges = 2
  Nowhere = Nowhere
  Unlocked = Unlocked
  Calls <- SomeCalls
  LoggerCtx <- Context
  MaxPadding = 2
INVARIANTS CacheFresh Filtered LineReadable
SYMMETRY Same
CHECK_DEADLOCK FALSE
