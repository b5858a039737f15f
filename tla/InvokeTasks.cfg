SPECIFICATION Spec
CONSTANTS
  Commands <- AllCommands
  Width = 3
  NoTask = NoTask
INVARIANTS ReportsTrue ArgsMeant PrintsAlone
PROPERTIES Finishes
CHECK_DEADLOCK FALSE
