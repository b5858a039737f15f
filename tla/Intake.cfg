SPECIFICATION IntakeSpec
CONSTANTS
  BlockSize = 2
  Width = 8
  Nil = Nil
  Answers <- PairBlocks
  TxIDs = {"a", "b", "c"}
  Seconds <- ThreeSeconds
  MaxPending = 6
INVARIANTS TakenAndKept BatchInOrder
PROPERTIES ImplementsQueue
CHECK_DEADLOCK FALSE
