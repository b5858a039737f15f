SPECIFICATION Spec
CONSTANTS
  t1 = t1
  unknown = unknown
  CrossIDs = {t1}
  Txs = {t1}
  Receipts <- ReceiptOfOne
  Values <- MCValues
  TimeStamp <- MCTimeStamp
  Slots = {s1}
  PendingCap = 1
  ExecutedCap = 1
  MaxPosts = 1
  MaxRestarts = 0
  MarshalMayFail = FALSE
  SendMayFail = FALSE
  StoreMayFail = FALSE
  FabricMayFail = FALSE
INVARIANT UpdateSucceeds
CHECK_DEADLOCK FALSE
