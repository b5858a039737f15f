SPECIFICATION LiveSpec
CONSTANTS
  t1 = t1
  unknown = unknown
  CrossIDs = {t1, unknown}
  Txs = {t1}
  Receipts <- WithUnknown
  Values <- MCValues
  TimeStamp <- MCTimeStamp
  Slots = {s1, s2}
  PendingCap = 1
  ExecutedCap = 1
  MaxPosts = 2
  MaxRestarts = 1
  MarshalMayFail = FALSE
  SendMayFail = FALSE
  StoreMayFail = FALSE
  FabricMayFail = TRUE
INVARIANT PendingWakeup
PROPERTIES InitIsSent ReceiptHandled
CHECK_DEADLOCK FALSE
