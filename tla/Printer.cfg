SPECIFICATION PrinterSpec
CONSTANTS
  MaxItems = 2
  MaxExtra = 2
INVARIANTS DocumentsClosed JsonReadable
CHECK_DEADLOCK FALSE
