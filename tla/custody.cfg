CONSTANTS
  a = a
  b = b
  None = None
  Digests <- MCDigests
  Size <- MCSize
  MaxEntries = 1
  MaxBytes = 4
  MaxEntryBytes = 2
  MaxAttempts = 1
  DiskFaults = TRUE
  Rejections = TRUE
  ClockMonotonic = FALSE
  MaxId = 2
  MaxChanges = 1
  MaxCrashes = 1
  MaxExpiries = 0
SPECIFICATION Spec
INVARIANTS NoSilentLoss
PROPERTY CustodyKept
