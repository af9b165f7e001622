CONSTANTS
  a = a
  b = b
  None = None
  Digests <- MCDigests
  Size <- MCSize
  MaxEntries = 2
  MaxBytes = 9
  MaxEntryBytes = 2
  MaxAttempts = 1
  DiskFaults = FALSE
  Rejections = FALSE
  ClockMonotonic = TRUE
  MaxId = 6
  MaxChanges = 1
  MaxCrashes = 0
  MaxExpiries = 1
SPECIFICATION FairSpec
PROPERTIES RefreshHappens Convergence EverythingSettles
