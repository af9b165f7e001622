CONSTANTS
  a = a
  b = b
  None = None
  Digests <- MCDigests
  Size <- MCSize
  MaxEntries = 2
  MaxBytes = 4
  MaxEntryBytes = 2
  MaxAttempts = 2
  DiskFaults = FALSE
  Rejections = TRUE
  ClockMonotonic = TRUE
  MaxId = 3
  MaxChanges = 2
  MaxCrashes = 1
  MaxExpiries = 1
SPECIFICATION Spec
INVARIANTS QueuedIsNewest NewestRetained BaselineUnlessCrashed
PROPERTY ServerNeverRegresses
