CONSTANTS
  Handles = {h1, h2}
  Keys = {1, 2, 3}
  Cells = {v}
  Absent = Absent
  Clean = Clean
  Scans <- TwoScans
  Faults = {"put", "commit", "cursor"}
  NoHandle = NoHandle
SPECIFICATION Spec
INVARIANTS ScanExact NoLockLeak
PROPERTY AtomicTransactions
