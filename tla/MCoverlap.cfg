CONSTANTS
  Notification = {n1}
  Device = {d1, d2}
  Worker = {w1, w2}
  Recipients <- AllDevices
  Rank <- Order
  BatchSize = 1
  LeaseCoversJob = FALSE
  Healthy = {w1, w2}
  NoJob = NoJob
  NoDevice = NoDevice
SPECIFICATION Spec
CHECK_DEADLOCK FALSE
SYMMETRY Interchangeable
INVARIANTS TypeOK ExclusiveDevice NoResend RowsGuardDevices NoDeviceForgotten SentIsBacked OnlyMisreportedRepeat
PROPERTY AtMostOnce
