CONSTANTS
  Notification = {n1, n2}
  Device = {d1, d2}
  Worker = {w1, w2}
  Recipients <- AllDevices
  Rank <- Order
  BatchSize = 2
  LeaseCoversJob = TRUE
  Healthy = {w1, w2}
  NoJob = NoJob
  NoDevice = NoDevice
SPECIFICATION Spec
CHECK_DEADLOCK FALSE
SYMMETRY Interchangeable
VIEW WithoutHistory
INVARIANTS SingleOwner FailedMeansNoneSent NoOpenRowLeft
PROPERTIES Lifecycle
