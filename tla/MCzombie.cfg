CONSTANTS
  Notification = {n1}
  Device = {d1}
  Worker = {w1, w2}
  Recipients <- AllDevices
  Rank <- Order
  BatchSize = 1
  LeaseCoversJob = FALSE
  Healthy = {w1, w2}
  NoJob = NoJob
  NoDevice = NoDevice
SPECIFICATION Spec
CHECK_DEADLOCK FALSE
SYMMETRY Interchangeable
INVARIANT FailedMeansNoneSent
