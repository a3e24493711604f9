CONSTANTS
  Notification = {n1}
  Device = {d1, d2}
  Worker = {w1, w2}
  Recipients <- AllDevices
  Rank <- Order
  BatchSize = 1
  LeaseCoversJob = FALSE
  Healthy = {w2}
  NoJob = NoJob
  NoDevice = NoDevice
SPECIFICATION FairSpec
CHECK_DEADLOCK FALSE
VIEW WithoutHistory
PROPERTY Settles
