CONSTANTS
  n1 = n1
  n2 = n2
  m1 = m1
  m2 = m2
  Notification = {n1, n2}
  Message = {m1}
  Instance = {i1, i2}
  Payload <- Single
  Malformed = Malformed
  Undecodable = Undecodable
  MaxAttempts = 2
  AttemptsReported = TRUE
  MaxConcurrent = 1
  MaxMessages = 1
  BatchSize = 2
  LeaseCoversJob = TRUE
  Nobody = Nobody
SPECIFICATION Spec
SYMMETRY Interchangeable
INVARIANTS TypeOK PermitsConserved OneOwner NoEarlyAck
PROPERTY Lifecycle
