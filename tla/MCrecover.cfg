CONSTANTS
  n1 = n1
  n2 = n2
  m1 = m1
  m2 = m2
  Notification = {n1, n2}
  Message = {m1, m2}
  Instance = {i1}
  Payload <- WithMalformed
  Malformed = Malformed
  Undecodable = Undecodable
  MaxAttempts = 2
  AttemptsReported = TRUE
  MaxConcurrent = 1
  MaxMessages = 2
  BatchSize = 2
  LeaseCoversJob = FALSE
  Nobody = Nobody
SPECIFICATION FairSpec
PROPERTIES RowsSettle MessagesEnd PoisonIsAcked
