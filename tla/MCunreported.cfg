CONSTANTS
  n1 = n1
  n2 = n2
  m1 = m1
  m2 = m2
  Notification = {n1}
  Message = {m1, m2}
  Instance = {i1}
  Payload <- WithUndecodable
  Malformed = Malformed
  Undecodable = Undecodable
  MaxAttempts = 1
  AttemptsReported = FALSE
  MaxConcurrent = 1
  MaxMessages = 1
  BatchSize = 1
  LeaseCoversJob = FALSE
  Nobody = Nobody
SPECIFICATION FairSpec
PROPERTIES MessagesOfRowsEnd
