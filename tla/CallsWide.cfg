SPECIFICATION Spec
CONSTANTS
  Call = {c1}
  NoCall = NoCall
  MaxCalls = 2
  MaxRetries = 1
  UseIce = FALSE
  DeferUpdate = FALSE
  EarlyMedia = TRUE
  RingInEarly = FALSE
  Offers = {"sendrecv", "sendonly", "recvonly", "inactive", "nosdp"}
  Answers = {"sendrecv", "sendonly", "recvonly", "inactive", "bad", "insecure"}
  Faults = {}
INVARIANT AnsweredHasDialog
CHECK_DEADLOCK FALSE
