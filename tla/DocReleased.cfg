SPECIFICATION Spec
CONSTANTS
  Call = {c1}
  NoCall = NoCall
  MaxCalls = 2
  MaxRetries = 0
  UseIce = FALSE
  DeferUpdate = FALSE
  EarlyMedia = FALSE
  RingInEarly = TRUE
  Offers = {"sendrecv", "sendonly"}
  Answers = {"sendrecv", "recvonly"}
  Faults = {"initial491"}
INVARIANT ReleasedIsNotRetained
CHECK_DEADLOCK FALSE
