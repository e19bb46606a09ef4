SPECIFICATION Spec
CONSTANTS
  Call = {c1}
  NoCall = NoCall
  MaxCalls = 2
  MaxRetries = 0
  UseIce = FALSE
  DeferUpdate = FALSE
  EarlyMedia = FALSE
  RingInEarly = TRUE
  Offers = {"sendrecv", "sendonly"}
  Answers = {"sendrecv", "recvonly"}
  Faults = {}
INVARIANT OfferIsAnswered
CHECK_DEADLOCK FALSE
