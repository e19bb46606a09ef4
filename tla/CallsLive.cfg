SPECIFICATION FairSpec
CONSTANTS
  Call = {c1, c2}
  NoCall = NoCall
  MaxCalls = 2
  MaxRetries = 0
  UseIce = FALSE
  DeferUpdate = FALSE
  EarlyMedia = FALSE
  RingInEarly = TRUE
  Offers = {"sendrecv"}
  Answers = {"sendrecv"}
  Faults = {}
PROPERTY EndedIsReleased
PROPERTY RequestSettles
PROPERTY ResumeTaskEnds
CHECK_DEADLOCK FALSE
