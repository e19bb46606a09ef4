SPECIFICATION Spec
CONSTANTS
  Call = {c1, c2}
  NoCall = NoCall
  MaxCalls = 2
  MaxRetries = 0
  UseIce = TRUE
  DeferUpdate = FALSE
  EarlyMedia = FALSE
  RingInEarly = TRUE
  Offers = {"sendrecv"}
  Answers = {"sendrecv"}
  Faults = {}
SYMMETRY Symmetry
INVARIANT EndedHoldsNothing
INVARIANT UpdateCanBeAnswered
CHECK_DEADLOCK FALSE
