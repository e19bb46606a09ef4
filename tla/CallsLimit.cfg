SPECIFICATION Spec
CONSTANTS
  Call = {c1, c2}
  NoCall = NoCall
  MaxCalls = 1
  MaxRetries = 0
  UseIce = FALSE
  DeferUpdate = FALSE
  EarlyMedia = FALSE
  RingInEarly = TRUE
  Offers = {"sendrecv"}
  Answers = {"sendrecv"}
  Faults = {"initial491", "lateProvisional", "earlyUpdate", "refusedUpdate"}
SYMMETRY Symmetry
INVARIANT WithinLimit
CHECK_DEADLOCK FALSE
