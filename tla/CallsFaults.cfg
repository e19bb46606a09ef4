SPECIFICATION Spec
CONSTANTS
  Call = {c1, c2}
  NoCall = NoCall
  MaxCalls = 2
  MaxRetries = 1
  UseIce = FALSE
  DeferUpdate = FALSE
  EarlyMedia = FALSE
  RingInEarly = TRUE
  Offers = {"sendrecv"}
  Answers = {"sendrecv"}
  Faults = {"dialogBusy", "appHangup", "inviteError", "referMidway", "updateOnHold"}
SYMMETRY Symmetry
INVARIANT CallListExact
PROPERTY AnsweredLogKept
CHECK_DEADLOCK FALSE
