SPECIFICATION Spec
CONSTANTS
  Call = {c1, c2}
  NoCall = NoCall
  MaxCalls = 2
  MaxRetries = 0
  UseIce = FALSE
  DeferUpdate = FALSE
  EarlyMedia = FALSE
  RingInEarly = TRUE
  Offers = {"sendrecv", "sendonly"}
  Answers = {"sendrecv", "recvonly", "bad", "insecure"}
  Faults = {}
SYMMETRY Symmetry
INVARIANT TypeOK
INVARIANT CurrentInList
INVARIANT RingHasReason
INVARIANT EndedIsClosing
 
INVARIANT WaitsForSomething
INVARIANT RestoresSettled
INVARIANT AnsweredIsLogged
PROPERTY SwitchPausesCurrent
PROPERTY AcceptCancelsOutgoing
PROPERTY ImplementsLifecycle
CHECK_DEADLOCK FALSE
