SPECIFICATION AccountFairSpec
CONSTANTS
  p1 = p1
  p2 = p2
  f1 = f1
  f2 = f2
  Proxy = {p1, p2}
  NoProxy = NoProxy
  Friend = {f1, f2}
  Home <- AllHome
  OnlyWhenRegistered = TRUE
  Scopes <- AllScopes
INVARIANT PublishNotForgotten
INVARIANT ProgressIsGoingOn
INVARIANT WantedIsRefreshed
PROPERTY RegistrationSettles
