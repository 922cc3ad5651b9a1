CONSTANTS
  Kinds = {"buyer", "seller", "admin"}
  Tabs = {1, 2}
  Slots = {s1, s2}
  MaxPairs = 3
  MaxMishaps <- MCMishaps
SYMMETRY Symmetry
SPECIFICATION Spec
\* The logins are bounded: a client may end up with nothing left to do.
CHECK_DEADLOCK FALSE
INVARIANTS
  TypeOK
  SignOutSticks
  HonouredSessionKept
  OneRefreshAtATime
  InsideHoldsTokens
  WaitersAreServed
