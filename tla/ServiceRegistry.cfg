CONSTANTS
  Runs = {r1, r2, r3}
  Services = {echo}
  MaxFaults = 1
  Capacity <- MCCapacity
  Size <- MCSize
  NoNode = NoNode
  Nobody = Nobody
  Junk = Junk
  Cut = Cut
SPECIFICATION Spec
CHECK_DEADLOCK FALSE
INVARIANTS Inv ListedUnlessExcused
PROPERTIES ServesEventually ForgottenAfterAll
