SPECIFICATION FairSpec
CONSTANTS
  a = a
  b = b
  b2 = b2
  d1 = d1
  d2 = d2
  None = None
  Workers <- WithSpare
  Devices <- TwoDevices
  Home <- HomeB
  Successor <- SpareB
  Uses <- UsesOfA
  Mortal <- OnlyB
  Revocable <- UseOfD1
  MaxChannels = 2
INVARIANTS
  OneRequestInFlight
  RegistryHonest
PROPERTIES
  RevokedForCause
  RevocationTakesEffect
CHECK_DEADLOCK FALSE
