SPECIFICATION BrokerSpec
CONSTANTS
  a = a
  b = b
  b2 = b2
  d1 = d1
  d2 = d2
  None = None
  Workers <- NoSpare
  Devices <- TwoDevices
  Home <- HomeEach
  Successor <- SpareNone
  Uses <- UsesOfBoth
  Mortal = {}
  Revocable = {}
  MaxChannels = 2
INVARIANT
  DirectionsApart
CHECK_DEADLOCK FALSE
