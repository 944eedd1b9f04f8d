SPECIFICATION Spec
CONSTANTS
  Places <- MCPlaces
  Home <- A
  Base <- MCBase
  Declared <- MCDeclared
  Protected <- MCProtected
  ProcFd = TRUE
  s = s
  t = t
  Slots = {s, t}
  MaxRaces = 2
  None = None
SYMMETRY SlotSym
INVARIANT EveryDescriptorVerified
