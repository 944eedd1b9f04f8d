SPECIFICATION DoorsSpec
CONSTANTS
  k1 = k1
  k2 = k2
  adm = adm
  None = None
  Clients = {k1, k2, adm}
  Scenarios <- MCScenarios
  MaxJobs = 2
  HistMax = 4
  HistCap = 1
  PageMax = 1
INVARIANTS
  TenantsApart
  ReportsTrue
PROPERTIES
  PassedIsKnown
CHECK_DEADLOCK FALSE
