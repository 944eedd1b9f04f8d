SPECIFICATION Spec
CONSTANTS
  m1 = m1
  m2 = m2
  adm = adm
  adm2 = adm2
  usr = usr
  None = None
  Modules = {m1, m2}
  Versions <- MCVersions
  Reserved <- MCReserved
  Plans <- MCPlans
  MaxGen = 3
  MaxExits = 1
  Clients = {adm, adm2, usr}
  Scenarios <- MCScenarios
  Role <- MCRole
  Owns <- MCOwns
  ValidateMax = 1
  Balance <- MCBalance
INVARIANTS
  PlanNamesAppear
CHECK_DEADLOCK FALSE
