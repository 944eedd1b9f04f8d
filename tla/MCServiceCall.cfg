CONSTANTS
  r1 = r1
  r2 = r2
  k1 = k1
  k2 = k2
  Requests = {r1, r2}
  Keys = {k1, k2}
  Callers <- MCCallers
  Asked <- MCAsked
  Identity = svc
  Quota = 1
  Funds = 0
  MaxReports = 2
  MaxEnds = 1
  RateLimit = 1
  None = None
SPECIFICATION LiveSpec
CHECK_DEADLOCK FALSE
INVARIANTS
  BillsRight
  FirstReportWins
  LedgerExact
PROPERTY RequestsAnswered
