CONSTANTS
  ma = ma
  mb = mb
  mc = mc
  da = da
  db = db
  None = None
  Modules = {ma, mb}
  Devices = {da, db}
  DeviceOf <- MCDeviceOf
  Calls <- MCCalls
  Startup <- MCStartup
  AsyncAuth = FALSE
  MayStayDown = TRUE
  Askers = {}
  MaxGen = 2
  MaxEnds = 1
SPECIFICATION LiveSpec
CHECK_DEADLOCK FALSE
PROPERTY DiscoveryNotBlocked
