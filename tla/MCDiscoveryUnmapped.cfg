CONSTANTS
  ma = ma
  mb = mb
  mc = mc
  da = da
  db = db
  None = None
  Modules = {ma, mb}
  Devices = {da, db}
  DeviceOf <- MCDeviceOf
  Calls <- MCCalls
  Startup <- MCStartup
  AsyncAuth = TRUE
  MayStayDown = TRUE
  Askers = {}
  MaxGen = 2
  MaxEnds = 1
SPECIFICATION DiscoverySpec
CHECK_DEADLOCK FALSE
INVARIANT UnloadedIsUnmapped
