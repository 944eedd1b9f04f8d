CONSTANTS
  ma = ma
  mb = mb
  mc = mc
  da = da
  db = db
  None = None
  Modules = {ma, mb, mc}
  Devices = {da, db}
  DeviceOf <- MCDeviceOf
  Calls <- MCCalls
  Startup <- MCStartup
  AsyncAuth = TRUE
  MayStayDown = TRUE
  Askers = {ma}
  MaxGen = 2
  MaxEnds = 1
SPECIFICATION LiveSpec
CONSTRAINT EndsOrClaims
CHECK_DEADLOCK FALSE
INVARIANT InStep
PROPERTY DiscoveryEnds
