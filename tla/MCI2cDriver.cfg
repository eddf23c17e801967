CONSTANTS
  Bits = 2
  DefaultDivisor = 1
  DeviceAddress <- Address
  Calls <- SomeCalls
SPECIFICATION DriverFairSpec
INVARIANTS
  DriverInv
  Framed
  FreeAfterSuccess
PROPERTIES
  KeepsService
  SdaStable
  CallsReturn
