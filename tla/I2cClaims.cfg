CONSTANTS
  Bits = 2
  DefaultDivisor = 1
  DeviceAddress <- Address
  Calls <- SomeCalls
SPECIFICATION DriverFairSpec
PROPERTIES
  FreeAfterCall
