SPECIFICATION FairSpec
CONSTANTS
  MaxRetries = 3
  MaxBackoff = 2
  MaxMishaps = 4
INVARIANTS LossIsNoticed
PROPERTIES ConnectionComesBack PairingGoesThrough
CHECK_DEADLOCK FALSE
