CONSTANTS
  s1 = s1
  s2 = s2
  c0 = c0
  garbage = garbage
  Sats <- MC_Sats
  Central <- c0
  Garbage <- garbage
  GRPCPort = 50051
  MaxLosses = 1
  MaxForeign = 2
  BindFaults = FALSE

SPECIFICATION Spec
CHECK_DEADLOCK FALSE

PROPERTIES
  SatelliteLearnsCentral
