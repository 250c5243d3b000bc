CONSTANTS
  c1 = c1
  c2 = c2
  c3 = c3
  b1 = b1
  b2 = b2
  Clients <- MC_Clients2
  Bundles <- MC_Bundles1
  Ports <- MC_Ports1
  IngressPort <- MC_IngressPort
  MaxAnnouncements = 1
  IntendedGuard = TRUE

SPECIFICATION Spec
CHECK_DEADLOCK FALSE

PROPERTIES
  RegisterReturns
