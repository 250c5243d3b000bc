CONSTANTS
  c1 = c1
  c2 = c2
  c3 = c3
  b1 = b1
  b2 = b2
  Clients <- MC_Clients
  Bundles <- MC_Bundles
  Ports <- MC_Ports
  IngressPort <- MC_IngressPort
  MaxAnnouncements = 2
  IntendedGuard = TRUE

SPECIFICATION Spec
CHECK_DEADLOCK FALSE

INVARIANTS
  TypeOK
  QuiescentCacheCurrent
  RoutesResolve

