CONSTANTS
  Letters <- MC_Letters
  HubDomain <- MC_Hub
  OfficialPrefix <- MC_Official
  Localhost <- MC_Localhost
  LatestTag <- MC_Latest
  DefaultDomain <- MC_Default
  MaxLen = 5

SPECIFICATION Spec

INVARIANT DesiredNormalised

\* Nothing follows the normalisation of the received string.
CHECK_DEADLOCK FALSE
