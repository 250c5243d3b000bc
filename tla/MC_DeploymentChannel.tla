------------------------ MODULE MC_DeploymentChannel ------------------------
(* Instances of DeploymentChannel for TLC.                                 *)
EXTENDS DeploymentChannel

CONSTANTS c0, s1, s2

MC_Sats1 == {s1}
MC_Sats2 == {s1, s2}
=============================================================================
