-------------------------- MODULE MC_ControlPlane --------------------------
(* Model-checking instance of ControlPlane: three satellites, so that two  *)
(* can race their registrations while a third serves a shared bundle.     *)
EXTENDS ControlPlane

CONSTANTS c1, c2, c3, b1, b2

MC_Clients == {c1, c2, c3}
MC_Bundles == {b1, b2}
MC_Ports == {8080, 8081}
MC_IngressPort == 8000

\* Smaller instance for the liveness and counterexample runs.
MC_Clients2 == {c1, c2}
MC_Bundles1 == {b1}
MC_Ports1 == {8080}

\* Satellites are interchangeable: only their arrival order matters.
MC_Symmetry == Permutations(MC_Clients)
=============================================================================
