---------------------------- MODULE MC_Discovery ----------------------------
EXTENDS Discovery

CONSTANTS s1, s2, c0, garbage

MC_Sats == {s1, s2}

=============================================================================
