--------------------------- MODULE MC_Orchestrator ---------------------------
(* Instances of Orchestrator for TLC: one satellite, or the central node   *)
(* with its two callers of process.                                       *)
EXTENDS Orchestrator, TLC

CONSTANTS main, handler, n1, n2, se, sk, s1, s2, s3

MC_Names == {n1, n2}
MC_Versions == {"1", "2"}
MC_Slots == {se, sk, s1, s2, s3}

Img(n, v) == [name |-> n, version |-> v]

(* The unmanaged container runs an image no app uses.                     *)
MC_KeepImage == [name |-> "keep", version |-> "1"]

(* A version change of one app, a second app, and an empty entry.         *)
MC_Desired == {<<>>, <<Img(n1, "1")>>, <<Img(n1, "2"), Img(n2, "1")>>}

(* Two versions of one app side by side.                                  *)
MC_DesiredTwoVersions == {<<Img(n1, "1"), Img(n1, "2")>>}

MC_Fresh == {<<>>}

(* The callers of process run the same code: any permutation of them is  *)
(* a behaviour of the spec, and no property names a caller.               *)
MC_CallerSymmetry == Permutations({main, handler})
=============================================================================
