---------------------------- MODULE MC_ImageName ----------------------------
(***************************************************************************)
(* Short literals of the same shape as the code's: the Docker Hub domain   *)
(* "docker.io" becomes "a.a" (a dotted domain), "library/" becomes "l/",   *)
(* "localhost" and "latest" become "l", and the configured default domain  *)
(* "customcr.io" (the one of the package's tests) becomes "l.a".  A name   *)
(* of the Hub then panics in ParseFQIN below 4 characters, as a real one   *)
(* does below len("docker.io/") = 10.                                      *)
(***************************************************************************)
EXTENDS ImageName

MC_Letters == {"a", "l"}
MC_Hub == <<"a", ".", "a">>
MC_Official == <<"l", "/">>
MC_Localhost == <<"l">>
MC_Latest == <<"l">>
MC_Default == <<"l", ".", "a">>

=============================================================================
