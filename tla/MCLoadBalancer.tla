--------------------------- MODULE MCLoadBalancer ---------------------------
(***************************************************************************)
(* Instances of LoadBalancer for TLC.                                      *)
(***************************************************************************)
EXTENDS LoadBalancer

CONSTANTS s1, s2, s3

\* One weight that is left out, one of two and one of one.
MixedWeights == s1 :> 0 @@ s2 :> 2 @@ s3 :> 1
=============================================================================
