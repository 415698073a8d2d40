------------------------ MODULE MCLocalCachedLimiter ------------------------
(* Model-checking instances of LocalCachedLimiter. *)
EXTENDS LocalCachedLimiter, TLC

CONSTANTS l1, l2, c1, c2, c3

\* Three callers behind one limiter; or two behind the first, one behind the
\* second.
OneLimiter == [c \in {c1, c2, c3} |-> l1]
TwoLimiters == (c1 :> l1) @@ (c2 :> l1) @@ (c3 :> l2)

SymmetryOne == Permutations({c1, c2, c3})
=============================================================================
