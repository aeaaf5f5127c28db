---------------------------- MODULE MCRateLimiter ----------------------------
(***************************************************************************)
(* Small instances of RateLimiter for TLC.                                 *)
(***************************************************************************)
EXTENDS RateLimiter, TLC

CONSTANTS i1, i2,      \* server processes
          k1, k2, k3,  \* keys
          q1, q2       \* requests in the middleware

\* Instances, keys and requests are only compared for equality.
RLSymmetry == Permutations(Key) \cup Permutations(Request) \cup Permutations(Instance)
=============================================================================
