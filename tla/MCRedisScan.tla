---------------------------- MODULE MCRedisScan ----------------------------
(***************************************************************************)
(* TLC's values: three buckets, one with two keys; one key does not match. *)
(***************************************************************************)
EXTENDS RedisScan, TLC

CONSTANTS k1, k2, k3, k4

MCKeys == {k1, k2, k3, k4}
MCMatching == {k1, k2, k3}
MCBucket == k1 :> 0 @@ k2 :> 2 @@ k3 :> 2 @@ k4 :> 0
=============================================================================
