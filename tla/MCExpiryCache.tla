--------------------------- MODULE MCExpiryCache ---------------------------
(* Four keys for two places and a window of two instants out of six: keys   *)
(* expire, are evicted, tie on one instant and come back.                   *)
EXTENDS ExpiryCache, TLC

MCSymmetry == Permutations(Key)
=============================================================================
