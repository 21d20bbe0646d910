---------------------------- MODULE MCRegionFile ----------------------------
(* RegionFile on small regions, with small, large and too large values.    *)
EXTENDS RegionFile, TLC

CONSTANTS v1, v2, v3, v4

AnySize == v1 :> 1 @@ v2 :> 3 @@ v3 :> 7 @@ v4 :> 8
=============================================================================
