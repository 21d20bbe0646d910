----------------------------- MODULE MCMrcCache -----------------------------
(* MrcCache with two versions of the memory initialisation code, one of    *)
(* which may train to different data.                                      *)
EXTENDS MrcCache, TLC

CONSTANTS a1, a2, b1, A, B

DataSize == a1 :> 2 @@ a2 :> 2 @@ b1 :> 3 @@ InvalidSig :> 1
DataVersion == a1 :> A @@ a2 :> A @@ b1 :> B
=============================================================================
