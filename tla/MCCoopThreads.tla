--------------------------- MODULE MCCoopThreads ---------------------------
(***************************************************************************)
(* CoopThreads with two threads besides the main one, a handle and a       *)
(* mutex.                                                                  *)
(***************************************************************************)
EXTENDS CoopThreads
=============================================================================
