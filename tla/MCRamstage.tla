----------------------------- MODULE MCRamstage -----------------------------
(***************************************************************************)
(* Ramstage on a small instance: two boot states in a row.                 *)
(***************************************************************************)
EXTENDS Ramstage

Straight == [s \in 0..1 |-> {1}]
StraightEnds == {1}
=============================================================================
