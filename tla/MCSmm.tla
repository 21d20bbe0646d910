------------------------------- MODULE MCSmm --------------------------------
(* Two processors; a store of three sectors, for entries of up to one      *)
(* word; a log of eleven units for events of one and two.                  *)
EXTENDS Smm

MCValue == {20}
MCEvent == {[type |-> "power", len |-> 1], [type |-> "sleep", len |-> 2]}
MCLogClear == [type |-> "log clear", len |-> 1]

=============================================================================
