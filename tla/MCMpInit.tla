------------------------------ MODULE MCMpInit ------------------------------
(* Two application processors and a mailbox that nobody owns.              *)
EXTENDS MpInit

CONSTANTS f1, f2

=============================================================================
