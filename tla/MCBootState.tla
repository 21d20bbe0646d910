---------------------------- MODULE MCBootState ----------------------------
(***************************************************************************)
(* BootState on small instances.  The short table keeps one state before   *)
(* the resume check, the check with its branch, and the states that end    *)
(* the boot; the chains it leaves out are states of one kind in a row.     *)
(***************************************************************************)
EXTENDS BootState, BootTable, TLC

Full == boot_states
FullEnds == boot_ends

(* The table of the code leads forward, which is what BootState assumes of *)
(* the table it is given.                                                  *)
ASSUME CodeLeadsForward ==
    \A s \in DOMAIN Full : \A n \in Full[s] : n > s \/ (n = s /\ s \in FullEnds)

ShortTable == <<{2, 3}>> @@ 0 :> {1} @@ 2 :> {} @@ 3 :> {3}
ShortEnds == {2, 3}

AgentSymmetry == Permutations(Agent) \cup Permutations(Callback)
=============================================================================
