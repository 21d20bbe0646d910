-------------------------------- MODULE Smm ---------------------------------
(***************************************************************************)
(* System Management Mode at run time: the processors that share it        *)
(* (SmmHandler), and the two services that keep data in flash, the         *)
(* variable store (SmmStore) and the event log (Elog).  The processor that *)
(* has the lock serves one command, or, when nothing is asked of these     *)
(* services, none.  The services use regions of their own and do not know  *)
(* of each other; a behaviour uses one of them.  A reset, or the loss of   *)
(* power in the middle of an access, may come at any time; then the next   *)
(* boot loads the handler again.                                           *)
(***************************************************************************)
EXTENDS SmmHandler, SmmStore, Elog

VARIABLE service

smmVars == <<handlerVars, storeVars, logVars, service>>

TypeOK ==
    /\ HandlerTypeOK /\ StoreTypeOK /\ LogTypeOK
    /\ service \in {"smmstore", "elog"}

Init ==
    /\ HandlerInit /\ StoreInit /\ LogInit
    /\ service \in {"smmstore", "elog"}

Locking(c) == HandlerStep(c) /\ UNCHANGED <<storeVars, logVars, service>>

(* smmstore_exec(), gsmi_exec() and the sleep and power button handlers.   *)
Serve(c) ==
    /\ BeginWork(c)
    /\ \/ service = "smmstore" /\ StoreCommand /\ UNCHANGED logVars
       \/ service = "elog" /\ LogCommand /\ UNCHANGED storeVars
       \/ UNCHANGED <<storeVars, logVars>>
    /\ UNCHANGED service

Work(c) ==
    /\ cpu[c] = "work"
    /\ \/ StoreStep /\ UNCHANGED logVars
       \/ LogStep /\ UNCHANGED storeVars
    /\ UNCHANGED <<handlerVars, service>>

Quiet == op = "none" /\ Idle

Done(c) ==
    /\ Quiet
    /\ ReleaseLock(c)
    /\ UNCHANGED <<storeVars, logVars, service>>

Reset ==
    /\ HandlerReset
    /\ \/ PowerLost /\ UNCHANGED logVars
       \/ LogPowerLost /\ UNCHANGED storeVars
       \/ op = "none" /\ Restart /\ UNCHANGED storeVars
    /\ UNCHANGED service

Processor(c) == Locking(c) \/ Serve(c) \/ Work(c) \/ Done(c)

Next ==
    \/ Smi /\ UNCHANGED <<storeVars, logVars, service>>
    \/ \E c \in CPU : Processor(c)
    \/ Reset

Spec == Init /\ [][Next]_smmVars

(* Every processor runs on, in SMM and, to take an SMI, outside of it.     *)
FairSpec == Spec /\ \A c \in CPU : WF_smmVars(Processor(c))

-----------------------------------------------------------------------------
(* smi_obtain_lock(): one processor serves, and the lock tells that it     *)
(* does; the flash is touched by it only.                                  *)
OneServer ==
    LET serving == {c \in CPU : cpu[c] \in {"serve", "work"}}
    IN /\ Cardinality(serving) <= 1
       /\ smi_handler_status = "SMI_LOCKED" <=> serving # {}
       /\ ~Quiet => \E c \in serving : cpu[c] = "work" /\ ~do_driver_init

(* smm_handler_start(): a processor that found the lock taken goes back to *)
(* the interrupted system only when nobody works in SMM, so never in the   *)
(* middle of a command.                                                    *)
HeldUntilDone ==
    [][\A c \in CPU : cpu[c] = "spin" /\ cpu'[c] = "out"
           => Quiet' /\ \A d \in CPU : cpu'[d] # "work"]_cpu

(* Every processor leaves SMM, unless another SMI has come meanwhile.      *)
EveryoneLeaves ==
    \A c \in CPU : cpu[c] # "out" ~> cpu[c] = "out" \/ pending[c]

=============================================================================
