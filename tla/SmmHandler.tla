----------------------------- MODULE SmmHandler -----------------------------
(***************************************************************************)
(* How the processors share System Management Mode,                        *)
(* src/src/cpu/x86/smm/smm_module_handler.c: an SMI brings every one of    *)
(* them into SMM, each at its own pace.  The first takes the lock and      *)
(* serves; the others wait until they see the lock released, then resume.  *)
(* One that comes so late that the lock is free again serves as well, and  *)
(* finds nothing to do.                                                    *)
(*                                                                         *)
(* What is served is in Smm.tla: "work" is cpu_smi_handler(),              *)
(* northbridge_smi_handler() and southbridge_smi_handler().                *)
(*                                                                         *)
(* A definition whose name starts with Mutant is the one below it with a   *)
(* mistake, for testing the properties.                                    *)
(***************************************************************************)
EXTENDS Integers, FiniteSets

CONSTANT CPU

VARIABLES smi_handler_status,
          do_driver_init,
          cpu,        \* where each processor is
          pending,    \* an SMI that it has not taken
          eos         \* the chipset may signal another one

handlerVars == <<smi_handler_status, do_driver_init, cpu, pending, eos>>

HandlerTypeOK ==
    /\ smi_handler_status \in {"SMI_LOCKED", "SMI_UNLOCKED"}
    /\ do_driver_init \in BOOLEAN
    /\ cpu \in [CPU -> {"out", "in", "spin", "serve", "work", "exit"}]
    /\ pending \in [CPU -> BOOLEAN] /\ eos \in BOOLEAN

(* The state after the handler has been loaded.                            *)
HandlerReset ==
    /\ smi_handler_status' = "SMI_UNLOCKED" /\ do_driver_init' = TRUE
    /\ cpu' = [c \in CPU |-> "out"]
    /\ pending' = [c \in CPU |-> FALSE] /\ eos' = TRUE

HandlerInit ==
    /\ smi_handler_status = "SMI_UNLOCKED" /\ do_driver_init = TRUE
    /\ cpu = [c \in CPU |-> "out"]
    /\ pending = [c \in CPU |-> FALSE] /\ eos = TRUE

Move(c, from, to) == cpu[c] = from /\ cpu' = [cpu EXCEPT ![c] = to]

Smi ==
    /\ eos
    /\ eos' = FALSE /\ pending' = [c \in CPU |-> TRUE]
    /\ UNCHANGED <<smi_handler_status, do_driver_init, cpu>>

Enter(c) ==
    /\ pending[c] /\ Move(c, "out", "in")
    /\ pending' = [pending EXCEPT ![c] = FALSE]
    /\ UNCHANGED <<smi_handler_status, do_driver_init, eos>>

(* smi_obtain_lock() exchanges SMI_LOCKED with what is there.              *)
MutantObtained == TRUE
Obtained == smi_handler_status = "SMI_UNLOCKED"

ObtainLock(c) ==
    /\ Move(c, "in", IF Obtained THEN "serve" ELSE "spin")
    /\ smi_handler_status' = "SMI_LOCKED"
    /\ UNCHANGED <<do_driver_init, pending, eos>>

(* One look at the lock by a processor that waits.                         *)
MutantMayLeave == TRUE
MayLeave == smi_handler_status # "SMI_LOCKED"

LeaveSpin(c) ==
    /\ MayLeave /\ Move(c, "spin", "out")
    /\ UNCHANGED <<smi_handler_status, do_driver_init, pending, eos>>

BeginWork(c) ==
    /\ Move(c, "serve", "work")
    /\ do_driver_init' = FALSE
    /\ UNCHANGED <<smi_handler_status, pending, eos>>

MutantReleased == UNCHANGED smi_handler_status
Released == smi_handler_status' = "SMI_UNLOCKED"

ReleaseLock(c) ==
    /\ Move(c, "work", "exit")
    /\ Released
    /\ UNCHANGED <<do_driver_init, pending, eos>>

(* southbridge_smi_set_eos(), which comes after the release.               *)
SetEos(c) ==
    /\ Move(c, "exit", "out")
    /\ eos' = TRUE
    /\ UNCHANGED <<smi_handler_status, do_driver_init, pending>>

HandlerStep(c) == Enter(c) \/ ObtainLock(c) \/ LeaveSpin(c) \/ SetEos(c)

=============================================================================
