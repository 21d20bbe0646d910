------------------------------- MODULE MpInit -------------------------------
(***************************************************************************)
(* The processors of an x86 board, src/src/cpu/x86/mp_init.c: the boot     *)
(* processor starts the others, walks a flight plan with them, gives them  *)
(* work through mailboxes, parks them and may start them again.            *)
(*                                                                         *)
(* This is the concurrency of the tree that is not cooperative: every      *)
(* processor runs at its own pace.  A wait that has a time limit may       *)
(* expire whenever what it waits for has not happened.                     *)
(* Stores become visible in order (x86) and the code fences them, so a     *)
(* step is one access to memory that another processor can tell apart.     *)
(*                                                                         *)
(* Two things live in borrowed memory.  The default SMM area holds first   *)
(* the code the processors start with, then the relocation handler, and is *)
(* given back at the end.  The call that the mailboxes point to lies on    *)
(* the stack of the boot processor and is gone when the function returns.  *)
(* A processor that runs what is no longer there is "lost".                *)
(*                                                                         *)
(* A processor relocates its SMM by an interrupt that it sends to itself.  *)
(* smm_initiate_relocation_parallel() waits a millisecond for the APIC     *)
(* before it sends the interrupt, and another one for its delivery.  When  *)
(* the first wait expires nothing is sent; when the second one does, the   *)
(* interrupt may come at any time later, with the lock released.  One that *)
(* has come stops whatever the processor does until its handler is done.   *)
(*                                                                         *)
(* PARALLEL_MP_AP_WORK is selected, SMM is relocated by the handler, and   *)
(* the plan is the one of mp_steps[].  The start code is part of the image *)
(* and is taken to load.                                                   *)
(*                                                                         *)
(* A definition whose name starts with Mutant is the one below it with a   *)
(* mistake, for testing the properties.                                    *)
(***************************************************************************)
EXTENDS Integers, FiniteSets

CONSTANTS NumAps,        \* global_num_aps
          MaxCpus,       \* CONFIG_MAX_CPUS, the length of ap_callbacks[]
          Frame,         \* places on the stack for a struct mp_callback
          NoFrame,       \* the null pointer in a mailbox
          MaxRestarts,   \* bound on the calls of restart_aps()
          MaxExpired     \* bound on the waits that expire

ASSUME CpuAssumption == /\ NumAps \in Nat \ {0} /\ MaxCpus \in Nat
                        /\ NumAps < MaxCpus
ASSUME FrameAssumption == Frame # {} /\ NoFrame \notin Frame
ASSUME BoundAssumption == MaxRestarts \in Nat /\ MaxExpired \in Nat

AP == 1..NumAps
Boot == 0                       \* the boot processor, where all are numbered
Cpu == {Boot} \cup AP
Slot == 1..MaxCpus - 1          \* ap_callbacks[] without the caller's own
All == 0                        \* MP_RUN_ON_ALL_CPUS

(* mp_steps[] and, behind it, the one record of ap_restart_steps[].        *)
Record == 1..5
FirstRecord == [init |-> 1, restart |-> 5]
LastRecord == [init |-> 4, restart |-> 5]
MutantBlocks(r) == r \notin {1, 2}
Blocks(r) == r # 2
ap_call == <<"none", "relocate", "initialize", "wait", "wait">>
bsp_call == <<"load", "relocate", "initialize", "none", "none">>

Callback == [func: {"work", "park", "garbage"}, target: 0..NumAps]
NoCall == [op |-> "none", frame |-> NoFrame, target |-> All, wait |-> FALSE,
           timed |-> FALSE]

VARIABLES bpc, brec,     \* where the boot processor is, and at which record
          pc, rec,       \* the same of the other processors
          plan, plan_ok, barrier, entered,
          area,          \* what the default SMM area holds
          do_smm,        \* mp_state.do_smm
          locked,        \* smm_relocation_lock
          smi,           \* of each processor: its relocation interrupt
          slot,          \* ap_callbacks[]
          ap_status,
          got, lcb,      \* locals of ap_wait_for_instruction(): cb and lcb
          frame,         \* what was last written to each place on the stack
          call,          \* the call being made, or the last one
          ret,           \* what it returned
          parked,        \* parked_ap_count
          restarts,
          expired,       \* history: how many waits have expired
          clean,         \* history: no mailbox was in use as the call began
          served         \* history: how often each took the current call

relocVars == <<area, do_smm, locked, smi>>
planVars == <<plan, plan_ok, barrier, entered>>
mailVars == <<slot, ap_status, got, lcb>>
callVars == <<frame, call, ret, parked>>
history == <<expired, clean, served>>
vars == <<bpc, brec, pc, rec, planVars, relocVars, mailVars, callVars, restarts,
          history>>

on_time == expired = 0
Expires == expired < MaxExpired /\ expired' = expired + 1

MpTypeOK ==
    /\ bpc \in {"start", "wait", "call", "relocating", "release", "ready",
                "calling", "parking"}
    /\ brec \in Record
    /\ pc \in [AP -> {"off", "sipi", "barrier", "call", "relocating", "poll",
                      "got", "copied", "taken", "parked", "lost"}]
    /\ rec \in [AP -> Record]
    /\ plan \in {"init", "restart"} /\ plan_ok \in BOOLEAN
    /\ barrier \in [Record -> BOOLEAN]
    /\ entered \in [Record -> 0..NumAps * (1 + MaxRestarts)]
    /\ area \in {"sipi", "smm", "returned"} /\ do_smm \in BOOLEAN
    /\ locked \in BOOLEAN
    /\ smi \in [Cpu -> {"none", "pending", "handler", "lost"}]
    /\ slot \in [Slot -> Frame \cup {NoFrame}]
    /\ ap_status \in [AP -> {"unset", "busy", "not busy"}]
    /\ got \in [AP -> Frame \cup {NoFrame}]
    /\ lcb \in [AP -> [cb: Callback, current: BOOLEAN]]
    /\ frame \in [Frame -> Callback]
    /\ call \in [op: {"none", "run", "serial", "park"},
                 frame: Frame \cup {NoFrame}, target: 0..NumAps,
                 wait: BOOLEAN, timed: BOOLEAN]
    /\ ret \in {"none", "success", "error"}
    /\ parked \in 0..NumAps /\ restarts \in 0..MaxRestarts
    /\ expired \in 0..MaxExpired /\ clean \in BOOLEAN
    /\ served \in [AP -> 0..2]

GarbageCall == [func |-> "garbage", target |-> All]
BlankCall == [cb |-> GarbageCall, current |-> FALSE]

(* do_mp_init_with_smm() has loaded the start code and sends the first     *)
(* startup interrupt.                                                      *)
MpStart ==
    /\ bpc = "start" /\ brec = 1
    /\ pc = [a \in AP |-> "off"] /\ rec = [a \in AP |-> 1]
    /\ plan = "init" /\ plan_ok = TRUE
    /\ barrier = [r \in Record |-> ~Blocks(r)]
    /\ entered = [r \in Record |-> 0]
    /\ area = "sipi" /\ do_smm \in BOOLEAN /\ locked = FALSE
    /\ smi = [p \in Cpu |-> "none"]
    /\ slot = [s \in Slot |-> NoFrame]
    /\ ap_status = [a \in AP |-> "unset"]
    /\ got = [a \in AP |-> NoFrame] /\ lcb = [a \in AP |-> BlankCall]
    /\ frame = [f \in Frame |-> GarbageCall]
    /\ call = NoCall /\ ret = "none" /\ parked = 0 /\ restarts = 0
    /\ expired = 0 /\ clean = TRUE /\ served = [a \in AP |-> 0]

-----------------------------------------------------------------------------
(* The boot processor brings up the others.                                *)

(* start_aps() has seen every processor check in.                          *)
Started ==
    /\ bpc = "start"
    /\ \A a \in AP : pc[a] # "off"
    /\ bpc' = "wait" /\ brec' = FirstRecord[plan]
    /\ plan_ok' = TRUE /\ parked' = 0
    /\ UNCHANGED <<pc, rec, plan, barrier, entered, relocVars, mailVars, frame,
                   call, ret, restarts, history>>

(* mp_init() and do_mp_init_with_smm() return; restart_aps() restores      *)
(* nothing.                                                                *)
Return(result) ==
    /\ bpc' = "ready" /\ ret' = result
    /\ area' = IF plan = "init" THEN "returned" ELSE area

(* A startup interrupt could not be sent, or was not seen to arrive, or    *)
(* somebody has not checked in: start_aps(), send_sipi_to_aps().           *)
StartExpired ==
    /\ bpc = "start"
    /\ Return("error")
    /\ call' = NoCall
    /\ Expires
    /\ UNCHANGED <<brec, pc, rec, planVars, do_smm, locked, smi, mailVars, frame,
                   parked, restarts, clean, served>>

(* bsp_do_flight_plan(): wait for the processors unless the record does    *)
(* not block or was released before; when the wait expires, go on.         *)
MutantArrived == barrier[brec] \/ entered[brec] + 1 >= NumAps
Arrived == barrier[brec] \/ entered[brec] = NumAps

RecordReached ==
    /\ bpc = "wait"
    /\ Arrived
    /\ bpc' = "call"
    /\ UNCHANGED <<brec, pc, rec, planVars, relocVars, mailVars, callVars,
                   restarts, history>>

RecordExpired ==
    /\ bpc = "wait"
    /\ ~Arrived
    /\ bpc' = "call"
    /\ Expires /\ plan_ok' = FALSE
    /\ UNCHANGED <<brec, pc, rec, plan, barrier, entered, relocVars, mailVars,
                   callVars, restarts, clean, served>>

(* load_smm_handlers(): installing may fail before or after the relocation *)
(* handler has been written, and then SMM is given up.                     *)
LoadSmmHandlers ==
    /\ bpc = "call" /\ bsp_call[brec] = "load"
    /\ \/ do_smm /\ area' = "smm" /\ do_smm' \in BOOLEAN
       \/ do_smm /\ area' = area /\ do_smm' = FALSE
       \/ ~do_smm /\ UNCHANGED <<area, do_smm>>
    /\ bpc' = "release"
    /\ UNCHANGED <<brec, pc, rec, planVars, locked, smi, mailVars, callVars,
                   restarts, history>>

(* smm_initiate_relocation() takes the spin lock, and                      *)
(* smm_initiate_relocation_parallel() raises the interrupt, unless the     *)
(* APIC stays busy.                                                        *)
MutantLockFree == TRUE
LockFree == ~locked

SendsSmi(p) ==
    \/ smi' = [smi EXCEPT ![p] = "pending"] /\ UNCHANGED expired
    \/ Expires /\ UNCHANGED smi

(* It goes on when the interrupt is delivered, and then it has been        *)
(* handled, or after a millisecond.                                        *)
EndsWait(p) ==
    \/ smi[p] = "none" /\ UNCHANGED expired
    \/ smi[p] = "pending" /\ Expires

BspRelocates ==
    /\ bpc = "call" /\ bsp_call[brec] = "relocate" /\ do_smm
    /\ LockFree
    /\ locked' = TRUE
    /\ bpc' = "relocating"
    /\ SendsSmi(Boot)
    /\ UNCHANGED <<brec, pc, rec, planVars, area, do_smm, mailVars, callVars,
                   restarts, clean, served>>

BspRelocated ==
    /\ bpc = "relocating" /\ EndsWait(Boot)
    /\ locked' = FALSE
    /\ bpc' = "release"
    /\ UNCHANGED <<brec, pc, rec, planVars, area, do_smm, smi, mailVars,
                   callVars, restarts, clean, served>>

(* cpu_initialize(), or nothing to call.                                   *)
BspCall ==
    /\ bpc = "call"
    /\ \/ bsp_call[brec] \in {"initialize", "none"}
       \/ bsp_call[brec] = "relocate" /\ ~do_smm
    /\ bpc' = "release"
    /\ UNCHANGED <<brec, pc, rec, planVars, relocVars, mailVars, callVars,
                   restarts, history>>

(* release_barrier(), then the next record or the end of the plan.         *)
ReleaseBarrier ==
    /\ bpc = "release"
    /\ barrier' = [barrier EXCEPT ![brec] = TRUE]
    /\ IF brec < LastRecord[plan]
       THEN /\ bpc' = "wait" /\ brec' = brec + 1
            /\ UNCHANGED <<area, ret, call>>
       ELSE /\ Return(IF plan_ok THEN "success" ELSE "error")
            /\ call' = NoCall /\ brec' = brec
    /\ UNCHANGED <<pc, rec, plan, plan_ok, entered, do_smm, locked, smi,
                   mailVars, frame, parked, restarts, history>>

-----------------------------------------------------------------------------
(* An application processor runs the start code, the flight plan and then  *)
(* ap_wait_for_instruction().                                              *)

smiUnchanged == <<bpc, brec, plan, plan_ok, barrier, do_smm, frame, call, ret,
                  restarts, clean>>
apUnchanged == <<smiUnchanged, smi, expired>>

(* What it was to run is not there any more.                               *)
Lost(a) ==
    /\ pc' = [pc EXCEPT ![a] = "lost"]
    /\ lcb' = [lcb EXCEPT ![a] = BlankCall]
    /\ UNCHANGED <<apUnchanged, rec, entered, area, locked, slot, ap_status,
                   got, parked, served>>

(* A startup interrupt reaches it, perhaps after start_aps() has given up; *)
(* indices are handed out in the order of checking in.                     *)
CheckIn(a) ==
    /\ pc[a] = "off" /\ \A b \in AP : b < a => pc[b] # "off"
    /\ \/ area = "sipi"
          /\ pc' = [pc EXCEPT ![a] = "sipi"]
          /\ UNCHANGED <<apUnchanged, rec, entered, area, locked, mailVars,
                         parked, served>>
       \/ area # "sipi" /\ Lost(a)

(* ap_do_flight_plan(): it has entered a record, then waits there.         *)
EnterRecord(a, r) ==
    /\ rec' = [rec EXCEPT ![a] = r]
    /\ entered' = [entered EXCEPT ![r] = @ + 1]
    /\ pc' = [pc EXCEPT ![a] = "barrier"]

(* The start code reads the rest of its data and calls ap_init().          *)
ApInit(a) ==
    /\ pc[a] = "sipi"
    /\ \/ area = "sipi"
          /\ EnterRecord(a, FirstRecord[plan])
          /\ UNCHANGED <<apUnchanged, area, locked, mailVars, parked, served>>
       \/ area # "sipi" /\ Lost(a)

PassBarrier(a) ==
    /\ pc[a] = "barrier"
    /\ barrier[rec[a]]
    /\ pc' = [pc EXCEPT ![a] = "call"]
    /\ UNCHANGED <<apUnchanged, rec, entered, area, locked, mailVars, parked,
                   served>>

ApCall(a) ==
    /\ pc[a] = "call"
    /\ \/ ap_call[rec[a]] \in {"none", "initialize"}
       \/ ap_call[rec[a]] = "relocate" /\ ~do_smm
    /\ EnterRecord(a, rec[a] + 1)
    /\ UNCHANGED <<apUnchanged, area, locked, mailVars, parked, served>>

ApRelocates(a) ==
    /\ pc[a] = "call" /\ ap_call[rec[a]] = "relocate" /\ do_smm
    /\ LockFree
    /\ locked' = TRUE
    /\ pc' = [pc EXCEPT ![a] = "relocating"]
    /\ SendsSmi(a)
    /\ UNCHANGED <<smiUnchanged, rec, entered, area, mailVars, parked, served>>

ApRelocated(a) ==
    /\ pc[a] = "relocating" /\ EndsWait(a)
    /\ locked' = FALSE
    /\ EnterRecord(a, rec[a] + 1)
    /\ UNCHANGED <<smiUnchanged, smi, area, mailVars, parked, served>>

(* ap_wait_for_instruction(): ready to take work.                          *)
WaitForInstruction(a) ==
    /\ pc[a] = "call" /\ ap_call[rec[a]] = "wait"
    /\ pc' = [pc EXCEPT ![a] = "poll"]
    /\ ap_status' = [ap_status EXCEPT ![a] = "not busy"]
    /\ UNCHANGED <<apUnchanged, rec, entered, area, locked, slot, got, lcb,
                   parked, served>>

ReadCallback(a) ==
    /\ pc[a] = "poll"
    /\ slot[a] # NoFrame
    /\ pc' = [pc EXCEPT ![a] = "got"]
    /\ got' = [got EXCEPT ![a] = slot[a]]
    /\ UNCHANGED <<apUnchanged, rec, entered, area, locked, slot, ap_status,
                   lcb, parked, served>>

(* AP_BUSY, then the copy.  Once run_ap_work() has returned, its caller's  *)
(* frame holds what was there or what later calls have put there.          *)
Live(f) == bpc = "calling" /\ f = call.frame
InFrame(f) == IF Live(f) THEN {frame[f]} ELSE {frame[f], GarbageCall}
AimedAt(a, cb) == cb.target \in {All, a}

CopyCallback(a) ==
    /\ pc[a] = "got"
    /\ ap_status' = [ap_status EXCEPT ![a] = "busy"]
    /\ \E cb \in InFrame(got[a]) :
           lcb' = [lcb EXCEPT ![a] = [cb |-> cb, current |-> Live(got[a])]]
    /\ pc' = [pc EXCEPT ![a] = "copied"]
    /\ got' = [got EXCEPT ![a] = NoFrame]
    /\ UNCHANGED <<apUnchanged, rec, entered, area, locked, slot, parked,
                   served>>

(* It signals that it has taken the call, and begins it if it is for it.   *)
Clears(a) == slot' = [slot EXCEPT ![a] = NoFrame]

ClearSlot(a) ==
    /\ pc[a] = "copied"
    /\ Clears(a)
    /\ pc' = [pc EXCEPT ![a] = "taken"]
    /\ IF lcb[a].current /\ AimedAt(a, lcb[a].cb)
       THEN served' = [served EXCEPT ![a] = @ + 1]
       ELSE UNCHANGED served
    /\ UNCHANGED <<apUnchanged, rec, entered, area, locked, ap_status, got,
                   lcb, parked>>

Runs(a, func) == AimedAt(a, lcb[a].cb) /\ lcb[a].cb.func = func

Finish(a) ==
    /\ pc[a] = "taken" /\ ~Runs(a, "park") /\ ~Runs(a, "garbage")
    /\ ap_status' = [ap_status EXCEPT ![a] = "not busy"]
    /\ lcb' = [lcb EXCEPT ![a] = BlankCall]
    /\ pc' = [pc EXCEPT ![a] = "poll"]
    /\ UNCHANGED <<apUnchanged, rec, entered, area, locked, slot, got, parked,
                   served>>

(* stop_this_cpu()                                                         *)
Park(a) ==
    /\ pc[a] = "taken" /\ Runs(a, "park")
    /\ parked' = parked + 1
    /\ lcb' = [lcb EXCEPT ![a] = BlankCall]
    /\ pc' = [pc EXCEPT ![a] = "parked"]
    /\ UNCHANGED <<apUnchanged, rec, entered, area, locked, slot, ap_status,
                   got, served>>

RunsGarbage(a) == pc[a] = "taken" /\ Runs(a, "garbage") /\ Lost(a)

ApWorks(a) ==
    \/ CheckIn(a) \/ ApInit(a) \/ PassBarrier(a) \/ ApCall(a)
    \/ ApRelocates(a) \/ ApRelocated(a) \/ WaitForInstruction(a)
    \/ ReadCallback(a) \/ CopyCallback(a) \/ ClearSlot(a) \/ Finish(a)
    \/ Park(a) \/ RunsGarbage(a)

-----------------------------------------------------------------------------
(* In SMM.  The interrupt reaches a processor that waits for it, or later, *)
(* wherever the processor then is, but not before it has been started      *)
(* again; then the relocation handler runs, smm_do_relocation(), if it is  *)
(* still in the default SMM area, and up to its end.                       *)
InSmm(p) == smi[p] \in {"handler", "lost"}

RelocationSmi(p) ==
    /\ \/ /\ smi[p] = "pending" /\ (p \in AP => pc[p] # "off")
          /\ smi' = [smi EXCEPT ![p] = IF area = "smm" THEN "handler" ELSE "lost"]
       \/ /\ smi[p] = "handler"
          /\ smi' = [smi EXCEPT ![p] = IF area = "smm" THEN "none" ELSE "lost"]
    /\ UNCHANGED <<smiUnchanged, pc, rec, entered, area, locked, mailVars, parked,
                   served, expired>>

Ap(a) == RelocationSmi(a) \/ (~InSmm(a) /\ ApWorks(a))

-----------------------------------------------------------------------------
(* The boot processor gives work.                                          *)

postUnchanged == <<brec, pc, rec, planVars, relocVars, ap_status, got, restarts,
                   expired>>

(* run_ap_work() stores the pointer in every mailbox but its own; stores   *)
(* to different mailboxes commute.                                         *)
Post(c, func) ==
    /\ bpc' = "calling" /\ call' = c
    /\ frame' = [frame EXCEPT ![c.frame] = [func |-> func, target |-> c.target]]
    /\ slot' = [s \in Slot |-> c.frame]
    /\ lcb' = [a \in AP |-> [lcb[a] EXCEPT !.current = FALSE]]

(* A call of the interface begins.  Parked processors get no work.         *)
BeginCall ==
    /\ bpc = "ready" /\ call.op # "park"
    /\ served' = [a \in AP |-> 0]
    /\ clean' = \A a \in AP : slot[a] = NoFrame /\ pc[a] \notin {"got", "copied"}

(* mp_run_on_aps(), mp_run_on_all_cpus() and, with wait, which is for all  *)
(* and within a time, mp_run_on_all_cpus_synchronously().                  *)
RunOnAps(f, t, w, timed) ==
    /\ BeginCall
    /\ w => t = All /\ timed
    /\ Post([op |-> "run", frame |-> f, target |-> t, wait |-> w,
             timed |-> timed], "work")
    /\ UNCHANGED <<postUnchanged, ret, parked>>

(* mp_run_on_all_aps() without run_parallel: one call for each in turn.    *)
RunOnAllAps(f, timed) ==
    /\ BeginCall
    /\ Post([op |-> "serial", frame |-> f, target |-> 1, wait |-> FALSE,
             timed |-> timed], "work")
    /\ UNCHANGED <<postUnchanged, ret, parked>>

ParkAps(f) ==
    /\ BeginCall
    /\ parked' = 0
    /\ Post([op |-> "park", frame |-> f, target |-> All, wait |-> FALSE,
             timed |-> TRUE], "park")
    /\ UNCHANGED <<postUnchanged, ret>>

(* The loop of run_ap_work(): as many empty mailboxes as there are         *)
(* processors and, with wait, as many processors that are done.  During a  *)
(* call a mailbox is only emptied and its owner then only gets done, so    *)
(* looking at one after the other sees what one look sees.                 *)
Accepted == {s \in Slot : slot[s] = NoFrame}
MutantFinished == Accepted \cap AP
Finished == {s \in Accepted \cap AP : ap_status[s] = "not busy"}
MutantWorkDone == call.wait => Cardinality(Finished) = NumAps
MutantEverySlot == Accepted = Slot
WorkDone ==
    /\ Cardinality(Accepted) = NumAps
    /\ call.wait => Cardinality(Finished) = NumAps

callUnchanged == <<brec, pc, rec, planVars, relocVars, ap_status, got, parked,
                   restarts, clean, served>>

CallNext ==
    /\ bpc = "calling" /\ WorkDone
    /\ call.op = "serial" /\ call.target < NumAps
    /\ Post([call EXCEPT !.target = @ + 1], "work")
    /\ UNCHANGED <<callUnchanged, ret, expired>>

CallReturns ==
    /\ bpc = "calling" /\ WorkDone
    /\ ~(call.op = "serial" /\ call.target < NumAps)
    /\ bpc' = IF call.op = "park" THEN "parking" ELSE "ready"
    /\ ret' = "success"
    /\ UNCHANGED <<callUnchanged, slot, lcb, frame, call, expired>>

CallExpired ==
    /\ bpc = "calling" /\ ~WorkDone /\ call.timed
    /\ bpc' = IF call.op = "park" THEN "parking" ELSE "ready"
    /\ ret' = "error" /\ Expires
    /\ UNCHANGED <<callUnchanged, slot, lcb, frame, call>>

(* The rest of mp_park_aps().                                              *)
ParkDone ==
    /\ bpc = "parking" /\ parked >= NumAps
    /\ bpc' = "ready"
    /\ UNCHANGED <<callUnchanged, slot, lcb, frame, call, ret, expired>>

ParkExpired ==
    /\ bpc = "parking" /\ parked < NumAps
    /\ bpc' = "ready" /\ ret' = "error" /\ Expires
    /\ UNCHANGED <<callUnchanged, slot, lcb, frame, call>>

(* restart_aps(), after mp_park_aps() whatever that returned: the start    *)
(* code is loaded again and INIT stops every processor wherever it is, but *)
(* for one in SMM, which it stops there.  The INIT is taken to be sent.    *)
RestartAps ==
    /\ bpc = "ready" /\ call.op = "park" /\ restarts < MaxRestarts
    /\ restarts' = restarts + 1
    /\ plan' = "restart" /\ area' = "sipi"
    /\ pc' = [a \in AP |-> "off"]
    /\ got' = [a \in AP |-> NoFrame] /\ lcb' = [a \in AP |-> BlankCall]
    /\ bpc' = "start"
    /\ UNCHANGED <<brec, rec, plan_ok, barrier, entered, do_smm, locked, smi,
                   slot, ap_status, callVars, history>>

BspWorks ==
    \/ Started \/ StartExpired \/ RecordReached \/ RecordExpired
    \/ LoadSmmHandlers \/ BspRelocates \/ BspRelocated \/ BspCall
    \/ ReleaseBarrier
    \/ CallNext \/ CallReturns \/ CallExpired \/ ParkDone \/ ParkExpired

Bsp == RelocationSmi(Boot) \/ (~InSmm(Boot) /\ BspWorks)

(* Whether the rest of the boot makes another call is its choice.          *)
Caller ==
    /\ ~InSmm(Boot)
    /\ \/ \E f \in Frame, t \in 0..NumAps, w, timed \in BOOLEAN :
              RunOnAps(f, t, w, timed)
       \/ \E f \in Frame, timed \in BOOLEAN : RunOnAllAps(f, timed)
       \/ \E f \in Frame : ParkAps(f)
       \/ RestartAps

MpNext == Bsp \/ Caller \/ \E a \in AP : Ap(a)

MpSpec == MpStart /\ [][MpNext]_vars

(* Every processor runs on; a spin lock is taken once by each.             *)
MpFairSpec == MpSpec /\ WF_vars(Bsp) /\ \A a \in AP : WF_vars(Ap(a))

-----------------------------------------------------------------------------
(* bsp_do_flight_plan(): as long as no wait expires, whatever the boot     *)
(* processor does in a blocking record it does while every other one       *)
(* stands at the barrier of this record: the SMM handlers are written over *)
(* the start code when nobody runs it any more.                            *)
BspWorksAlone ==
    on_time /\ plan = "init" /\ brec # 2 /\ bpc = "call"
        => \A a \in AP : pc[a] = "barrier" /\ rec[a] = brec

(* As long as no wait expires no processor runs code, in the default SMM   *)
(* area, or a call, on the boot processor's stack, that has been given     *)
(* back or written over, and no interrupt finds the relocation handler     *)
(* gone.                                                                   *)
NobodyLost == on_time => /\ \A a \in AP : pc[a] # "lost"
                         /\ \A p \in Cpu : smi[p] # "lost"

(* smm_initiate_relocation(): processors share the one save state of the   *)
(* default SMM area and relocate one at a time, with the handler in place, *)
(* as long as no wait expires.  Whatever expires, two processors are in    *)
(* the handler at once only if one of them had stopped waiting for its     *)
(* interrupt; the lock keeps out all others.                               *)
Relocates(p) == IF p = Boot THEN bpc = "relocating" ELSE pc[p] = "relocating"
RelocateAlone ==
    LET inside == {p \in Cpu : smi[p] = "handler"}
    IN /\ \A p, q \in inside : p = q \/ ~Relocates(p) \/ ~Relocates(q)
       /\ \A p \in inside : Relocates(p) => locked
       /\ on_time => /\ \A p, q \in inside : p = q
                     /\ inside # {} => area = "smm"

(* run_ap_work(): a call is begun at most once by a processor, and only by *)
(* one that it is for.  A call that returns success has been begun by all  *)
(* of these, if no earlier call had been abandoned; without that           *)
(* condition a late processor may clear the mailbox of a call it has never *)
(* read.                                                                   *)
Addressed == IF call.op = "serial" THEN AP
             ELSE {a \in AP : AimedAt(a, [target |-> call.target])}
Delivered ==
    /\ \A a \in AP : served[a] <= IF a \in Addressed THEN 1 ELSE 0
    /\ bpc = "ready" /\ call.op # "none" /\ ret = "success" /\ clean
           => \A a \in Addressed : served[a] = 1

(* mp_run_on_all_cpus_synchronously(), mp_park_aps(): success means that   *)
(* every processor is back in its loop, or stopped; for the first even if  *)
(* an earlier call had been abandoned.  A late interrupt may then still    *)
(* take one of them out of it for a while.                                 *)
SuccessMeansDone ==
    bpc = "ready" /\ ret = "success"
        => /\ call.wait => \A a \in AP : pc[a] = "poll"
           /\ call.op = "park" => \A a \in AP : pc[a] = "parked"

(* Unless a wait expires, whatever the boot processor began, the start,    *)
(* the plan, a call or the parking, comes to an end, also a call that has  *)
(* no time limit.                                                          *)
Returns == bpc # "ready" ~> bpc = "ready" \/ ~on_time

=============================================================================
