------------------------------- MODULE VcpuRun -------------------------------
(***************************************************************************)
(* The control flow of the hypervisor on its one core: el2_main's launch   *)
(* sequence, the vcpu_run loop, the two places that call world_switch, the *)
(* EL2 vector and the exception dispatch of core/trap.c.                   *)
(*                                                                         *)
(* world_switch does not return in the usual way.  vcpu_switch_asm stores  *)
(* the EL2 stack pointer and return address in host_saved_area and erets   *)
(* into the guest; the next trap restores them and "returns" to whichever  *)
(* frame called world_switch last.  host_saved_area is modelled by that    *)
(* frame: vcpu_run's own call, or the call inside vcpu_scheduler_yield.    *)
(*                                                                         *)
(* The registers that a switch moves are added by TrapFrame and WorldSwitch*)
(* and the timers by their own module: each conjoins its variables to the  *)
(* actions defined here.                                                   *)
(***************************************************************************)
EXTENDS Sched, SysregTrap

CONSTANT VCPU_COUNT   \* size of vcpu_pool (2 in the source)

(* The vCPU &vcpu_pool[v] is modelled by its index v, which is its vcpu_id. *)
ASSUME PoolAssumption ==
  /\ VCPU_COUNT \in 1 .. VCPU_SCHED_MAX
  /\ Vcpus = 0 .. VCPU_COUNT - 1

VARIABLES
  pc,                 \* where the core is, see PCs
  boot,               \* vcpu_pool index of the next registration
  request_yield,      \* vcpu->request_yield
  current_trapframe,  \* the vCPU whose trapframe captures the next trap, or NULL
  host_saved_area,    \* the EL2 frame that the next trap returns to
  run_current         \* vcpu_run's local variable `current`

runVars == <<pc, boot, request_yield, current_trapframe, host_saved_area, run_current>>
ctlVars == <<schedVars, runVars>>

PCs == { "register",     \* el2_main, registering the vCPUs
         "set_current",  \* el2_main, before vcpu_scheduler_set_current
         "vcpu_run",     \* on entry to vcpu_run
         "loop",         \* head of vcpu_run's while loop
         "guest",        \* the guest of current_trapframe executes at EL1
         "returned",     \* world_switch returned into host_saved_area's frame
         "halt" }        \* a wfi loop that nothing leaves

Frames == {"none", "vcpu_run", "yield"}

(* After bss_clear, the MMU set-up and vcpu_init_slot for every vCPU. *)
RunInit ==
  /\ SchedInit
  /\ pc = "register"
  /\ boot = 0
  /\ request_yield = [v \in Vcpus |-> FALSE]
  /\ current_trapframe = NULL
  /\ host_saved_area = "none"
  /\ run_current = NULL

-----------------------------------------------------------------------------
(* el2_main: register the vCPUs in pool order, *)
BootRegister ==
  /\ pc = "register"
  /\ vcpu_scheduler_register(boot)
  /\ boot' = boot + 1
  /\ pc' = IF boot + 1 = VCPU_COUNT THEN "set_current" ELSE "register"
  /\ UNCHANGED <<request_yield, current_trapframe, host_saved_area, run_current>>

(* make the first one current, *)
BootSetCurrent ==
  /\ pc = "set_current"
  /\ vcpu_scheduler_set_current(0)
  /\ pc' = "vcpu_run"
  /\ UNCHANGED <<boot, request_yield, current_trapframe, host_saved_area, run_current>>

(* and call vcpu_run(&vcpu_pool[0]), which makes it current once more. *)
VcpuRunStart ==
  /\ pc = "vcpu_run"
  /\ vcpu_scheduler_set_current(0)
  /\ pc' = "loop"
  /\ UNCHANGED <<boot, request_yield, current_trapframe, host_saved_area, run_current>>

-----------------------------------------------------------------------------
(* The control effect of world_switch(_, to) called from the given frame:  *)
(* arm the latch, store the frame, enter the guest.                        *)
world_switch(to, frame) ==
  /\ current_trapframe' = to
  /\ host_saved_area' = frame
  /\ pc' = "guest"

(* Fault: `current` is read once, before the loop. *)
LoopEnterStaleLocal ==
  /\ pc = "loop"
  /\ run_current' = IF run_current = NULL THEN sched_current ELSE run_current
  /\ IF sched_current = NULL
     THEN pc' = "halt" /\ UNCHANGED <<current_trapframe, host_saved_area>>
     ELSE world_switch(sched_current, "vcpu_run")
  /\ UNCHANGED <<schedVars, boot, request_yield>>

(* Head of the loop: world_switch(NULL, current). *)
LoopEnter ==
  /\ pc = "loop"
  /\ run_current' = sched_current
  /\ IF sched_current = NULL
     THEN pc' = "halt" /\ UNCHANGED <<current_trapframe, host_saved_area>>
     ELSE world_switch(sched_current, "vcpu_run")
  /\ UNCHANGED <<schedVars, boot, request_yield>>

(* The whole of vcpu_scheduler_yield as vcpu_run calls it: its switch runs *)
(* the target until its first trap, which returns into the yield.          *)
YieldAndSwitch ==
  /\ vcpu_scheduler_yield
  /\ IF YieldTarget # NULL
     THEN world_switch(YieldTarget, "yield")
     ELSE pc' = "loop" /\ UNCHANGED <<current_trapframe, host_saved_area>>

(* Faults: the request is not cleared; the loop yields without a request. *)
LoopKeepsRequest ==
  /\ pc = "returned" /\ host_saved_area = "vcpu_run"
  /\ IF request_yield[run_current]
     THEN YieldAndSwitch
     ELSE pc' = "loop" /\ UNCHANGED <<schedVars, current_trapframe, host_saved_area>>
  /\ UNCHANGED <<boot, request_yield, run_current>>
LoopAlwaysYields ==
  /\ pc = "returned" /\ host_saved_area = "vcpu_run"
  /\ request_yield' = [request_yield EXCEPT ![run_current] = FALSE]
  /\ YieldAndSwitch
  /\ UNCHANGED <<boot, run_current>>

(* world_switch returned into vcpu_run: test and clear the request of the  *)
(* vCPU that the loop entered, and yield.                                  *)
LoopCheckYield ==
  /\ pc = "returned" /\ host_saved_area = "vcpu_run"
  /\ IF request_yield[run_current]
     THEN /\ request_yield' = [request_yield EXCEPT ![run_current] = FALSE]
          /\ YieldAndSwitch
     ELSE /\ pc' = "loop"
          /\ UNCHANGED <<schedVars, request_yield, current_trapframe, host_saved_area>>
  /\ UNCHANGED <<boot, run_current>>

(* world_switch returned into vcpu_scheduler_yield, which returns to the   *)
(* loop; the request of the vCPU that just trapped is not looked at.       *)
YieldReturn ==
  /\ pc = "returned" /\ host_saved_area = "yield"
  /\ pc' = "loop"
  /\ UNCHANGED <<schedVars, boot, request_yield, current_trapframe, host_saved_area, run_current>>

-----------------------------------------------------------------------------
(* Fault: the latch stays armed after the capture. *)
TrapEntryKeepsLatch ==
  /\ pc = "guest"
  /\ UNCHANGED <<schedVars, boot, current_trapframe, host_saved_area, run_current>>

(* A synchronous exception from the running guest.  el2_vector_common      *)
(* clears the latch once the trapframe is captured.                        *)
TrapEntry ==
  /\ pc = "guest"
  /\ current_trapframe' = NULL
  /\ UNCHANGED <<schedVars, boot, host_saved_area, run_current>>

(* EC 0x01: a trapped WFI or WFE asks for a yield. *)
TrapWfx ==
  /\ TrapEntry
  /\ request_yield' = IF sched_current = NULL THEN request_yield
                      ELSE [request_yield EXCEPT ![sched_current] = TRUE]
  /\ pc' = "returned"

(* EC 0x16, HVC #0x60: print the report at the guest's pointer.  EL2 reads *)
(* it through its own stage-1 map: a pointer that map does not cover takes *)
(* an EL2 data abort (EC 0x25) with the latch clear, and EL2 hangs.        *)
ReportPointers == {"null", "mapped", "unmapped"}
TrapTaskReport(ptr) ==
  /\ TrapEntry
  /\ pc' = IF sched_current = NULL \/ ptr = "unmapped" THEN "halt" ELSE "returned"
  /\ UNCHANGED request_yield

(* EC 0x16, HVC #0x61: rebase the guest's virtual time. *)
TrapTimeOverride ==
  /\ TrapEntry
  /\ pc' = IF sched_current = NULL THEN "halt" ELSE "returned"
  /\ UNCHANGED request_yield

(* EC 0x18 on a timer register: an access that the handler's switch does   *)
(* not recognise is not handled, and EL2 hangs.                            *)
TrapTimerSysreg(emulated) ==
  /\ TrapEntry
  /\ pc' = IF sched_current = NULL \/ ~emulated THEN "halt" ELSE "returned"
  /\ UNCHANGED request_yield

(* Every other class: HVC #0x63, an unknown HVC or system register, SMC,   *)
(* an abort.  The handler dumps state and hangs.                           *)
TrapFatal ==
  /\ TrapEntry
  /\ pc' = "halt"
  /\ UNCHANGED request_yield

-----------------------------------------------------------------------------
El2Step == \/ BootRegister \/ BootSetCurrent \/ VcpuRunStart
           \/ LoopEnter \/ LoopCheckYield \/ YieldReturn

GuestTrap == \/ TrapWfx
             \/ \E ptr \in ReportPointers : TrapTaskReport(ptr)
             \/ TrapTimeOverride
             \/ \E emulated \in TimerDecodes : TrapTimerSysreg(emulated)
             \/ TrapFatal

(* The final wfi loops: the machine idles for ever. *)
Halted == pc = "halt" /\ UNCHANGED ctlVars

RunNext == El2Step \/ GuestTrap \/ Halted

RunSpec == RunInit /\ [][RunNext]_ctlVars

(* EL2 code runs to completion: it is straight-line code on one core and   *)
(* no interrupt source is ever enabled.                                    *)
El2Fairness == WF_ctlVars(El2Step)

(* A cooperative guest: one that keeps getting the core executes WFI again *)
(* and again, as the loops of counter_os.c and memwalk_os.c do.            *)
GuestFairness == \A v \in Vcpus : SF_ctlVars(TrapWfx /\ sched_current = v)

FairRunSpec == RunSpec /\ El2Fairness /\ GuestFairness

-----------------------------------------------------------------------------
RunTypeOK ==
  /\ SchedTypeOK
  /\ pc \in PCs
  /\ boot \in 0 .. VCPU_COUNT
  /\ request_yield \in [Vcpus -> BOOLEAN]
  /\ current_trapframe \in Vcpus \cup {NULL}
  /\ host_saved_area \in Frames
  /\ run_current \in Vcpus \cup {NULL}

(* The capture latch names the scheduler's current vCPU exactly while a    *)
(* guest runs: no trap is lost for want of a trapframe, none is written to *)
(* another vCPU's, and an EL2 fault overwrites none.                       *)
LatchTracksGuest ==
  /\ pc = "guest" => current_trapframe # NULL /\ current_trapframe = sched_current
  /\ pc # "guest" => current_trapframe = NULL

(* vcpu_run reads `current` before world_switch and uses it after: it is   *)
(* still the scheduler's current vCPU then, whichever trap came between.   *)
LoopPointerFresh ==
  pc \in {"guest", "returned"} /\ host_saved_area = "vcpu_run" => run_current = sched_current

(* Only the current vCPU can have a request pending, and never inside the  *)
(* run that a yield started: a request is not carried across a switch.     *)
RequestBelongsToCurrent ==
  \A v \in Vcpus : request_yield[v] =>
    /\ v = sched_current
    /\ ~(pc = "guest" /\ host_saved_area = "yield")

(* A vCPU loses the core only after it asked to, and the next vcpu_id gets *)
(* it: the switches are round-robin in pool order.                         *)
TurnsInOrder ==
  [][sched_current # NULL /\ sched_current' # sched_current =>
       /\ request_yield[sched_current]
       /\ sched_current' = (sched_current + 1) % VCPU_COUNT]_ctlVars

(* Every WFI of a guest is eventually answered by running another vCPU. *)
RequestServed ==
  \A v \in Vcpus : request_yield[v] ~> (sched_current # v \/ pc = "halt")

(* No starvation among cooperative guests: every vCPU runs again and again *)
(* unless the hypervisor halts.                                            *)
EveryVcpuRuns ==
  \A v \in Vcpus : []<>(pc = "halt" \/ (pc = "guest" /\ sched_current = v))

(* What the trap handler's message says of a trapped WFI ("yielding..."):  *)
(* with another vCPU queued, a guest whose request is pending does not get *)
(* the core back.                                                          *)
YieldBeforeResume ==
  pc = "guest" /\ sched_len >= 2 => ~request_yield[sched_current]

(* The strategy comment of core/trap.c: when EC 0x18 triggers, the guest's *)
(* CNTP access is translated, that is the trap is handled and the guest    *)
(* goes on.                                                                *)
TimerAccessEmulated ==
  [][\A emulated \in TimerDecodes : TrapTimerSysreg(emulated) => pc' = "returned"]_ctlVars
=============================================================================
