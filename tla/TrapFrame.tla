------------------------------ MODULE TrapFrame ------------------------------
(***************************************************************************)
(* The register half of a guest entry and of a trap: vcpu_switch_asm loads *)
(* the processor from the vCPU's trapframe, el2_vector_common captures it  *)
(* there, and the handlers of core/trap.c step the frame past the          *)
(* instruction that trapped.                                               *)
(*                                                                         *)
(* A register set is a record: gpr for x0-x30 (some of them), elr for the  *)
(* guest's program counter, el1 for the EL1 registers that are moved the   *)
(* same way: SP_EL1, SPSR, TTBR0/1, TCR, SCTLR, TPIDR, CNTKCTL, CNTV_CTL   *)
(* and CNTV_CVAL.  The physical timer is in VTime.                         *)
(***************************************************************************)
EXTENDS VcpuRun

CONSTANTS
  Gprs,      \* modelled general-purpose registers, x0 and x16 among them
  Vals,      \* contents of guest registers; a memclr'ed register holds Zero
  Zero,
  HostVal,   \* what EL2's own code leaves in a register
  PcMod      \* guest instructions are numbered 0 .. PcMod - 1, in a ring

ASSUME RegAssumption ==
  /\ {"x0", "x16"} \subseteq Gprs
  /\ Zero \in Vals
  /\ HostVal \notin Vals
  /\ PcMod \in Nat \ {0}

VARIABLES
  hw,   \* the registers of the processor
  tf    \* vCPU -> arch.tf

tfVars == <<ctlVars, hw, tf>>

Addrs == 0 .. PcMod - 1
Next4(addr) == (addr + 1) % PcMod

GuestRegs == [gpr : [Gprs -> Vals], elr : Addrs, el1 : Vals]
HwRegs == [gpr : [Gprs -> Vals \cup {HostVal}], elr : Addrs, el1 : Vals]

(* vcpu_init_slot: a cleared frame with an entry point, and the EL1        *)
(* registers as they happen to be at boot.  Its vcpu_id argument in x0 is  *)
(* any value.                                                              *)
TfInit ==
  /\ RunInit
  /\ hw \in HwRegs
  /\ hw.gpr = [r \in Gprs |-> HostVal]
  /\ tf \in [Vcpus -> GuestRegs]
  /\ \A v \in Vcpus : /\ \A r \in Gprs \ {"x0"} : tf[v].gpr[r] = Zero
                      /\ tf[v].el1 = hw.el1

-----------------------------------------------------------------------------
(* Fault: x16 is left out of the reload. *)
SwitchForgetsX16(to) == hw' = [tf[to] EXCEPT !.gpr["x16"] = hw.gpr["x16"]]

(* Entering a guest: every register comes from the frame, x0 last. *)
vcpu_switch_asm(to) == hw' = tf[to]

(* The loop's two entries into a guest; otherwise no guest register moves. *)
EnterGuest ==
  /\ IF pc' = "guest" THEN vcpu_switch_asm(current_trapframe') ELSE UNCHANGED hw
  /\ UNCHANGED tf

TfLoopEnter == LoopEnter /\ EnterGuest
TfLoopCheckYield == LoopCheckYield /\ EnterGuest

(* Fault: x16 is stored like the others, after the slot has reused it. *)
CaptureLiveX16(elr_el2) ==
  [gpr |-> [hw.gpr EXCEPT !["x16"] = HostVal], elr |-> elr_el2, el1 |-> hw.el1]

(* The vector slot pushes x16 and then uses it to hold the frame pointer,  *)
(* so the frame's x16 comes from the stack and the others from the live    *)
(* registers.                                                              *)
Capture(elr_el2) ==
  LET pushed == hw.gpr["x16"]
      live == [hw.gpr EXCEPT !["x16"] = HostVal]
  IN [gpr |-> [live EXCEPT !["x16"] = pushed],
      elr |-> elr_el2,
      el1 |-> hw.el1]

(* el2_vector_common stores into the latched frame, if there is one. *)
Captured(elr_el2) ==
  IF current_trapframe = NULL
  THEN tf
  ELSE [tf EXCEPT ![current_trapframe] = Capture(elr_el2)]

(* The processor while EL2 runs: x0-x30 are EL2's, EL1's registers stay. *)
HostHas(elr_el2) ==
  hw' = [gpr |-> [r \in Gprs |-> HostVal], elr |-> elr_el2, el1 |-> hw.el1]

(* The WFI path steps both ELR_EL2 and the frame of the scheduler's current *)
(* vCPU.                                                                    *)
Advanced(frames, elr_el2) ==
  IF sched_current = NULL
  THEN frames
  ELSE [frames EXCEPT ![sched_current].elr = Next4(elr_el2)]

(* The address that the architecture puts in ELR_EL2: of the instruction   *)
(* itself when WFI, WFE or a register access is trapped, of the next one   *)
(* for HVC.                                                                *)
TrappedAddr == hw.elr
HvcReturnAddr == Next4(hw.elr)

TfTrapWfx ==
  /\ TrapWfx
  /\ tf' = Advanced(Captured(TrappedAddr), TrappedAddr)
  /\ HostHas(Next4(TrappedAddr))

(* Fault: the HVC path steps the frame too, like the WFI path. *)
TaskReportAdvancesTwice(ptr) ==
  /\ TrapTaskReport(ptr)
  /\ tf' = Advanced(Captured(HvcReturnAddr), HvcReturnAddr)
  /\ HostHas(Next4(HvcReturnAddr))

TfTrapTaskReport(ptr) ==
  /\ TrapTaskReport(ptr)
  /\ tf' = Captured(HvcReturnAddr)
  /\ HostHas(HvcReturnAddr)

(* The handler also rewrites x0, with the value the guest passed in it. *)
TfTrapTimeOverride ==
  /\ TrapTimeOverride
  /\ tf' = Captured(HvcReturnAddr)
  /\ HostHas(HvcReturnAddr)

(* No access is emulated (TimerAccessHangs), so no register is written and *)
(* nothing is stepped.                                                     *)
TfTrapTimerSysreg(emulated) ==
  /\ TrapTimerSysreg(emulated)
  /\ tf' = Captured(TrappedAddr)
  /\ HostHas(TrappedAddr)

(* A fatal HVC reports the next address, any other fatal trap its own. *)
TfTrapFatal ==
  /\ TrapFatal
  /\ \E a \in {TrappedAddr, HvcReturnAddr} : tf' = Captured(a) /\ HostHas(a)

(* A guest instruction that does not trap writes a register of its own. *)
GuestStep ==
  /\ pc = "guest"
  /\ \/ \E r \in Gprs, x \in Vals :
          hw' = [hw EXCEPT !.gpr[r] = x, !.elr = Next4(hw.elr)]
     \/ \E x \in Vals : hw' = [hw EXCEPT !.el1 = x, !.elr = Next4(hw.elr)]
  /\ UNCHANGED <<ctlVars, tf>>

-----------------------------------------------------------------------------
TfBoot == /\ BootRegister \/ BootSetCurrent \/ VcpuRunStart
          /\ UNCHANGED <<hw, tf>>

TfYieldReturn == YieldReturn /\ UNCHANGED <<hw, tf>>

TfEl2Step == TfBoot \/ TfLoopEnter \/ TfLoopCheckYield \/ TfYieldReturn

TfGuestTrap ==
  \/ TfTrapWfx
  \/ \E ptr \in ReportPointers : TfTrapTaskReport(ptr)
  \/ TfTrapTimeOverride
  \/ \E emulated \in TimerDecodes : TfTrapTimerSysreg(emulated)
  \/ TfTrapFatal

TfHalted == Halted /\ UNCHANGED <<hw, tf>>

TfNext == TfEl2Step \/ TfGuestTrap \/ GuestStep \/ TfHalted

TfSpec == TfInit /\ [][TfNext]_tfVars

(* EL2 code and the guest's instruction stream both make progress; nothing *)
(* obliges a guest to trap.                                                *)
BusyGuestSpec == TfSpec /\ WF_tfVars(TfEl2Step) /\ WF_tfVars(TfGuestTrap \/ GuestStep)

-----------------------------------------------------------------------------
TfTypeOK ==
  /\ RunTypeOK
  /\ hw \in HwRegs
  /\ tf \in [Vcpus -> GuestRegs]

(* What vCPU v's registers are: the live ones while it runs, else its      *)
(* frame.                                                                  *)
CpuView == [v \in Vcpus |-> IF current_trapframe = v THEN hw ELSE tf[v]]

(* No register content of EL2's own code is ever visible to a guest or     *)
(* stored in its frame.                                                    *)
NoHostRegisterLeak ==
  \A v \in Vcpus : \A r \in Gprs : CpuView[v].gpr[r] # HostVal

PC == INSTANCE PrivateCpu
        WITH cpu <- CpuView, active <- current_trapframe, halted <- (pc = "halt")

(* The trap and switch path gives every guest a private processor: traps   *)
(* retire one instruction each, and neither a switch nor another guest     *)
(* touches its registers.  A timer-register access is not retired: it stops*)
(* the machine.                                                            *)
ImplementsPrivateCpu == PC!Spec

(* The README's "preemptive VCPU scheduler": a guest that only computes    *)
(* loses the core to the others from time to time.                         *)
PreemptsBusyGuest ==
  \A v \in Vcpus : []<>(pc = "halt" \/ (pc = "guest" /\ sched_current = v))
=============================================================================
