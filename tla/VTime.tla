-------------------------------- MODULE VTime --------------------------------
(***************************************************************************)
(* Virtual time: the offset that world_switch programs for the incoming    *)
(* vCPU, the snapshot that it saves for the outgoing one, the physical     *)
(* timer's compare value, which the vector and vcpu_switch_asm translate   *)
(* between the guest's counts and the processor's, and the hypercall that  *)
(* rebases a guest's time.  No guest ever programs its physical timer: the *)
(* access traps and EL2 hangs (SysregTrap), so the emulation in core/trap.c*)
(* has no action here.                                                     *)
(*                                                                         *)
(* Counts are W bits wide and wrap.  CNTP_CTL is its ENABLE bit: IMASK     *)
(* moves with it and ISTATUS is read-only.  CNTV_CTL and CNTV_CVAL hold    *)
(* virtual counts already and are never trapped: they move like the EL1    *)
(* registers of TrapFrame.  Time stands still inside one action.           *)
(***************************************************************************)
EXTENDS VcpuRun

CONSTANTS
  W,             \* width of a count (64 in the source)
  CntvoffAdded   \* does the processor add CNTVOFF_EL2 to CNTPCT, or subtract it?

ASSUME TimeAssumption ==
  /\ W \in Nat \ {0}
  /\ CntvoffAdded \in BOOLEAN

(* Arithmetic of every W, stated because no prover knows `^'. *)
ASSUME PowerPositive == 2^W \in Nat \ {0}

VARIABLES
  CNTPCT,        \* the physical counter
  CNTVOFF,       \* CNTVOFF_EL2
  CNTP_CVAL,     \* the processor's compare value, in physical counts
  CNTP_CTL,      \* the processor's timer control
  cntvct_el0,    \* vCPU -> arch.cntvct_el0
  cntvoff_el2,   \* vCPU -> arch.cntvoff_el2
  tf_timer       \* vCPU -> tf.cntp_ctl_el0 and tf.cntp_cval_el0, in virtual counts

hwTime == <<CNTVOFF, CNTP_CVAL, CNTP_CTL>>
vcpuTime == <<cntvct_el0, cntvoff_el2, tf_timer>>
vtVars == <<ctlVars, CNTPCT, hwTime, vcpuTime>>

M == 2^W
Counts == 0 .. M - 1
Plus(a, b) == (a + b) % M
Minus(a, b) == (a - b) % M
Ctls == {0, 1}
Timers == [ctl : Ctls, cval : Counts]

(* What a read of CNTVCT_EL0 returns.  The Arm architecture subtracts the  *)
(* offset.                                                                 *)
virtual_counter_now ==
  IF CntvoffAdded THEN Plus(CNTPCT, CNTVOFF) ELSE Minus(CNTPCT, CNTVOFF)

(* vcpu_init_slot: a zero offset, the timer that the processor happens to  *)
(* hold after reset, and a virtual count that starts at the physical one.  *)
VtInit ==
  /\ RunInit
  /\ CNTPCT \in Counts
  /\ CNTVOFF \in Counts
  /\ CNTP_CVAL \in Counts /\ CNTP_CTL \in Ctls
  /\ cntvct_el0 = [v \in Vcpus |-> CNTPCT]
  /\ cntvoff_el2 = [v \in Vcpus |-> 0]
  /\ tf_timer = [v \in Vcpus |-> [ctl |-> CNTP_CTL, cval |-> Plus(CNTP_CVAL, 0)]]

-----------------------------------------------------------------------------
(* The counter advances at any time. *)
Tick ==
  /\ pc # "halt"
  /\ CNTPCT' = Plus(CNTPCT, 1)
  /\ UNCHANGED <<ctlVars, hwTime, vcpuTime>>

(* The time part of world_switch(from, to) and of the vcpu_switch_asm it   *)
(* ends in: save the outgoing count, program the incoming offset, and load *)
(* the timer with its compare value in physical counts.                    *)
SwitchTime(from, to) ==
  LET vct == IF from = NULL THEN cntvct_el0
             ELSE [cntvct_el0 EXCEPT ![from] = virtual_counter_now]
      offset == Minus(vct[to], CNTPCT)
  IN /\ cntvct_el0' = vct
     /\ cntvoff_el2' = [cntvoff_el2 EXCEPT ![to] = offset]
     /\ CNTVOFF' = offset
     /\ CNTP_CVAL' = Minus(tf_timer[to].cval, offset)
     /\ CNTP_CTL' = tf_timer[to].ctl
     /\ UNCHANGED tf_timer

VtLoopEnter ==
  /\ LoopEnter
  /\ IF pc' = "guest" THEN SwitchTime(NULL, sched_current) ELSE UNCHANGED <<hwTime, vcpuTime>>
  /\ UNCHANGED CNTPCT

VtLoopCheckYield ==
  /\ LoopCheckYield
  /\ IF pc' = "guest"
     THEN SwitchTime(sched_current, sched_current')
     ELSE UNCHANGED <<hwTime, vcpuTime>>
  /\ UNCHANGED CNTPCT

VtOther ==
  /\ BootRegister \/ BootSetCurrent \/ VcpuRunStart \/ YieldReturn \/ Halted
  /\ UNCHANGED <<CNTPCT, hwTime, vcpuTime>>

(* Fault: the compare value is captured as a physical count. *)
CapturedUntranslated ==
  IF current_trapframe = NULL THEN tf_timer
  ELSE [tf_timer EXCEPT ![current_trapframe] = [ctl |-> CNTP_CTL, cval |-> CNTP_CVAL]]

(* el2_vector_common: the captured compare value is a virtual count. *)
Captured ==
  IF current_trapframe = NULL THEN tf_timer
  ELSE [tf_timer EXCEPT ![current_trapframe] =
          [ctl |-> CNTP_CTL, cval |-> Plus(CNTP_CVAL, CNTVOFF)]]

(* A trap whose handler leaves the timers alone. *)
VtTrapOther ==
  /\ \/ TrapWfx \/ TrapFatal
     \/ \E emulated \in TimerDecodes : TrapTimerSysreg(emulated)
     \/ \E ptr \in ReportPointers : TrapTaskReport(ptr)
  /\ tf_timer' = Captured
  /\ UNCHANGED <<CNTPCT, hwTime, cntvct_el0, cntvoff_el2>>

(* Fault: the offset is programmed but not cached in the vCPU. *)
OverrideForgetsCache(desired) ==
  LET offset == Minus(desired, CNTPCT)
  IN /\ TrapTimeOverride
     /\ tf_timer' = Captured
     /\ cntvct_el0' = [cntvct_el0 EXCEPT ![sched_current] = desired]
     /\ CNTVOFF' = offset
     /\ CNTP_CVAL' = Minus(Captured[sched_current].cval, offset)
     /\ CNTP_CTL' = Captured[sched_current].ctl
     /\ UNCHANGED <<CNTPCT, cntvoff_el2>>

(* HVC #0x61: rebase the guest's virtual count to `desired` and reprogram  *)
(* the timer from the frame.                                               *)
handle_guest_time_override(desired) ==
  LET offset == Minus(desired, CNTPCT)
  IN /\ TrapTimeOverride
     /\ tf_timer' = Captured
     /\ cntvct_el0' = [cntvct_el0 EXCEPT ![sched_current] = desired]
     /\ cntvoff_el2' = [cntvoff_el2 EXCEPT ![sched_current] = offset]
     /\ CNTVOFF' = offset
     /\ CNTP_CVAL' = Minus(Captured[sched_current].cval, offset)
     /\ CNTP_CTL' = Captured[sched_current].ctl
     /\ UNCHANGED CNTPCT

VtNext ==
  \/ Tick \/ VtLoopEnter \/ VtLoopCheckYield \/ VtOther
  \/ VtTrapOther
  \/ \E d \in Counts : handle_guest_time_override(d)

VtSpec == VtInit /\ [][VtNext]_vtVars

-----------------------------------------------------------------------------
VtTypeOK ==
  /\ RunTypeOK
  /\ {CNTPCT, CNTVOFF, CNTP_CVAL} \subseteq Counts /\ CNTP_CTL \in Ctls
  /\ cntvct_el0 \in [Vcpus -> Counts]
  /\ cntvoff_el2 \in [Vcpus -> Counts]
  /\ tf_timer \in [Vcpus -> Timers]

(* The offset is kept twice, cached in the vCPU and in the register that   *)
(* the vector and vcpu_switch_asm translate with: the two agree from the   *)
(* first guest entry on.                                                   *)
CachedOffsetFresh ==
  host_saved_area # "none" => cntvoff_el2[sched_current] = CNTVOFF

(* The timer setting that the code keeps for vCPU v: the compare value     *)
(* with CNTVOFF added, in the processor or in the frame.  The code takes   *)
(* that for a virtual count; it is one if the processor adds CNTVOFF too.  *)
TimerSetting(v) ==
  IF current_trapframe = v THEN [ctl |-> CNTP_CTL, cval |-> Plus(CNTP_CVAL, CNTVOFF)]
  ELSE tf_timer[v]

(* Whatever the offset becomes meanwhile, the vector's capture undoes      *)
(* exactly the translation that the entry or the rebase made: no sequence  *)
(* of traps, switches and rebases makes a vCPU's timer setting drift from  *)
(* what vcpu_init_slot gave it.  (No guest can change its own.)            *)
TimerSettingKept ==
  [][\A v \in Vcpus : TimerSetting(v)' = TimerSetting(v)]_vtVars

(* The strategy comment of core/trap.c: from the moment a vCPU is scheduled *)
(* in, its count advances with the host's.  Only a rebase may break that.   *)
CountsWithHost ==
  [][host_saved_area # "none" /\ sched_current' = sched_current
       /\ ~(\E d \in Counts : handle_guest_time_override(d))
     => Minus(virtual_counter_now', virtual_counter_now) = Minus(CNTPCT', CNTPCT)]_vtVars
=============================================================================
